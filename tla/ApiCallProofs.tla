--------------------------- MODULE ApiCallProofs ---------------------------
(***************************************************************************)
(* Theorems about ApiCall, for every number of calls and of retries, and   *)
(* about RecordUpdates, for any command lines.  None of them needs the     *)
(* fairness of Spec, so they are stated of its other half, Safety.         *)
(***************************************************************************)
EXTENDS RecordUpdates, TLAPS

\* The parts of the inductive invariant: calls not yet made have no trace, the
\* client's connection and the request it wrote belong together, a body that
\* is read is of an executed call, and no call exceeds its budget.
Untouched == \A c \in Calls : c > cur =>
    stray[c] = 0 /\ executed[c] = 0 /\ outcome[c] = "none"

Connected ==
    /\ answer = "pending" => conn = "await"
    /\ answer # "none" => conn \in {"await", "reading"}
    /\ answer = "2xx" \/ conn = "reading" => executed[cur] > 0
    /\ conn = "backoff" => attempt < max_retries
    /\ \A c \in Calls : c < cur \/ (c = cur /\ conn = "idle") => outcome[c] # "none"

Affordable == \A c \in Calls : executed[c] + Budget(c) <= max_retries + 1

CallInv == TypeOK /\ Untouched /\ Connected /\ Affordable

LEMMA MaxRetriesType == max_retries \in Nat
  BY ApiAssumption DEF max_retries

LEMMA CallsType == \A c \in Calls : c \in Nat
  BY ApiAssumption DEF Calls

LEMMA CallInit == Init => CallInv
<1> SUFFICES ASSUME Init PROVE CallInv
  OBVIOUS
<1>1. /\ url \in {"good", "no scheme", "unknown scheme"}
      /\ cur = 0 /\ attempt = 0 /\ conn = "idle" /\ answer = "none"
      /\ stray = [c \in Calls |-> 0] /\ executed = [c \in Calls |-> 0]
      /\ cause = [c \in Calls |-> "none"] /\ outcome = [c \in Calls |-> "none"]
  BY DEF Init
<1>2. NCalls \in Nat /\ 0 \in 0..NCalls /\ 0 \in 0..max_retries
  BY MaxRetriesType, ApiAssumption
<1>3. TypeOK
  BY <1>1, <1>2 DEF TypeOK, Conns, Answers, Causes, Timeouts, Outcomes
<1>4. ASSUME NEW c \in Calls
      PROVE  ~(c < cur) /\ c # cur
  <2>1. cur = 0
    BY <1>1
  <2>2. c \in Nat /\ c >= 1
    BY <1>2 DEF Calls
  <2> QED
    BY <2>1, <2>2
<1>5. Untouched
  BY <1>1 DEF Untouched
<1>6. Connected
  BY <1>1, <1>4 DEF Connected
<1>7. ASSUME NEW c \in Calls
      PROVE  executed[c] + Budget(c) <= max_retries + 1
  <2>1. executed[c] = 0 /\ stray[c] = 0 /\ conn = "idle"
    BY <1>1
  <2>2. Budget(c) = 0
    BY <2>1 DEF Budget
  <2> QED
    BY <2>1, <2>2, MaxRetriesType
<1> QED
  BY <1>3, <1>5, <1>6, <1>7 DEF CallInv, Affordable

\* An attempt is given up: a request the server has not handled becomes stray.
\* What the call may still cost does not grow.
LEMMA GiveUp ==
    ASSUME CallInv, cur \in Calls, conn # "idle",
           stray' = IF answer = "pending" THEN [stray EXCEPT ![cur] = @ + 1] ELSE stray,
           conn' = "idle" \/ (conn' = "backoff" /\ attempt < max_retries),
           answer' = "none", UNCHANGED <<cur, attempt, executed>>
    PROVE  /\ stray' \in [Calls -> Nat]
           /\ \A c \in Calls : c # cur => stray'[c] = stray[c]
           /\ Affordable'
<1>1. stray \in [Calls -> Nat] /\ executed \in [Calls -> Nat] /\ attempt \in 0..max_retries
  BY DEF CallInv, TypeOK
<1>2. attempt \in Nat /\ attempt <= max_retries
  BY <1>1, MaxRetriesType
<1>3. CASE answer = "pending"
  <2>1. stray' = [stray EXCEPT ![cur] = stray[cur] + 1] /\ conn = "await"
    BY <1>3 DEF CallInv, Connected
  <2>2. stray' \in [Calls -> Nat] /\ stray'[cur] = stray[cur] + 1
        /\ \A c \in Calls : c # cur => stray'[c] = stray[c]
    BY <1>1, <2>1
  <2>3. ASSUME NEW c \in Calls
        PROVE  executed'[c] + Budget(c)' <= max_retries + 1
    <3>1. executed[c] + Budget(c) <= max_retries + 1
      BY DEF CallInv, Affordable
    <3>2. executed[c] \in Nat /\ stray[c] \in Nat
      BY <1>1
    <3>3. CASE c = cur
      <4>1. Budget(c) = stray[c] + ((max_retries - attempt) + 1)
        BY <1>3, <2>1, <3>3 DEF Budget
      <4>2. Budget(c)' <= stray[c] + 1 + (max_retries - attempt)
        BY <1>2, <2>2, <3>2, <3>3, MaxRetriesType DEF Budget
      <4>3. Budget(c)' \in Int
        BY <1>2, <2>2, <3>2, <3>3, MaxRetriesType DEF Budget
      <4> QED
        BY <1>2, <3>1, <3>2, <4>1, <4>2, <4>3, MaxRetriesType
    <3>4. CASE c # cur
      BY <2>2, <3>1, <3>4 DEF Budget
    <3> QED
      BY <3>3, <3>4
  <2> QED
    BY <2>2, <2>3 DEF Affordable
<1>4. CASE answer # "pending"
  <2>1. stray' = stray
    BY <1>4
  <2>2. ASSUME NEW c \in Calls
        PROVE  executed'[c] + Budget(c)' <= max_retries + 1
    <3>1. executed[c] + Budget(c) <= max_retries + 1
      BY DEF CallInv, Affordable
    <3>2. executed[c] \in Nat /\ stray[c] \in Nat
      BY <1>1
    <3>3. Budget(c)' <= Budget(c) /\ Budget(c)' \in Int /\ Budget(c) \in Int
      BY <1>2, <1>4, <2>1, <3>2, MaxRetriesType DEF Budget
    <3> QED
      BY <3>1, <3>2, <3>3, MaxRetriesType
  <2> QED
    BY <1>1, <2>1, <2>2 DEF Affordable
<1> QED
  BY <1>3, <1>4

\* An ending call keeps the invariant.
LEMMA EndStep ==
    ASSUME CallInv, conn # "idle", NEW o \in Outcomes \ {"none"}, NEW why \in Causes,
           End(o, why)
    PROVE  CallInv'
<1>1. /\ conn' = "idle" /\ answer' = "none"
      /\ outcome' = [outcome EXCEPT ![cur] = o] /\ cause' = [cause EXCEPT ![cur] = why]
      /\ stray' = IF answer = "pending" THEN [stray EXCEPT ![cur] = @ + 1] ELSE stray
      /\ UNCHANGED <<url, cur, attempt, executed>>
  BY DEF End
<1>2. cur \in Calls /\ TypeOK
  BY DEF CallInv, TypeOK
<1>3. /\ stray' \in [Calls -> Nat] /\ Affordable'
      /\ \A c \in Calls : c # cur => stray'[c] = stray[c]
  BY <1>1, <1>2, GiveUp
<1>4. outcome' \in [Calls -> Outcomes] /\ cause' \in [Calls -> Causes]
      /\ outcome'[cur] # "none" /\ \A c \in Calls : c # cur => outcome'[c] = outcome[c]
  BY <1>1, <1>2 DEF TypeOK
<1>5. TypeOK'
  BY <1>1, <1>2, <1>3, <1>4 DEF TypeOK, Conns, Answers
<1>6. Untouched'
  BY <1>1, <1>2, <1>3, <1>4, CallsType DEF CallInv, Untouched
<1>7. Connected'
  BY <1>1, <1>2, <1>4 DEF CallInv, Connected
<1> QED
  BY <1>3, <1>5, <1>6, <1>7 DEF CallInv

\* So does a failed attempt, retried or not.
LEMMA RetryOrRaiseStep ==
    ASSUME CallInv, conn # "idle", NEW o \in Outcomes \ {"none"}, NEW why \in Causes,
           RetryOrRaise(o, why)
    PROVE  CallInv'
<1>1. CASE ~(attempt < max_retries)
  BY <1>1, EndStep DEF RetryOrRaise
<1>2. CASE attempt < max_retries
  <2>1. /\ conn' = "backoff" /\ cause' = [cause EXCEPT ![cur] = why] /\ answer' = "none"
        /\ stray' = IF answer = "pending" THEN [stray EXCEPT ![cur] = @ + 1] ELSE stray
        /\ UNCHANGED <<url, cur, attempt, executed, outcome>>
    BY <1>2 DEF RetryOrRaise
  <2>2. cur \in Calls /\ TypeOK
    BY DEF CallInv, TypeOK
  <2>3. /\ stray' \in [Calls -> Nat] /\ Affordable'
        /\ \A c \in Calls : c # cur => stray'[c] = stray[c]
    BY <1>2, <2>1, <2>2, GiveUp
  <2>4. TypeOK'
    BY <2>1, <2>2, <2>3 DEF TypeOK, Conns, Answers
  <2>5. Untouched'
    BY <2>1, <2>2, <2>3, CallsType DEF CallInv, Untouched
  <2>6. Connected'
    BY <1>2, <2>1, <2>2 DEF CallInv, Connected
  <2> QED
    BY <2>3, <2>4, <2>5, <2>6 DEF CallInv
<1> QED
  BY <1>1, <1>2

\* The budget of the current call, by what the client is doing.
LEMMA BudgetCases ==
    ASSUME TypeOK
    PROVE  /\ \A c \in Calls : executed[c] \in Nat /\ stray[c] \in Nat /\ Budget(c) \in Int
           /\ \A c \in Calls : c # cur \/ conn = "idle" => Budget(c) = stray[c]
           /\ attempt \in Nat /\ attempt <= max_retries /\ max_retries \in Nat
<1>1. stray \in [Calls -> Nat] /\ executed \in [Calls -> Nat] /\ attempt \in 0..max_retries
  BY DEF TypeOK
<1>2. attempt \in Nat /\ attempt <= max_retries /\ max_retries \in Nat
  BY <1>1, MaxRetriesType
<1>3. ASSUME NEW c \in Calls
      PROVE  /\ executed[c] \in Nat /\ stray[c] \in Nat /\ Budget(c) \in Int
             /\ c # cur \/ conn = "idle" => Budget(c) = stray[c]
  <2>1. executed[c] \in Nat /\ stray[c] \in Nat
    BY <1>1
  <2> QED
    BY <1>2, <2>1 DEF Budget
<1> QED
  BY <1>2, <1>3

LEMMA StartCallStep ==
    ASSUME CallInv, StartCall
    PROVE  CallInv'
<1>1. /\ conn = "idle" /\ cur < NCalls /\ cur' = cur + 1 /\ attempt' = 0
      /\ UNCHANGED <<url, answer, stray, executed>>
  BY DEF StartCall
<1>2. TypeOK /\ Untouched /\ Connected /\ Affordable
  BY DEF CallInv
<1>3. cur \in 0..NCalls
  BY <1>2 DEF TypeOK
<1>4. cur' \in Calls /\ cur' \in 0..NCalls /\ cur \in Nat /\ cur' > cur
  BY <1>1, <1>3, ApiAssumption DEF Calls
<1>5. /\ stray[cur'] = 0 /\ executed[cur'] = 0 /\ outcome[cur'] = "none" /\ cur' # cur
      /\ \A c \in Calls : c > cur' => c > cur
  BY <1>2, <1>4, CallsType DEF Untouched
<1>6. 0 \in 0..max_retries
  BY MaxRetriesType
<1>7. /\ answer = "none" \/ answer = "pending" \/ answer \in Replies
      /\ answer = "none"
  BY <1>1, <1>2 DEF Connected, TypeOK, Answers
<1>8. Affordable'
  <2> SUFFICES ASSUME NEW c \in Calls
               PROVE  executed'[c] + Budget(c)' <= max_retries + 1
    BY DEF Affordable, Budget
  <2>1. executed[c] + Budget(c) <= max_retries + 1 /\ Budget(c) = stray[c]
    BY <1>1, <1>2, BudgetCases DEF Affordable
  <2>2. CASE c # cur'
    <3>1. Budget(c)' = stray[c] /\ executed'[c] = executed[c]
      BY <1>1, <1>2, <2>2, BudgetCases DEF Budget
    <3> QED
      BY <2>1, <3>1
  <2>3. CASE c = cur'
    <3>1. stray'[c] = 0 /\ executed'[c] = 0
      BY <1>1, <1>5, <2>3
    <3>2. Budget(c)' <= max_retries + 1 /\ Budget(c)' \in Int
      BY <1>1, <3>1, MaxRetriesType DEF Budget
    <3> QED
      BY <3>1, <3>2, MaxRetriesType
  <2> QED
    BY <2>2, <2>3
<1>9. CASE url = "no scheme"
  <2>1. /\ outcome' = [outcome EXCEPT ![cur'] = "raw"]
        /\ cause' = [cause EXCEPT ![cur'] = "invalid url"] /\ conn' = conn
    BY <1>1, <1>9 DEF StartCall
  <2>2. outcome' \in [Calls -> Outcomes] /\ cause' \in [Calls -> Causes]
        /\ outcome'[cur'] = "raw" /\ \A c \in Calls : c # cur' => outcome'[c] = outcome[c]
    BY <1>2, <1>4, <2>1 DEF TypeOK, Outcomes, Causes
  <2>3. TypeOK'
    BY <1>1, <1>2, <1>4, <1>6, <2>1, <2>2 DEF TypeOK
  <2>4. Untouched'
    BY <1>1, <1>2, <1>4, <1>5, <2>2, CallsType DEF Untouched
  <2>5. \A c \in Calls : c < cur' \/ c = cur' => c = cur' \/ c = cur \/ c < cur
    BY <1>1, <1>4, CallsType
  <2>6. Connected'
    BY <1>1, <1>2, <1>7, <2>1, <2>2, <2>5 DEF Connected
  <2> QED
    BY <1>8, <2>3, <2>4, <2>6 DEF CallInv
<1>10. CASE url # "no scheme"
  <2>1. conn' = "connect" /\ UNCHANGED <<outcome, cause>>
    BY <1>1, <1>10 DEF StartCall
  <2>2. TypeOK'
    BY <1>1, <1>2, <1>4, <1>5, <1>6, <2>1 DEF TypeOK, Conns
  <2>3. Untouched'
    BY <1>1, <1>2, <1>5, <2>1 DEF Untouched
  <2>4. \A c \in Calls : c < cur' => c = cur \/ c < cur
    BY <1>1, <1>4, CallsType
  <2>5. Connected'
    BY <1>1, <1>2, <1>7, <2>1, <2>4 DEF Connected
  <2> QED
    BY <1>8, <2>2, <2>3, <2>5 DEF CallInv
<1> QED
  BY <1>9, <1>10

LEMMA SendRequestStep ==
    ASSUME CallInv, SendRequest
    PROVE  CallInv'
<1>1. /\ conn = "connect" /\ conn' = "await" /\ answer' = "pending"
      /\ UNCHANGED <<url, cur, attempt, stray, executed, cause, outcome>>
  BY DEF SendRequest
<1>2. TypeOK /\ Untouched /\ Connected /\ Affordable
  BY DEF CallInv
<1>3. TypeOK'
  BY <1>1, <1>2 DEF TypeOK, Conns, Answers
<1>4. Untouched' /\ Connected'
  BY <1>1, <1>2 DEF Untouched, Connected
<1>5. ASSUME NEW c \in Calls
      PROVE  Budget(c)' = Budget(c)
  BY <1>1 DEF Budget
<1>6. Affordable'
  BY <1>1, <1>2, <1>5 DEF Affordable
<1> QED
  BY <1>3, <1>4, <1>6 DEF CallInv

LEMMA ReadStep ==
    ASSUME CallInv, conn = "await", answer = "2xx", conn' = "reading",
           UNCHANGED <<url, cur, attempt, answer, stray, executed, cause, outcome>>
    PROVE  CallInv'
<1>1. TypeOK /\ Untouched /\ Connected /\ Affordable
  BY DEF CallInv
<1>2. TypeOK' /\ Untouched' /\ Connected'
  BY <1>1 DEF TypeOK, Conns, Untouched, Connected
<1>3. ASSUME NEW c \in Calls
      PROVE  Budget(c)' = Budget(c)
  BY DEF Budget
<1> QED
  BY <1>1, <1>2, <1>3 DEF CallInv, Affordable

LEMMA RetryStep ==
    ASSUME CallInv, Retry
    PROVE  CallInv'
<1>1. /\ conn = "backoff" /\ conn' = "connect" /\ attempt' = attempt + 1
      /\ UNCHANGED <<url, cur, answer, stray, executed, cause, outcome>>
  BY DEF Retry
<1>2. TypeOK /\ Untouched /\ Connected /\ Affordable
  BY DEF CallInv
<1>3. attempt < max_retries /\ answer = "none"
  BY <1>1, <1>2 DEF Connected
<1>4. attempt \in Nat /\ max_retries \in Nat
  BY <1>2, BudgetCases
<1>5. attempt' \in 0..max_retries
  BY <1>1, <1>3, <1>4
<1>6. TypeOK'
  BY <1>1, <1>2, <1>5 DEF TypeOK, Conns
<1>7. Untouched' /\ Connected'
  BY <1>1, <1>2, <1>3 DEF Untouched, Connected
<1>8. ASSUME NEW c \in Calls
      PROVE  Budget(c)' = Budget(c)
  <2>1. stray[c] \in Nat
    BY <1>2, BudgetCases
  <2> QED
    BY <1>1, <1>3, <1>4, <2>1 DEF Budget
<1> QED
  BY <1>1, <1>2, <1>6, <1>7, <1>8 DEF CallInv, Affordable

LEMMA ServerHandlesStep ==
    ASSUME CallInv, ServerHandles
    PROVE  CallInv'
<1>1. PICK a \in Replies, n \in {0, 1} : Handle(cur, a, n) /\ answer' = a
  BY DEF ServerHandles
<1>2. /\ answer = "pending" /\ (a = "2xx" => n = 1)
      /\ executed' = [executed EXCEPT ![cur] = executed[cur] + n]
      /\ UNCHANGED <<url, cur, attempt, conn, stray, cause, outcome>>
  BY <1>1 DEF ServerHandles, Handle
<1>3. TypeOK /\ Untouched /\ Connected /\ Affordable
  BY DEF CallInv
<1>4. conn = "await" /\ cur \in Calls
  BY <1>2, <1>3 DEF Connected, TypeOK
<1>5. executed[cur] \in Nat /\ executed[cur] + n \in Nat
  BY <1>3, <1>4, BudgetCases
<1>6. /\ executed' \in [Calls -> Nat] /\ executed'[cur] = executed[cur] + n
      /\ \A c \in Calls : c # cur => executed'[c] = executed[c]
  <2>1. executed \in [Calls -> Nat]
    BY <1>3 DEF TypeOK
  <2> QED
    BY <1>2, <1>4, <1>5, <2>1
<1>7. TypeOK'
  BY <1>1, <1>2, <1>3, <1>6 DEF TypeOK, Answers
<1>8. Untouched'
  BY <1>2, <1>3, <1>4, <1>6, CallsType DEF Untouched
<1>9. answer' = "2xx" => executed'[cur] > 0
  BY <1>1, <1>2, <1>5, <1>6
<1>10. Connected'
  <2>1. answer' # "pending" /\ conn' = "await"
    BY <1>1, <1>2, <1>4 DEF Replies
  <2> QED
    BY <1>2, <1>3, <1>4, <1>9, <2>1 DEF Connected
<1>11. ASSUME NEW c \in Calls
       PROVE  executed'[c] + Budget(c)' <= max_retries + 1
  <2>1. /\ executed[c] + Budget(c) <= max_retries + 1
        /\ executed[c] \in Nat /\ stray[c] \in Nat
        /\ attempt \in Nat /\ attempt <= max_retries /\ max_retries \in Nat
    BY <1>3, BudgetCases DEF Affordable
  <2>2. CASE c # cur
    BY <1>2, <1>6, <2>1, <2>2 DEF Budget
  <2>3. CASE c = cur
    <3>1. Budget(c) = stray[c] + ((max_retries - attempt) + 1)
      BY <1>2, <1>4, <2>3 DEF Budget
    <3>2. answer' # "pending"
      BY <1>1 DEF Replies
    <3>3. Budget(c)' = stray[c] + ((max_retries - attempt) + 0)
      BY <1>2, <1>4, <2>3, <3>2 DEF Budget
    <3>4. executed'[c] = executed[c] + n
      BY <1>6, <2>3
    <3> QED
      BY <2>1, <3>1, <3>3, <3>4
  <2> QED
    BY <2>2, <2>3
<1> QED
  BY <1>7, <1>8, <1>10, <1>11 DEF CallInv, Affordable

LEMMA ServerHandlesStrayStep ==
    ASSUME CallInv, ServerHandlesStray
    PROVE  CallInv'
<1>1. PICK d \in Calls :
        /\ stray[d] > 0
        /\ stray' = [stray EXCEPT ![d] = stray[d] - 1]
        /\ \E n \in {0, 1} : executed' = [executed EXCEPT ![d] = executed[d] + n]
  BY DEF ServerHandlesStray
<1>2. PICK n \in {0, 1} : executed' = [executed EXCEPT ![d] = executed[d] + n]
  BY <1>1
<1>3. UNCHANGED <<url, cur, attempt, conn, answer, cause, outcome>>
  BY DEF ServerHandlesStray
<1>4. TypeOK /\ Untouched /\ Connected /\ Affordable
  BY DEF CallInv
<1>5. /\ executed[d] + n \in Nat /\ executed[d] + n >= executed[d] /\ executed[d] + n <= executed[d] + 1
      /\ stray[d] - 1 \in Nat /\ executed[d] \in Nat /\ stray[d] \in Nat
  BY <1>1, <1>4, BudgetCases
<1>6. /\ executed' \in [Calls -> Nat] /\ executed'[d] = executed[d] + n
      /\ stray' \in [Calls -> Nat] /\ stray'[d] = stray[d] - 1
      /\ \A c \in Calls : c # d => executed'[c] = executed[c] /\ stray'[c] = stray[c]
  <2>1. executed \in [Calls -> Nat] /\ stray \in [Calls -> Nat]
    BY <1>4 DEF TypeOK
  <2> QED
    BY <1>1, <1>2, <1>5, <2>1
<1>7. TypeOK'
  BY <1>3, <1>4, <1>6 DEF TypeOK
<1>8. ~(d > cur)
  BY <1>1, <1>4 DEF Untouched
<1>9. Untouched'
  BY <1>3, <1>4, <1>6, <1>8 DEF Untouched
<1>10. \A c \in Calls : executed[c] > 0 => executed'[c] > 0
  BY <1>4, <1>5, <1>6, BudgetCases
<1>11. answer = "2xx" \/ conn = "reading" => cur \in Calls
  BY <1>4 DEF Connected, TypeOK
<1>12. Connected'
  BY <1>3, <1>4, <1>10, <1>11 DEF Connected
<1>13. ASSUME NEW c \in Calls
       PROVE  executed'[c] + Budget(c)' <= max_retries + 1
  <2>1. /\ executed[c] + Budget(c) <= max_retries + 1
        /\ executed[c] \in Nat /\ stray[c] \in Nat /\ Budget(c) \in Int
        /\ attempt \in Nat /\ attempt <= max_retries /\ max_retries \in Nat
    BY <1>4, BudgetCases DEF Affordable
  <2>2. CASE c # d
    <3>1. Budget(c)' = Budget(c)
      BY <1>3, <1>6, <2>2 DEF Budget
    <3> QED
      BY <1>6, <2>1, <2>2, <3>1
  <2>3. CASE c = d
    <3>1. Budget(c)' = Budget(c) - 1
      BY <1>3, <1>6, <2>1, <2>3 DEF Budget
    <3> QED
      BY <1>5, <1>6, <2>1, <2>3, <3>1
  <2> QED
    BY <2>2, <2>3
<1> QED
  BY <1>7, <1>9, <1>12, <1>13 DEF CallInv, Affordable

\* The invariant is preserved by every step of the specification.
LEMMA CallStep ==
    ASSUME CallInv, [Next]_vars
    PROVE  CallInv'
<1>1. /\ {"value", "raw", "GreenComputeHTTPError", "GreenComputeTimeoutError",
           "GreenComputeConnectionError"} \subseteq Outcomes \ {"none"}
      /\ {"none", "refused", "connect timeout", "read timeout", "broken send",
          "unknown scheme", "4xx", "5xx", "reset", "broken body"} \subseteq Causes
  BY DEF Outcomes, Causes, Timeouts
<1>2. CASE StartCall
  BY <1>2, StartCallStep
<1>3. CASE ConnectFails
  BY <1>1, <1>3, RetryOrRaiseStep DEF ConnectFails
<1>4. CASE UnknownScheme
  BY <1>1, <1>4, RetryOrRaiseStep DEF UnknownScheme
<1>5. CASE SendRequest
  BY <1>5, SendRequestStep
<1>6. CASE SendBreaks
  BY <1>1, <1>6, RetryOrRaiseStep DEF SendBreaks
<1>7. CASE ReadTimeout
  BY <1>1, <1>7, RetryOrRaiseStep DEF ReadTimeout
<1>8. CASE Disconnect
  BY <1>1, <1>8, EndStep DEF Disconnect
<1>9. CASE ReceiveAnswer
  <2>1. conn = "await" /\ (answer = "2xx" \/ answer = "4xx" \/ answer = "5xx")
    BY <1>9 DEF ReceiveAnswer, Replies
  <2>2. CASE answer = "2xx"
    BY <1>9, <2>1, <2>2, ReadStep DEF ReceiveAnswer
  <2>3. CASE answer = "4xx"
    <3>1. End("GreenComputeHTTPError", "4xx")
      BY <1>9, <2>3 DEF ReceiveAnswer
    <3> QED
      BY <1>1, <2>1, <3>1, EndStep
  <2>4. CASE answer = "5xx"
    <3>1. RetryOrRaise("GreenComputeHTTPError", "5xx")
      BY <1>9, <2>4 DEF ReceiveAnswer
    <3> QED
      BY <1>1, <2>1, <3>1, RetryOrRaiseStep
  <2> QED
    BY <2>1, <2>2, <2>3, <2>4
<1>10. CASE ErrorBodyBreaks
  BY <1>1, <1>10, EndStep DEF ErrorBodyBreaks
<1>11. CASE ReadBody
  BY <1>1, <1>11, EndStep DEF ReadBody
<1>12. CASE BodyBreaks
  BY <1>1, <1>12, EndStep DEF BodyBreaks
<1>13. CASE Retry
  BY <1>13, RetryStep
<1>14. CASE ServerHandles
  BY <1>14, ServerHandlesStep
<1>15. CASE ServerHandlesStray
  BY <1>15, ServerHandlesStrayStep
<1>16. CASE UNCHANGED vars
  <2>1. \A c \in Calls : Budget(c)' = Budget(c)
    BY <1>16 DEF vars, Budget
  <2> QED
    BY <1>16, <2>1 DEF vars, CallInv, TypeOK, Untouched, Connected, Affordable
<1> QED
  BY <1>2, <1>3, <1>4, <1>5, <1>6, <1>7, <1>8, <1>9, <1>10, <1>11, <1>12, <1>13, <1>14,
     <1>15, <1>16 DEF Next, Client

\* CallInv holds in every reachable state.
THEOREM CallInvariant == Safety => []CallInv
  BY CallInit, CallStep, PTL DEF Safety

\* However often a client is configured to retry, the server executes no call
\* more often than that plus one, requests under way included.
THEOREM ExecutionsAreBounded == Safety => []ExecutionsBounded
<1>1. CallInv => ExecutionsBounded
  <2> SUFFICES ASSUME CallInv, NEW c \in Calls
               PROVE  executed[c] + stray[c] <= max_retries + 1
    BY DEF ExecutionsBounded
  <2>1. /\ executed[c] + Budget(c) <= max_retries + 1
        /\ executed[c] \in Nat /\ stray[c] \in Nat
        /\ attempt \in Nat /\ attempt <= max_retries /\ max_retries \in Nat
    BY BudgetCases DEF CallInv, Affordable
  <2>2. Budget(c) >= stray[c] /\ Budget(c) \in Int
    BY <2>1 DEF Budget
  <2> QED
    BY <2>1, <2>2
<1> QED
  BY <1>1, CallInvariant, PTL

\* The loop variable, the connection and the counters of a call keep their types.
THEOREM CallTypeCorrect == Safety => []TypeOK
<1>1. CallInv => TypeOK
  BY DEF CallInv
<1> QED
  BY <1>1, CallInvariant, PTL

-----------------------------------------------------------------------------
\* What an answer tells the caller.

\* A 4xx refuses the attempt it answers: only earlier ones may have had, or may
\* still have, an effect.
Refused == answer = "4xx" => executed[cur] + stray[cur] <= attempt

\* Without a usable URL nothing is ever sent.
NothingSent == url # "good" =>
    /\ conn \notin {"await", "reading"}
    /\ \A c \in Calls : executed[c] = 0 /\ stray[c] = 0

AnswerInv == CallInv /\ Refused /\ NothingSent

\* What RetryOrRaise and End have in common.
GivesUp(o, why) ==
    /\ stray' = IF answer = "pending" THEN [stray EXCEPT ![cur] = @ + 1] ELSE stray
    /\ answer' = "none" /\ UNCHANGED <<url, cur, attempt, executed>>
    /\ cause' = [cause EXCEPT ![cur] = why]
    /\ \/ conn' = "idle" /\ outcome' = [outcome EXCEPT ![cur] = o]
       \/ conn' = "backoff" /\ attempt < max_retries /\ outcome' = outcome

LEMMA EndGivesUp ==
    ASSUME NEW o, NEW why
    PROVE  /\ End(o, why) => GivesUp(o, why)
           /\ RetryOrRaise(o, why) => GivesUp(o, why)
  BY DEF End, RetryOrRaise, GivesUp

\* Each step of the client in progress is one of four: it gives up an attempt,
\* sends, starts to read, or starts the next attempt.
LEMMA ClientCases ==
    ASSUME Client
    PROVE  \/ StartCall
           \/ SendRequest
           \/ /\ conn = "await" /\ answer = "2xx" /\ conn' = "reading"
              /\ UNCHANGED <<url, cur, attempt, answer, stray, executed, cause, outcome>>
           \/ Retry
           \/ /\ conn = "connect" /\ url = "good"
              /\ \E why \in Causes : GivesUp("GreenComputeTimeoutError", why)
           \/ /\ conn = "connect" /\ url = "unknown scheme"
              /\ GivesUp("GreenComputeConnectionError", "unknown scheme")
           \/ /\ conn = "await"
              /\ \E why \in Causes : GivesUp("GreenComputeTimeoutError", why)
           \/ conn = "await" /\ answer = "4xx" /\ GivesUp("GreenComputeHTTPError", "4xx")
           \/ conn = "await" /\ GivesUp("GreenComputeHTTPError", "5xx")
           \/ conn \in {"await", "reading"} /\ \E why \in Causes : GivesUp("raw", why)
           \/ conn = "reading" /\ GivesUp("value", "none")
<1> USE DEF Causes, Timeouts
<1>1. CASE ConnectFails
  BY <1>1, EndGivesUp DEF ConnectFails
<1>2. CASE UnknownScheme
  BY <1>2, EndGivesUp DEF UnknownScheme
<1>3. CASE SendBreaks \/ ReadTimeout
  BY <1>3, EndGivesUp DEF SendBreaks, ReadTimeout
<1>4. CASE Disconnect
  BY <1>4, EndGivesUp DEF Disconnect
<1>5. CASE ReceiveAnswer
  <2>1. conn = "await" /\ (answer = "2xx" \/ answer = "4xx" \/ answer = "5xx")
    BY <1>5 DEF ReceiveAnswer, Replies
  <2>2. CASE answer = "2xx"
    BY <1>5, <2>1, <2>2 DEF ReceiveAnswer
  <2>3. CASE answer = "4xx"
    BY <1>5, <2>1, <2>3, EndGivesUp DEF ReceiveAnswer
  <2>4. CASE answer = "5xx"
    BY <1>5, <2>1, <2>4, EndGivesUp DEF ReceiveAnswer
  <2> QED
    BY <2>1, <2>2, <2>3, <2>4
<1>6. CASE ErrorBodyBreaks \/ BodyBreaks
  BY <1>6, EndGivesUp DEF ErrorBodyBreaks, BodyBreaks
<1>7. CASE ReadBody
  BY <1>7, EndGivesUp DEF ReadBody
<1> QED
  BY <1>1, <1>2, <1>3, <1>4, <1>5, <1>6, <1>7 DEF Client

LEMMA GivesUpAnswer ==
    ASSUME AnswerInv, CallInv', conn # "idle", NEW o, NEW why, GivesUp(o, why)
    PROVE  AnswerInv'
<1>1. Refused'
  BY DEF Refused, GivesUp
<1>2. NothingSent'
  BY DEF AnswerInv, CallInv, Connected, NothingSent, GivesUp
<1> QED
  BY <1>1, <1>2 DEF AnswerInv

LEMMA AnswerStep ==
    ASSUME AnswerInv, [Next]_vars
    PROVE  AnswerInv'
<1>1. CallInv /\ CallInv' /\ Refused /\ NothingSent
  BY CallStep DEF AnswerInv
<1>2. CASE Client
  <2>1. CASE StartCall
    <3>1. answer = "none" /\ answer' = answer /\ conn' \in {"idle", "connect"}
      BY <1>1, <2>1 DEF StartCall, CallInv, TypeOK, Connected, Answers, Replies
    <3> QED
      BY <1>1, <2>1, <3>1 DEF AnswerInv, Refused, NothingSent, StartCall
  <2>2. CASE SendRequest
    BY <1>1, <2>2 DEF AnswerInv, Refused, NothingSent, SendRequest
  <2>3. CASE /\ conn = "await" /\ answer = "2xx" /\ conn' = "reading"
             /\ UNCHANGED <<url, cur, attempt, answer, stray, executed, cause, outcome>>
    BY <1>1, <2>3 DEF AnswerInv, Refused, NothingSent
  <2>4. CASE Retry
    <3>1. answer' # "4xx"
      BY <1>1, <2>4 DEF Retry, CallInv, Connected
    <3> QED
      BY <1>1, <2>4, <3>1 DEF AnswerInv, Refused, NothingSent, Retry
  <2>5. CASE conn # "idle" /\ \E o, why : GivesUp(o, why)
    BY <1>1, <2>5, GivesUpAnswer
  <2> QED
    BY <1>2, <2>1, <2>2, <2>3, <2>4, <2>5, ClientCases
<1>3. CASE ServerHandles
  <2>1. PICK a \in Replies, n \in {0, 1} : Handle(cur, a, n) /\ answer' = a
    BY <1>3 DEF ServerHandles
  <2>2. /\ answer = "pending" /\ (a = "4xx" => n = 0)
        /\ executed' = [executed EXCEPT ![cur] = executed[cur] + n]
        /\ UNCHANGED <<url, cur, attempt, conn, stray>>
    BY <1>3, <2>1 DEF ServerHandles, Handle
  <2>3. conn = "await" /\ cur \in Calls
    BY <1>1, <2>2 DEF CallInv, Connected, TypeOK
  <2>4. /\ executed[cur] + Budget(cur) <= max_retries + 1
        /\ executed[cur] \in Nat /\ stray[cur] \in Nat
        /\ attempt \in Nat /\ attempt <= max_retries /\ max_retries \in Nat
        /\ Budget(cur) = stray[cur] + ((max_retries - attempt) + 1)
    <3>1. TypeOK /\ Affordable
      BY <1>1 DEF CallInv
    <3> QED
      BY <2>2, <2>3, <3>1, BudgetCases DEF Affordable, Budget
  <2>5. executed[cur] + stray[cur] <= attempt
    BY <2>4
  <2>6. Refused'
    <3>1. executed \in [Calls -> Nat]
      BY <1>1 DEF CallInv, TypeOK
    <3>2. executed'[cur] = executed[cur] + n
      BY <2>2, <2>3, <3>1
    <3>3. n = 0 => executed'[cur] + stray'[cur] <= attempt
      BY <2>2, <2>4, <2>5, <3>2
    <3> QED
      BY <2>1, <2>2, <3>3 DEF Refused
  <2>7. NothingSent'
    BY <1>1, <2>2, <2>3 DEF NothingSent
  <2> QED
    BY <1>1, <2>6, <2>7 DEF AnswerInv
<1>4. CASE ServerHandlesStray
  <2>1. PICK d \in Calls :
          /\ stray[d] > 0
          /\ stray' = [stray EXCEPT ![d] = stray[d] - 1]
          /\ \E n \in {0, 1} : executed' = [executed EXCEPT ![d] = executed[d] + n]
    BY <1>4 DEF ServerHandlesStray
  <2>2. PICK n \in {0, 1} : executed' = [executed EXCEPT ![d] = executed[d] + n]
    BY <2>1
  <2>3. UNCHANGED <<url, cur, attempt, conn, answer>>
    BY <1>4 DEF ServerHandlesStray
  <2>4. \A c \in Calls : executed[c] \in Nat /\ stray[c] \in Nat
    BY <1>1, BudgetCases DEF CallInv
  <2>5. \A c \in Calls : /\ executed'[c] = IF c = d THEN executed[c] + n ELSE executed[c]
                         /\ stray'[c] = IF c = d THEN stray[c] - 1 ELSE stray[c]
    BY <1>1, <2>1, <2>2 DEF CallInv, TypeOK
  <2>6. Refused'
    <3>1. ASSUME answer = "4xx" PROVE executed'[cur] + stray'[cur] <= attempt
      <4>1. cur \in Calls /\ executed[cur] + stray[cur] <= attempt /\ attempt \in Nat
        BY <1>1, <3>1, BudgetCases DEF CallInv, Connected, TypeOK, Refused
      <4>2. executed'[cur] + stray'[cur] <= executed[cur] + stray[cur]
        BY <2>4, <2>5, <4>1
      <4>3. /\ executed[cur] \in Nat /\ stray[cur] \in Nat
            /\ executed'[cur] \in Int /\ stray'[cur] \in Int
        BY <2>4, <2>5, <4>1
      <4> QED
        BY <4>1, <4>2, <4>3
    <3> QED
      BY <2>3, <3>1 DEF Refused
  <2>7. NothingSent'
    BY <1>1, <2>1, <2>3 DEF NothingSent
  <2> QED
    BY <1>1, <2>6, <2>7 DEF AnswerInv
<1>5. CASE UNCHANGED vars
  BY <1>1, <1>5 DEF vars, AnswerInv, Refused, NothingSent
<1> QED
  BY <1>2, <1>3, <1>4, <1>5 DEF Next

\* AnswerInv holds in every reachable state.
THEOREM AnswerInvariant == Safety => []AnswerInv
<1>1. Init => AnswerInv
  <2> SUFFICES ASSUME Init PROVE AnswerInv
    OBVIOUS
  <2>1. Refused /\ NothingSent
    BY DEF Init, Refused, NothingSent
  <2> QED
    BY <2>1, CallInit DEF AnswerInv
<1> QED
  BY <1>1, AnswerStep, PTL DEF Safety

\* What AnswersAreDefinite says of a step.
Definite(c) == outcome[c] = "none" /\ outcome'[c] # "none" =>
    /\ outcome'[c] = "value" => executed'[c] \in 1..(attempt + 1 - stray'[c])
    /\ outcome'[c] = "GreenComputeHTTPError" /\ cause'[c] = "4xx"
          => executed'[c] + stray'[c] <= attempt
    /\ outcome'[c] = "GreenComputeConnectionError"
          => executed'[c] + stray'[c] = 0

\* What is known of the call in progress once its body is read: the attempts
\* cover its executions and what is stray.
LEMMA ReadingBudget ==
    ASSUME CallInv, conn = "reading"
    PROVE  /\ cur \in Calls /\ answer # "pending"
           /\ executed[cur] \in 1..(attempt + 1 - stray[cur])
<1>1. TypeOK /\ Connected /\ Affordable
  BY DEF CallInv
<1>2. cur \in Calls /\ answer # "pending" /\ executed[cur] > 0
  BY <1>1 DEF TypeOK, Connected
<1>3. /\ executed[cur] \in Nat /\ stray[cur] \in Nat
      /\ attempt \in Nat /\ attempt <= max_retries /\ max_retries \in Nat
  BY <1>1, <1>2, BudgetCases
<1>4. Budget(cur) = stray[cur] + ((max_retries - attempt) + 0)
  BY <1>2 DEF Budget
<1>5. executed[cur] + Budget(cur) <= max_retries + 1
  BY <1>1, <1>2 DEF Affordable
<1>6. executed[cur] \in 1..(attempt + 1 - stray[cur])
  BY <1>2, <1>3, <1>4, <1>5
<1> QED
  BY <1>2, <1>6

LEMMA NothingPlusNothing == \A x, y : x = 0 /\ y = 0 => x + y = 0
  OBVIOUS

\* An attempt that is given up ends the call as its answer allows.
LEMMA GivesUpDefinite ==
    ASSUME AnswerInv, conn # "idle", NEW o, NEW why, GivesUp(o, why),
           o = "value" => conn = "reading",
           o = "GreenComputeHTTPError" /\ why = "4xx" => answer = "4xx",
           o = "GreenComputeConnectionError" => url = "unknown scheme"
    PROVE  \A c \in Calls : Definite(c)
<1>1. CallInv /\ Refused /\ NothingSent
  BY DEF AnswerInv
<1>2. TypeOK /\ cur \in Calls
  BY <1>1 DEF CallInv, TypeOK
<1>3. SUFFICES ASSUME NEW c \in Calls, outcome[c] = "none", outcome'[c] # "none"
               PROVE  Definite(c)
  BY DEF Definite
<1>4. c = cur /\ outcome'[c] = o /\ cause'[c] = why /\ executed'[c] = executed[c]
  BY <1>2, <1>3 DEF GivesUp, TypeOK
<1>5. answer # "pending" => stray'[c] = stray[c]
  BY DEF GivesUp
<1>6. ASSUME o = "value" PROVE executed'[c] \in 1..(attempt + 1 - stray'[c])
  BY <1>1, <1>4, <1>5, <1>6, ReadingBudget
<1>7. ASSUME o = "GreenComputeHTTPError", why = "4xx"
      PROVE  executed'[c] + stray'[c] <= attempt
  BY <1>1, <1>4, <1>5, <1>7 DEF Refused
<1>8. ASSUME o = "GreenComputeConnectionError"
      PROVE  executed'[c] + stray'[c] = 0
  <2>1. executed[c] = 0 /\ stray[c] = 0 /\ conn # "await"
    BY <1>1, <1>8 DEF NothingSent
  <2>2. answer # "pending"
    BY <1>1, <2>1 DEF CallInv, Connected
  <2>3. executed'[c] = 0 /\ stray'[c] = 0
    BY <1>4, <1>5, <2>1, <2>2
  <2> QED
    BY <2>3, NothingPlusNothing
<1> QED
  BY <1>4, <1>6, <1>7, <1>8 DEF Definite

LEMMA DefiniteStep ==
    ASSUME AnswerInv, [Next]_vars
    PROVE  \A c \in Calls : Definite(c)
<1>1. ASSUME UNCHANGED outcome PROVE \A c \in Calls : Definite(c)
  BY <1>1 DEF Definite
<1>2. CASE Client
  <2>1. CASE StartCall
    <3>1. UNCHANGED outcome \/ outcome' = [outcome EXCEPT ![cur + 1] = "raw"]
      BY <2>1 DEF StartCall
    <3>2. ASSUME outcome' = [outcome EXCEPT ![cur + 1] = "raw"], NEW c \in Calls
          PROVE  Definite(c)
      <4>1. outcome'[c] = outcome[c] \/ outcome'[c] = "raw"
        BY <3>2 DEF AnswerInv, CallInv, TypeOK
      <4> QED
        BY <4>1 DEF Definite
    <3> QED
      BY <1>1, <3>1, <3>2
  <2>2. CASE SendRequest \/ Retry
    BY <1>1, <2>2 DEF SendRequest, Retry
  <2>3. CASE conn # "idle" /\ \E why \in Causes : GivesUp("GreenComputeTimeoutError", why)
    BY <2>3, GivesUpDefinite
  <2>4. CASE /\ conn # "idle" /\ url = "unknown scheme"
             /\ GivesUp("GreenComputeConnectionError", "unknown scheme")
    BY <2>4, GivesUpDefinite
  <2>5. CASE conn # "idle" /\ answer = "4xx" /\ GivesUp("GreenComputeHTTPError", "4xx")
    BY <2>5, GivesUpDefinite
  <2>6. CASE conn # "idle" /\ GivesUp("GreenComputeHTTPError", "5xx")
    BY <2>6, GivesUpDefinite
  <2>7. CASE conn # "idle" /\ \E why \in Causes : GivesUp("raw", why)
    BY <2>7, GivesUpDefinite
  <2>8. CASE conn = "reading" /\ GivesUp("value", "none")
    BY <2>8, GivesUpDefinite
  <2>9. conn = "await" \/ conn = "reading" \/ conn = "connect" => conn # "idle"
    OBVIOUS
  <2> QED
    BY <1>1, <1>2, <2>1, <2>2, <2>3, <2>4, <2>5, <2>6, <2>7, <2>8, <2>9, ClientCases
<1>3. CASE ServerHandles \/ ServerHandlesStray \/ UNCHANGED vars
  BY <1>1, <1>3 DEF ServerHandles, ServerHandlesStray, vars
<1> QED
  BY <1>2, <1>3 DEF Next

\* A returned value means that the server executed the call, a 4xx that the
\* attempt it answers was not executed, an unusable URL that nothing was sent:
\* in each case only the earlier attempts are in doubt.
THEOREM AnswersCanBeTrusted == Safety => AnswersAreDefinite
<1>1. AnswerInv /\ [Next]_vars =>
        [\A c \in Calls : outcome[c] = "none" /\ outcome'[c] # "none" =>
          /\ outcome'[c] = "value" => executed'[c] \in 1..(attempt + 1 - stray'[c])
          /\ outcome'[c] = "GreenComputeHTTPError" /\ cause'[c] = "4xx"
                => executed'[c] + stray'[c] <= attempt
          /\ outcome'[c] = "GreenComputeConnectionError"
                => executed'[c] + stray'[c] = 0]_vars
  BY DefiniteStep DEF Definite
<1> QED
  BY <1>1, AnswerInvariant, PTL DEF Safety, AnswersAreDefinite

-----------------------------------------------------------------------------
\* The contract of CallContract.

Budgets == [c \in Calls |-> Budget(c)]
Fates == [c \in Calls |-> Fate(c)]

LEMMA MappedCalls == Contract!ccvars = <<Budgets, executed, Fates>>
  BY DEF Contract!ccvars, Budgets, Fates

\* The actions of the contract, in terms of the state of the client.
LEMMA ContractCalls ==
    ASSUME NEW c \in Calls
    PROVE  /\ /\ Fates[c] = "new" /\ Fates' = [Fates EXCEPT ![c] = "open"]
              /\ Budgets' = [Budgets EXCEPT ![c] = max_retries + 1] /\ executed' = executed
              => Contract!CCNext
           /\ /\ Fates[c] = "new" /\ Fates' = [Fates EXCEPT ![c] = "failed"]
              /\ Budgets' = Budgets /\ executed' = executed
              => Contract!CCNext
           /\ /\ Budgets[c] > 0 /\ Budgets' = [Budgets EXCEPT ![c] = Budgets[c] - 1]
              /\ executed' = [executed EXCEPT ![c] = executed[c] + 1] /\ Fates' = Fates
              => Contract!CCNext
           /\ /\ Fates[c] # "new" /\ executed' = executed
              /\ \E b \in 0..Budgets[c] : Budgets' = [Budgets EXCEPT ![c] = b]
              /\ \/ Fates' = Fates
                 \/ /\ Fates[c] = "open"
                    /\ \E f \in {"value", "failed"} :
                          /\ f = "value" => executed[c] > 0
                          /\ Fates' = [Fates EXCEPT ![c] = f]
              => Contract!CCNext
  BY DEF Contract!CCNext, Contract!Open, Contract!Reject, Contract!Execute, Contract!Shrink,
         Budgets, Fates

LEMMA ContractSame ==
    ASSUME Budgets' = Budgets, Fates' = Fates, executed' = executed
    PROVE  [Contract!CCNext]_(Contract!ccvars)
  BY MappedCalls DEF Contract!ccvars, Budgets, Fates

\* The fate of a call depends on its outcome and on cur alone.
LEMMA SameFates ==
    ASSUME outcome' = outcome, cur' = cur
    PROVE  Fates' = Fates
<1>1. \A c \in Calls : Fate(c)' = Fate(c)
  BY DEF Fate
<1> QED
  BY <1>1 DEF Fates

\* Starting a call opens it, or rejects it for its URL.
LEMMA StartMapped ==
    ASSUME CallInv, CallInv', StartCall
    PROVE  [Contract!CCNext]_(Contract!ccvars)
<1>1. /\ conn = "idle" /\ cur < NCalls /\ cur' = cur + 1 /\ attempt' = 0
      /\ UNCHANGED <<url, answer, stray, executed>>
  BY DEF StartCall
<1>2. TypeOK /\ TypeOK' /\ Untouched
  BY DEF CallInv
<1>3. cur \in Nat /\ cur + 1 \in Calls
  <2>1. cur \in 0..NCalls
    BY <1>2 DEF TypeOK
  <2> QED
    BY <1>1, <2>1, ApiAssumption DEF Calls
<1>11. PICK n \in Calls : n = cur + 1
  BY <1>3
<1>10. cur' = n /\ n = cur + 1
  BY <1>1, <1>11
<1>4. /\ stray[n] = 0 /\ outcome[n] = "none" /\ ~(n <= cur) /\ n <= n
      /\ \A c \in Calls : c # n => (c <= n <=> c <= cur)
  <2>1. n > cur
    BY <1>3, <1>10
  <2>2. stray[n] = 0 /\ outcome[n] = "none"
    BY <1>2, <1>3, <2>1 DEF Untouched
  <2>3. /\ ~(n <= cur) /\ n <= n
        /\ \A c \in Calls : c # n => (c <= n <=> c <= cur)
    BY <1>1, <1>10, <1>3, CallsType
  <2> QED
    BY <2>2, <2>3
<1>5. Fates[n] = "new" /\ Budgets[n] = 0
  BY <1>1, <1>2, <1>3, <1>4, BudgetCases DEF Fates, Fate, Budgets
<1>6. /\ answer = "none"
      /\ \A c \in Calls : c # n => /\ outcome'[c] = outcome[c]
                                 /\ Fate(c)' = Fate(c)
  <2>1. \A c \in Calls : c # n => outcome'[c] = outcome[c]
    <3>1. outcome' = outcome \/ outcome' = [outcome EXCEPT ![n] = "raw"]
      BY <1>10 DEF StartCall
    <3> QED
      BY <1>2, <3>1 DEF TypeOK
  <2>2. \A c \in Calls : c # n => Fate(c)' = Fate(c)
    BY <1>4, <1>10, <2>1 DEF Fate
  <2>3. answer = "none"
    BY <1>1, <1>2 DEF CallInv, TypeOK, Connected, Answers, Replies
  <2> QED
    BY <2>1, <2>2, <2>3
<1>7. \A c \in Calls : c # n => Budget(c)' = Budget(c)
  <2>1. \A c \in Calls : Budget(c) = stray[c]
    BY <1>1, <1>2, BudgetCases
  <2>2. \A c \in Calls : stray[c] \in Nat
    BY <1>2, BudgetCases
  <2>3. \A c \in Calls : c # n => Budget(c)' = stray[c]
    BY <1>1, <1>10, <2>2 DEF Budget
  <2> QED
    BY <2>1, <2>3
<1>8. CASE url = "no scheme"
  <2>1. conn' = "idle" /\ outcome' = [outcome EXCEPT ![n] = "raw"]
    BY <1>1, <1>10, <1>8 DEF StartCall
  <2>2. outcome'[n] = "raw"
    BY <1>2, <1>3, <2>1 DEF TypeOK
  <2>3. Fate(n)' = "failed"
    BY <2>2 DEF Fate
  <2>4. Fates' = [Fates EXCEPT ![n] = "failed"]
    BY <1>3, <1>6, <2>3 DEF Fates
  <2>5. Budget(n)' = 0
    BY <1>1, <1>4, <2>1 DEF Budget
  <2>6. Budgets' = Budgets
    BY <1>3, <1>5, <1>7, <2>5 DEF Budgets
  <2> QED
    BY <1>1, <1>3, <1>5, <2>4, <2>6, ContractCalls
<1>9. CASE url # "no scheme"
  <2>1. conn' = "connect" /\ outcome' = outcome
    BY <1>1, <1>10, <1>9 DEF StartCall
  <2>2. Fate(n)' = "open"
    BY <1>4, <1>10, <2>1 DEF Fate
  <2>3. Fates' = [Fates EXCEPT ![n] = "open"]
    BY <1>3, <1>6, <2>2 DEF Fates
  <2>4. Budget(n)' = 0 + ((max_retries - 0) + 1)
    BY <1>1, <1>10, <1>4, <2>1 DEF Budget
  <2>5. Budget(n)' = max_retries + 1
    BY <2>4, MaxRetriesType
  <2>6. Budgets' = [Budgets EXCEPT ![n] = max_retries + 1]
    BY <1>3, <1>7, <2>5 DEF Budgets
  <2> QED
    BY <1>1, <1>3, <1>5, <2>3, <2>6, ContractCalls
<1> QED
  BY <1>8, <1>9

\* An attempt that ends or is given up shrinks the budget of its call: what is
\* pending becomes stray, and no more attempts than are left follow.
LEMMA GivesUpMapped ==
    ASSUME CallInv, CallInv', conn # "idle", NEW o \in Outcomes \ {"none"}, NEW why,
           GivesUp(o, why), o = "value" => conn = "reading"
    PROVE  [Contract!CCNext]_(Contract!ccvars)
<1>1. TypeOK /\ TypeOK' /\ Connected
  BY DEF CallInv
<1>2. /\ UNCHANGED <<cur, attempt, executed>> /\ answer' = "none"
      /\ stray' = IF answer = "pending" THEN [stray EXCEPT ![cur] = @ + 1] ELSE stray
      /\ \/ conn' = "idle" /\ outcome' = [outcome EXCEPT ![cur] = o]
         \/ conn' = "backoff" /\ attempt < max_retries /\ outcome' = outcome
  BY DEF GivesUp
<1>3. cur \in Calls /\ outcome[cur] = "none"
  BY <1>1 DEF TypeOK
<1>4. Fates[cur] = "open"
  <2>1. cur <= cur
    BY <1>3, CallsType
  <2> QED
    BY <1>3, <2>1 DEF Fates, Fate
<1>5. /\ stray[cur] \in Nat /\ attempt \in Nat /\ attempt <= max_retries /\ max_retries \in Nat
  BY <1>1, <1>3, BudgetCases
<1>6. /\ stray'[cur] = IF answer = "pending" THEN stray[cur] + 1 ELSE stray[cur]
      /\ \A c \in Calls : c # cur => stray'[c] = stray[c]
  <2>1. stray \in [Calls -> Nat]
    BY <1>1 DEF TypeOK
  <2> QED
    BY <1>2, <1>3, <2>1
<1>7. \A c \in Calls : c # cur => Budget(c)' = Budget(c)
  BY <1>2, <1>6 DEF Budget
<1>8. Budget(cur)' \in 0..Budget(cur)
  <2>1. Budget(cur) = stray[cur] + ((max_retries - attempt)
                        + (IF answer = "pending" \/ conn = "connect" THEN 1 ELSE 0))
    BY DEF Budget
  <2>2. Budget(cur)' = stray'[cur] + (IF conn' = "idle" THEN 0 ELSE (max_retries - attempt) + 0)
    BY <1>2 DEF Budget
  <2> QED
    BY <1>5, <1>6, <2>1, <2>2
<1>9. \E b \in 0..Budgets[cur] : Budgets' = [Budgets EXCEPT ![cur] = b]
  <2>1. PICK b \in 0..Budget(cur) : Budget(cur)' = b
    BY <1>8
  <2>2. Budgets' = [Budgets EXCEPT ![cur] = b]
    BY <1>2, <1>3, <1>7, <2>1 DEF Budgets
  <2> QED
    BY <1>3, <2>1, <2>2 DEF Budgets
<1>10. CASE outcome' = outcome
  <2>1. Fates' = Fates
    BY <1>2, <1>10, SameFates
  <2> QED
    BY <1>2, <1>3, <1>4, <1>9, <2>1, ContractCalls
<1>11. CASE outcome' = [outcome EXCEPT ![cur] = o]
  <2>1. /\ outcome'[cur] = o /\ \A c \in Calls : c # cur => outcome'[c] = outcome[c]
    BY <1>1, <1>3, <1>11 DEF TypeOK
  <2> DEFINE f == IF o = "value" THEN "value" ELSE "failed"
  <2>2. Fate(cur)' = f /\ \A c \in Calls : c # cur => Fate(c)' = Fate(c)
    BY <1>2, <2>1 DEF Fate
  <2>3. Fates' = [Fates EXCEPT ![cur] = f]
    BY <1>2, <1>3, <2>2 DEF Fates
  <2>4. f = "value" => executed[cur] > 0
    BY <1>1 DEF Connected
  <2>5. f \in {"value", "failed"}
    OBVIOUS
  <2> HIDE DEF f
  <2>6. \E g \in {"value", "failed"} :
          (g = "value" => executed[cur] > 0) /\ Fates' = [Fates EXCEPT ![cur] = g]
    BY <2>3, <2>4, <2>5
  <2> QED
    BY <1>2, <1>3, <1>4, <1>9, <2>6, ContractCalls
<1> QED
  BY <1>2, <1>10, <1>11

\* The client writes, reads or starts the next attempt: the contract sees nothing.
LEMMA QuietMapped ==
    ASSUME CallInv,
           \/ SendRequest
           \/ /\ conn = "await" /\ conn' = "reading"
              /\ UNCHANGED <<url, cur, attempt, answer, stray, executed, cause, outcome>>
           \/ Retry
           \/ UNCHANGED vars
    PROVE  [Contract!CCNext]_(Contract!ccvars)
<1>1. UNCHANGED <<cur, stray, executed, outcome>>
  BY DEF SendRequest, Retry, vars
<1>2. Fates' = Fates
  BY <1>1, SameFates
<1>3. \A c \in Calls : stray[c] \in Nat
  BY BudgetCases DEF CallInv
<1>4. attempt \in Nat /\ max_retries \in Nat
  BY BudgetCases DEF CallInv
<1>5. \A c \in Calls : Budget(c)' = Budget(c)
  <2>1. CASE ~Retry
    BY <1>1, <2>1 DEF SendRequest, vars, Budget
  <2>2. CASE Retry
    <3>1. /\ conn = "backoff" /\ conn' = "connect" /\ attempt' = attempt + 1
          /\ answer' = answer /\ answer # "pending"
      BY <2>2 DEF Retry, CallInv, Connected
    <3> QED
      BY <1>1, <1>3, <1>4, <3>1 DEF Budget
  <2> QED
    BY <2>1, <2>2
<1>6. Budgets' = Budgets
  BY <1>5 DEF Budgets
<1> QED
  BY <1>1, <1>2, <1>6, ContractSame

\* One execution, or none: the request of call d is spent.
LEMMA SpendMapped ==
    ASSUME TypeOK, NEW d \in Calls, NEW n \in {0, 1},
           Fates' = Fates, Fates[d] # "new",
           Budget(d) \in Nat, Budget(d) > 0, Budget(d)' = Budget(d) - 1,
           \A c \in Calls : c # d => Budget(c)' = Budget(c),
           executed' = [executed EXCEPT ![d] = executed[d] + n]
    PROVE  [Contract!CCNext]_(Contract!ccvars)
<1>1. Budgets' = [Budgets EXCEPT ![d] = Budgets[d] - 1]
  BY DEF Budgets
<1>2. Budgets[d] > 0 /\ Budgets[d] - 1 \in 0..Budgets[d]
  BY DEF Budgets
<1>3. CASE n = 1
  BY <1>1, <1>2, <1>3, ContractCalls
<1>4. CASE n = 0
  <2>1. executed \in [Calls -> Nat]
    BY DEF TypeOK
  <2>2. executed' = executed
    BY <1>4, <2>1
  <2>3. \E b \in 0..Budgets[d] : Budgets' = [Budgets EXCEPT ![d] = b]
    BY <1>1, <1>2
  <2> QED
    BY <2>2, <2>3, ContractCalls
<1> QED
  BY <1>3, <1>4

LEMMA ServerMapped ==
    ASSUME CallInv, ServerHandles
    PROVE  [Contract!CCNext]_(Contract!ccvars)
<1>1. PICK a \in Replies, n \in {0, 1} : Handle(cur, a, n) /\ answer' = a
  BY DEF ServerHandles
<1>2. /\ answer = "pending" /\ answer' # "pending"
      /\ executed' = [executed EXCEPT ![cur] = executed[cur] + n]
      /\ UNCHANGED <<url, cur, attempt, conn, stray, cause, outcome>>
  BY <1>1 DEF ServerHandles, Handle, Replies
<1>3. TypeOK /\ conn = "await" /\ cur \in Calls /\ outcome[cur] = "none"
  BY <1>2 DEF CallInv, Connected, TypeOK
<1>4. Fates' = Fates
  BY <1>2, SameFates
<1>5. Fates[cur] # "new"
  <2>1. cur <= cur
    BY <1>3, CallsType
  <2> QED
    BY <1>3, <2>1 DEF Fates, Fate
<1>6. /\ stray[cur] \in Nat /\ attempt \in Nat /\ attempt <= max_retries /\ max_retries \in Nat
  BY <1>3, BudgetCases
<1>7. /\ Budget(cur) = stray[cur] + ((max_retries - attempt) + 1)
      /\ Budget(cur)' = stray[cur] + ((max_retries - attempt) + 0)
  BY <1>2, <1>3 DEF Budget
<1>8. Budget(cur) \in Nat /\ Budget(cur) > 0 /\ Budget(cur)' = Budget(cur) - 1
  BY <1>6, <1>7
<1>9. \A c \in Calls : c # cur => Budget(c)' = Budget(c)
  BY <1>2 DEF Budget
<1>10. PICK d \in Calls : d = cur
  BY <1>3
<1>11. Budget(d) = Budget(cur) /\ Budget(d)' = Budget(cur)'
  BY <1>2, <1>10 DEF Budget
<1> QED
  BY <1>2, <1>3, <1>4, <1>5, <1>8, <1>9, <1>10, <1>11, SpendMapped

LEMMA StrayMapped ==
    ASSUME CallInv, ServerHandlesStray
    PROVE  [Contract!CCNext]_(Contract!ccvars)
<1>1. PICK d \in Calls :
        /\ stray[d] > 0
        /\ stray' = [stray EXCEPT ![d] = stray[d] - 1]
        /\ \E n \in {0, 1} : executed' = [executed EXCEPT ![d] = executed[d] + n]
  BY DEF ServerHandlesStray
<1>2. PICK n \in {0, 1} : executed' = [executed EXCEPT ![d] = executed[d] + n]
  BY <1>1
<1>3. UNCHANGED <<url, cur, attempt, conn, answer, cause, outcome>>
  BY DEF ServerHandlesStray
<1>4. TypeOK /\ Untouched
  BY DEF CallInv
<1>5. Fates' = Fates
  BY <1>3, SameFates
<1>6. d <= cur
  <2>1. ~(d > cur)
    BY <1>1, <1>4 DEF Untouched
  <2>2. cur \in 0..NCalls
    BY <1>4 DEF TypeOK
  <2> QED
    BY <2>1, <2>2, CallsType
<1>7. Fates[d] # "new"
  BY <1>6 DEF Fates, Fate
<1>8. /\ attempt \in Nat /\ attempt <= max_retries /\ max_retries \in Nat
      /\ \A c \in Calls : stray[c] \in Nat
  BY <1>4, BudgetCases
<1>9. /\ stray'[d] = stray[d] - 1
      /\ \A c \in Calls : c # d => stray'[c] = stray[c]
  <2>1. stray \in [Calls -> Nat]
    BY <1>4 DEF TypeOK
  <2> QED
    BY <1>1, <2>1
<1>10. Budget(d) \in Nat /\ Budget(d) > 0 /\ Budget(d)' = Budget(d) - 1
  BY <1>1, <1>3, <1>8, <1>9 DEF Budget
<1>11. \A c \in Calls : c # d => Budget(c)' = Budget(c)
  BY <1>3, <1>9 DEF Budget
<1> QED
  BY <1>2, <1>4, <1>5, <1>7, <1>10, <1>11, SpendMapped

LEMMA ContractStep ==
    ASSUME CallInv, CallInv', [Next]_vars
    PROVE  [Contract!CCNext]_(Contract!ccvars)
<1>1. {"value", "raw", "GreenComputeHTTPError", "GreenComputeTimeoutError",
       "GreenComputeConnectionError"} \subseteq Outcomes \ {"none"}
  BY DEF Outcomes
<1>2. CASE Client
  <2>1. CASE StartCall
    BY <2>1, StartMapped
  <2>2. CASE SendRequest \/ Retry
    BY <2>2, QuietMapped
  <2>3. CASE /\ conn = "await" /\ conn' = "reading"
             /\ UNCHANGED <<url, cur, attempt, answer, stray, executed, cause, outcome>>
    BY <2>3, QuietMapped
  <2>4. CASE conn # "idle" /\ \E why \in Causes : GivesUp("GreenComputeTimeoutError", why)
    BY <1>1, <2>4, GivesUpMapped
  <2>5. CASE conn # "idle" /\ \E why : GivesUp("GreenComputeConnectionError", why)
    BY <1>1, <2>5, GivesUpMapped
  <2>6. CASE conn # "idle" /\ \E why : GivesUp("GreenComputeHTTPError", why)
    BY <1>1, <2>6, GivesUpMapped
  <2>7. CASE conn # "idle" /\ \E why \in Causes : GivesUp("raw", why)
    BY <1>1, <2>7, GivesUpMapped
  <2>8. CASE conn = "reading" /\ GivesUp("value", "none")
    BY <1>1, <2>8, GivesUpMapped
  <2>9. conn = "await" \/ conn = "reading" \/ conn = "connect" => conn # "idle"
    OBVIOUS
  <2> QED
    BY <1>2, <2>1, <2>2, <2>3, <2>4, <2>5, <2>6, <2>7, <2>8, <2>9, ClientCases
<1>3. CASE ServerHandles
  BY <1>3, ServerMapped
<1>4. CASE ServerHandlesStray
  BY <1>4, StrayMapped
<1>5. CASE UNCHANGED vars
  BY <1>5, QuietMapped
<1> QED
  BY <1>2, <1>3, <1>4, <1>5 DEF Next

\* Every behaviour of the client and the server is one of the contract's: a
\* call is executed at most max_retries + 1 times, only while the loop or a
\* stray request can still cause it, and a value is returned only by an
\* executed call.
THEOREM CallsKeepContract == Safety => ImplementsContract
<1>1. Init => Contract!CCInit
  <2> SUFFICES ASSUME Init PROVE Contract!CCInit
    OBVIOUS
  <2>1. /\ cur = 0 /\ conn = "idle"
        /\ stray = [c \in Calls |-> 0] /\ executed = [c \in Calls |-> 0]
        /\ outcome = [c \in Calls |-> "none"]
    BY DEF Init
  <2>2. \A c \in Calls : ~(c <= cur)
    BY <2>1, ApiAssumption DEF Calls
  <2>3. \A c \in Calls : Fate(c) = "new" /\ Budget(c) = 0
    BY <2>1, <2>2 DEF Fate, Budget
  <2> QED
    BY <2>1, <2>3 DEF Contract!CCInit
<1>2. CallInv /\ CallInv' /\ [Next]_vars => [Contract!CCNext]_(Contract!ccvars)
  BY ContractStep
<1> QED
  BY <1>1, <1>2, CallInvariant, PTL DEF Safety, ImplementsContract, Contract!CCSpec

-----------------------------------------------------------------------------
\* Updates of a stored record (RecordUpdates).

\* What the request models and the merge make of a command line is what the
\* command line says: the fields it names, and no others.
LEMMA MergeSays ==
    ASSUME NEW o, DOMAIN o \subseteq OptionNames, NEW record, NEW f \in Fields
    PROVE  Merge(record, UpdateRequest(payload(o)))[f]
             = IF Names(o, f) THEN Says(o, f) ELSE record[f]
<1> DEFINE D == DOMAIN o
           p == payload(o)
           r == UpdateRequest(p)
           plain == D \ {"scaling_threshold", "shutdown_after_seconds", "clear_tags"}
<1>1. DOMAIN DefaultPolicy = {"scaling_threshold", "shutdown_after_seconds"}
  BY DEF DefaultPolicy
<1>2. DOMAIN lifecycle(o) = D \cap DOMAIN DefaultPolicy
  BY DEF lifecycle, Restrict
<1>3. DOMAIN p = (IF "clear_workload_alias" \in plain THEN plain \ {"workload_alias"} ELSE plain)
                 \cup {n \in {"tags"} : "clear_tags" \in D}
                 \cup {n \in {"lifecycle"} : D \cap DOMAIN DefaultPolicy # {}}
  BY <1>1, <1>2 DEF payload
<1>4. \A n \in DOMAIN p :
        p[n] = CASE n = "lifecycle" -> lifecycle(o)
                 [] n = "tags" /\ "clear_tags" \in D -> "none"
                 [] OTHER -> o[n]
  BY DEF payload
<1>5. DOMAIN r = DOMAIN p /\ \A n \in DOMAIN p : n # "lifecycle" => r[n] = p[n]
  BY DEF UpdateRequest
<1>6. "lifecycle" \in DOMAIN p =>
        r["lifecycle"] = [m \in Policies |-> IF m \in DOMAIN p["lifecycle"]
                                             THEN p["lifecycle"][m] ELSE DefaultPolicy[m]]
  BY DEF UpdateRequest, Policies
<1>7. /\ f \in DOMAIN r /\ ~(f = "workload_alias" /\ "clear_workload_alias" \in DOMAIN r)
           => Merge(record, r)[f] = r[f]
      /\ f \notin DOMAIN r /\ f = "workload_alias" /\ "clear_workload_alias" \in DOMAIN r
           => Merge(record, r)[f] = "none"
      /\ f \notin DOMAIN r /\ ~(f = "workload_alias" /\ "clear_workload_alias" \in DOMAIN r)
           => Merge(record, r)[f] = record[f]
  BY DEF Merge
<1>8. D \subseteq OptionNames
  OBVIOUS
<1> SUFFICES Merge(record, r)[f] = IF Names(o, f) THEN Says(o, f) ELSE record[f]
  OBVIOUS
<1> HIDE DEF D, p, r
<1>9. CASE f = "tags"
  <2>1. "tags" \in DOMAIN p <=> Names(o, "tags")
    BY <1>1, <1>3, <1>8 DEF Names, D, OptionNames
  <2>2. "tags" \in DOMAIN p => p["tags"] = Says(o, "tags")
    BY <1>4 DEF Says, D
  <2> QED
    BY <1>5, <1>7, <1>9, <2>1, <2>2
<1>10. CASE f = "workload_alias"
  <2>1. "clear_workload_alias" \in DOMAIN p <=> "clear_workload_alias" \in D
    BY <1>1, <1>3
  <2>2. "workload_alias" \in DOMAIN p <=> "workload_alias" \in D /\ "clear_workload_alias" \notin D
    BY <1>1, <1>3
  <2>3. "workload_alias" \in DOMAIN p => p["workload_alias"] = o["workload_alias"]
    BY <1>4
  <2> QED
    BY <1>5, <1>7, <1>10, <2>1, <2>2, <2>3 DEF Names, Says, D
<1>11. CASE f = "lifecycle"
  <2>1. "lifecycle" \in DOMAIN p <=> Names(o, "lifecycle")
    BY <1>1, <1>3, <1>8 DEF Names, D, OptionNames, Policies
  <2>2. "lifecycle" \in DOMAIN p => p["lifecycle"] = [m \in D \cap Policies |-> o[m]]
    BY <1>4 DEF lifecycle, Restrict, D, Policies
  <2>3. "lifecycle" \in DOMAIN p =>
          r["lifecycle"] = [m \in Policies |-> IF m \in D THEN o[m] ELSE DefaultPolicy[m]]
    BY <1>6, <2>2
  <2>4. Says(o, "lifecycle") = [m \in Policies |-> IF m \in D THEN o[m] ELSE DefaultPolicy[m]]
    BY DEF Says, D
  <2> QED
    BY <1>5, <1>7, <1>11, <2>1, <2>3, <2>4
<1>12. CASE f = "requested_instances"
  <2>1. "requested_instances" \in DOMAIN p <=> "requested_instances" \in D
    BY <1>1, <1>3
  <2>2. "requested_instances" \in DOMAIN p => p["requested_instances"] = o["requested_instances"]
    BY <1>4
  <2> QED
    BY <1>5, <1>7, <1>12, <2>1, <2>2 DEF Names, Says, D
<1> QED
  BY <1>9, <1>10, <1>11, <1>12 DEF Fields

-----------------------------------------------------------------------------
\* Calls made have their command line and later ones none; a request that was
\* left behind is noted; a value is of an executed call.
Given == /\ args \in [Calls -> Options \cup {<<>>}]
         /\ \A c \in Calls : IF c <= cur THEN args[c] \in Options ELSE args[c] = <<>>

LooseNoted == \A c \in Calls : stray[c] > 0 => c \in loose

ValueIsExecuted == \A c \in Calls : outcome[c] = "value" => executed[c] > 0

\* What LastWordStands says of acknowledged updates holds of executed ones.
NoLater(c, f) == \A d \in Calls : d > c => ~Names(args[d], f)
NoneLoose(c, f) == \A d \in loose : d < c => ~Names(args[d], f)

ExecutedStands == \A c \in Calls, f \in Fields :
    executed[c] > 0 /\ Names(args[c], f) /\ NoLater(c, f) /\ NoneLoose(c, f)
        => stored[f] = Says(args[c], f)

UpdInv == /\ CallInv /\ Given /\ LooseNoted /\ ValueIsExecuted /\ ExecutedStands /\ OthersKept
          /\ loose \subseteq Calls

LEMMA NoneNamesNothing == \A f \in Fields : ~Names(<<>>, f)
<1>1. DOMAIN <<>> = {}
  OBVIOUS
<1> QED
  BY <1>1 DEF Names

\* A step that executes nothing, and writes command lines only of calls that
\* had none, keeps what is said of the record.
LEMMA RecordKept ==
    ASSUME ExecutedStands, OthersKept, Given, loose \subseteq loose', loose \subseteq Calls,
           UNCHANGED <<stored, executed>>,
           \A c \in Calls : args'[c] = args[c] \/ (args[c] = <<>> /\ ~(executed[c] > 0))
    PROVE  ExecutedStands' /\ OthersKept'
<1>1. \A d \in Calls, f \in Fields : Names(args[d], f) => args'[d] = args[d]
  BY NoneNamesNothing
<1>2. ExecutedStands'
  <2> SUFFICES ASSUME NEW c \in Calls, NEW f \in Fields, executed[c] > 0,
                      Names(args'[c], f),
                      \A d \in Calls : d > c => ~Names(args'[d], f),
                      \A d \in loose' : d < c => ~Names(args'[d], f)
               PROVE  stored[f] = Says(args'[c], f)
    BY DEF ExecutedStands, NoLater, NoneLoose, Names, Says
  <2>1. args'[c] = args[c]
    OBVIOUS
  <2>2. NoLater(c, f) /\ NoneLoose(c, f)
    BY <1>1 DEF NoLater, NoneLoose
  <2> QED
    BY <2>1, <2>2 DEF ExecutedStands
<1>3. OthersKept'
  <2> SUFFICES ASSUME NEW f \in Fields
               PROVE  \/ stored[f] = InitialRecord[f]
                      \/ \E c \in Calls : Names(args'[c], f) /\ stored[f] = Says(args'[c], f)
    BY DEF OthersKept, Names, Says
  <2> QED
    BY <1>1 DEF OthersKept
<1> QED
  BY <1>2, <1>3

LEMMA UpdateStep ==
    ASSUME UpdInv, CallInv', Update
    PROVE  UpdInv'
<1>1. CallInv /\ Given /\ LooseNoted /\ ValueIsExecuted /\ ExecutedStands /\ OthersKept
      /\ loose \subseteq Calls
  BY DEF UpdInv
<1>2. TypeOK /\ Untouched
  BY <1>1 DEF CallInv
<1>3. PICK n \in Calls : n = cur + 1
  <2>1. cur \in 0..NCalls /\ cur < NCalls
    BY <1>2 DEF TypeOK, Update, StartCall
  <2> QED
    BY <2>1, ApiAssumption DEF Calls
<1>4. PICK o \in Options : args' = [args EXCEPT ![n] = o]
  BY <1>3 DEF Update, StartCall
<1>5. /\ UNCHANGED <<stored, executed, stray>> /\ cur' = n
      /\ outcome' = outcome \/ outcome' = [outcome EXCEPT ![n] = "raw"]
  BY <1>3 DEF Update, StartCall
<1>6. /\ ~(n <= cur) /\ n > cur
      /\ \A c \in Calls : c <= n <=> c <= cur \/ c = n
  <2>1. cur \in 0..NCalls
    BY <1>2 DEF TypeOK
  <2> QED
    BY <1>3, <2>1, CallsType
<1>7. args[n] = <<>> /\ executed[n] = 0
  BY <1>1, <1>2, <1>6 DEF Given, Untouched
<1>8. args'[n] = o /\ \A c \in Calls : c # n => args'[c] = args[c]
  BY <1>1, <1>4 DEF Given
<1>9. Given'
  BY <1>1, <1>4, <1>5, <1>6, <1>8 DEF Given
<1>10. loose' = loose \cup {c \in Calls : stray[c] > 0}
  BY <1>5 DEF Update, NoteLoose
<1>11. LooseNoted' /\ loose' \subseteq Calls
  BY <1>1, <1>5, <1>10 DEF LooseNoted
<1>12. ValueIsExecuted'
  <2>1. \A c \in Calls : outcome'[c] = outcome[c] \/ outcome'[c] = "raw"
    BY <1>2, <1>5 DEF TypeOK
  <2> QED
    BY <1>1, <1>5, <2>1 DEF ValueIsExecuted
<1>13. ~(executed[n] > 0)
  BY <1>7
<1>14. ExecutedStands' /\ OthersKept'
  BY <1>1, <1>5, <1>7, <1>8, <1>10, <1>13, RecordKept
<1> QED
  BY <1>9, <1>11, <1>12, <1>14 DEF UpdInv

LEMMA GoOnStep ==
    ASSUME UpdInv, CallInv', GoOn
    PROVE  UpdInv'
<1>1. CallInv /\ Given /\ LooseNoted /\ ValueIsExecuted /\ ExecutedStands /\ OthersKept
      /\ loose \subseteq Calls
  BY DEF UpdInv
<1>2. TypeOK /\ Connected
  BY <1>1 DEF CallInv
<1>3. Client /\ UNCHANGED <<cur, args, stored>>
  BY DEF GoOn
<1>4. \/ UNCHANGED <<executed, outcome>>
      \/ /\ executed' = executed /\ conn # "idle"
         /\ \E o, why : GivesUp(o, why) /\ (o = "value" => conn = "reading")
  <2>1. StartCall => FALSE
    <3>1. cur \in 0..NCalls
      BY <1>2 DEF TypeOK
    <3>2. StartCall => cur + 1 = cur
      BY <1>3 DEF StartCall
    <3>3. cur + 1 # cur
      BY <3>1
    <3> QED
      BY <3>2, <3>3
  <2>2. CASE SendRequest \/ Retry
    BY <2>2 DEF SendRequest, Retry
  <2>3. CASE UNCHANGED <<url, cur, attempt, answer, stray, executed, cause, outcome>>
    BY <2>3
  <2>4. ASSUME NEW o, NEW why, GivesUp(o, why), conn # "idle", o = "value" => conn = "reading"
        PROVE  /\ executed' = executed
               /\ \E p, q : GivesUp(p, q) /\ (p = "value" => conn = "reading")
    BY <2>4 DEF GivesUp
  <2> QED
    BY <1>3, <2>1, <2>2, <2>3, <2>4, ClientCases
<1>5. executed' = executed
  BY <1>4
<1>6. ValueIsExecuted'
  <2>1. CASE UNCHANGED outcome
    BY <1>1, <1>5, <2>1 DEF ValueIsExecuted
  <2>2. CASE conn # "idle" /\ \E o, why : GivesUp(o, why) /\ (o = "value" => conn = "reading")
    <3>1. PICK o, why : GivesUp(o, why) /\ (o = "value" => conn = "reading")
      BY <2>2
    <3>2. cur \in Calls
      BY <1>2, <2>2 DEF TypeOK
    <3>3. \A c \in Calls : outcome'[c] = outcome[c] \/ (c = cur /\ outcome'[c] = o)
      BY <1>2, <3>1 DEF GivesUp, TypeOK
    <3>4. o = "value" => executed[cur] > 0
      BY <1>2, <3>1 DEF Connected
    <3> QED
      BY <1>1, <1>5, <3>3, <3>4 DEF ValueIsExecuted
  <2> QED
    BY <1>4, <2>1, <2>2
<1>7. Given'
  BY <1>1, <1>3 DEF Given
<1>8. loose' = loose \cup {c \in Calls : stray'[c] > 0}
  BY DEF GoOn, NoteLoose
<1>9. LooseNoted' /\ loose' \subseteq Calls
  BY <1>1, <1>8 DEF LooseNoted
<1>10. ExecutedStands' /\ OthersKept'
  BY <1>1, <1>3, <1>5, <1>8, RecordKept
<1> QED
  BY <1>6, <1>7, <1>9, <1>10 DEF UpdInv

\* The server executes at most one request, of a call that was made: the
\* current one, or one whose request was left behind.
LEMMA ServerExecutes ==
    ASSUME CallInv, ServerHandles \/ ServerHandlesStray
    PROVE  /\ UNCHANGED <<cur, outcome>>
           /\ \E d \in Calls, n \in {0, 1} :
                 /\ executed' = [executed EXCEPT ![d] = executed[d] + n]
                 /\ d <= cur /\ (d = cur \/ stray[d] > 0)
           /\ \A c \in Calls : stray'[c] > 0 => stray[c] > 0
<1>1. TypeOK /\ Untouched /\ Connected
  BY DEF CallInv
<1>2. CASE ServerHandles
  <2>1. answer = "pending" /\ UNCHANGED <<cur, outcome, stray>>
    BY <1>2 DEF ServerHandles
  <2>2. cur \in Calls
    BY <1>1, <2>1 DEF Connected, TypeOK
  <2>3. \E n \in {0, 1} : executed' = [executed EXCEPT ![cur] = executed[cur] + n]
    BY <1>2 DEF ServerHandles, Handle
  <2>4. cur <= cur
    BY <2>2, CallsType
  <2> QED
    BY <2>1, <2>2, <2>3, <2>4
<1>3. CASE ServerHandlesStray
  <2>1. PICK d \in Calls :
          /\ stray[d] > 0
          /\ stray' = [stray EXCEPT ![d] = stray[d] - 1]
          /\ \E n \in {0, 1} : executed' = [executed EXCEPT ![d] = executed[d] + n]
    BY <1>3 DEF ServerHandlesStray
  <2>2. UNCHANGED <<cur, outcome>>
    BY <1>3 DEF ServerHandlesStray
  <2>3. d <= cur
    <3>1. ~(d > cur)
      BY <1>1, <2>1 DEF Untouched
    <3>2. cur \in 0..NCalls
      BY <1>1 DEF TypeOK
    <3> QED
      BY <3>1, <3>2, CallsType
  <2>4. \A c \in Calls : stray'[c] > 0 => stray[c] > 0
    BY <1>1, <2>1 DEF TypeOK
  <2> QED
    BY <2>1, <2>2, <2>3, <2>4
<1> QED
  BY <1>2, <1>3

LEMMA ExecuteStep ==
    ASSUME UpdInv, CallInv', Execute
    PROVE  UpdInv'
<1>1. CallInv /\ Given /\ LooseNoted /\ ValueIsExecuted /\ ExecutedStands /\ OthersKept
      /\ loose \subseteq Calls
  BY DEF UpdInv
<1>2. TypeOK /\ Untouched
  BY <1>1 DEF CallInv
<1>3. PICK d \in Calls, n \in {0, 1} :
        /\ executed' = [executed EXCEPT ![d] = executed[d] + n]
        /\ d <= cur /\ (d = cur \/ stray[d] > 0)
  BY <1>1, ServerExecutes DEF Execute
<1>4. UNCHANGED <<cur, outcome, args>> /\ \A c \in Calls : stray'[c] > 0 => stray[c] > 0
  BY <1>1, ServerExecutes DEF Execute
<1>5. loose' = loose
  BY <1>1, <1>4 DEF Execute, NoteLoose, LooseNoted
<1>6. Given' /\ LooseNoted' /\ loose' \subseteq Calls
  BY <1>1, <1>4, <1>5 DEF Given, LooseNoted
<1>7. /\ \A c \in Calls : c # d => executed'[c] = executed[c]
      /\ \A c \in Calls : executed[c] \in Nat
      /\ executed'[d] = executed[d] + n
  <2>1. executed \in [Calls -> Nat]
    BY <1>2 DEF TypeOK
  <2> QED
    BY <1>3, <2>1
<1>8. \A c \in Calls : executed[c] > 0 => executed'[c] > 0
  BY <1>7
<1>9. ValueIsExecuted'
  BY <1>1, <1>4, <1>8 DEF ValueIsExecuted
<1>10. CASE executed' = executed
  <2>1. stored' = stored
    BY <1>10 DEF Execute
  <2>2. ExecutedStands' /\ OthersKept'
    BY <1>1, <1>4, <1>5, <1>10, <2>1, RecordKept
  <2> QED
    BY <1>6, <1>9, <2>2 DEF UpdInv
<1>11. CASE executed' # executed
  <2>1. stored' = Merge(stored, UpdateRequest(payload(args[d])))
    BY <1>7, <1>11 DEF Execute
  <2>2. args[d] \in Options
    BY <1>1, <1>3 DEF Given
  <2>3. \A f \in Fields : stored'[f] = IF Names(args[d], f) THEN Says(args[d], f) ELSE stored[f]
    BY <2>1, <2>2, OptionsAssumption, MergeSays DEF OptionsAssumption
  <2>4. OthersKept'
    <3> SUFFICES ASSUME NEW f \in Fields
                 PROVE  \/ stored'[f] = InitialRecord[f]
                        \/ \E c \in Calls : Names(args[c], f) /\ stored'[f] = Says(args[c], f)
      BY <1>4 DEF OthersKept, Names, Says
    <3> QED
      BY <1>1, <2>3 DEF OthersKept
  <2>5. ExecutedStands'
    <3> SUFFICES ASSUME NEW c \in Calls, NEW f \in Fields, executed'[c] > 0,
                        Names(args[c], f), NoLater(c, f), NoneLoose(c, f)
                 PROVE  stored'[f] = Says(args[c], f)
      BY <1>4, <1>5 DEF ExecutedStands, NoLater, NoneLoose, Names, Says
    <3>1. CASE c = d
      BY <2>3, <3>1
    <3>2. CASE c # d
      <4>1. executed[c] > 0
        BY <1>7, <3>2
      <4>2. ~(c > cur)
        BY <1>2, <4>1 DEF Untouched
      <4>3. d > c \/ (d < c /\ stray[d] > 0)
        <5>1. cur \in 0..NCalls
          BY <1>2 DEF TypeOK
        <5> QED
          BY <1>3, <3>2, <4>2, <5>1, CallsType
      <4>4. ~Names(args[d], f)
        BY <1>1, <4>3 DEF NoLater, NoneLoose, LooseNoted
      <4>5. stored'[f] = stored[f]
        BY <2>3, <4>4
      <4> QED
        BY <1>1, <4>1, <4>5 DEF ExecutedStands
    <3> QED
      BY <3>1, <3>2
  <2> QED
    BY <1>6, <1>9, <2>4, <2>5 DEF UpdInv
<1> QED
  BY <1>10, <1>11

LEMMA UpdStep ==
    ASSUME UpdInv, [UpdNext]_updvars
    PROVE  UpdInv'
<1>1. [Next]_vars
  BY DEF UpdNext, Update, GoOn, Execute, Next, Client, updvars
<1>2. CallInv'
  BY <1>1, CallStep DEF UpdInv
<1>3. CASE UNCHANGED updvars
  <2>1. /\ Given' /\ LooseNoted' /\ ValueIsExecuted' /\ loose' \subseteq Calls
    BY <1>3 DEF UpdInv, updvars, vars, Given, LooseNoted, ValueIsExecuted
  <2>2. ExecutedStands' /\ OthersKept'
    BY <1>3, RecordKept DEF UpdInv, updvars, vars
  <2> QED
    BY <1>2, <2>1, <2>2 DEF UpdInv
<1> QED
  BY <1>2, <1>3, UpdateStep, GoOnStep, ExecuteStep DEF UpdNext

LEMMA UpdInitial == UpdInit => UpdInv
<1> SUFFICES ASSUME UpdInit PROVE UpdInv
  OBVIOUS
<1>1. /\ Init /\ args = [c \in Calls |-> <<>>] /\ stored = InitialRecord /\ loose = {}
  BY DEF UpdInit
<1>2. CallInv
  BY <1>1, CallInit
<1>3. /\ cur = 0 /\ stray = [c \in Calls |-> 0] /\ executed = [c \in Calls |-> 0]
      /\ outcome = [c \in Calls |-> "none"]
  BY <1>1 DEF Init
<1>4. Given
  <2>1. \A c \in Calls : ~(c <= cur)
    BY <1>3, ApiAssumption DEF Calls
  <2> QED
    BY <1>1, <2>1 DEF Given
<1>5. LooseNoted /\ ExecutedStands
  BY <1>3 DEF LooseNoted, ExecutedStands
<1>6. ValueIsExecuted /\ OthersKept /\ loose \subseteq Calls
  BY <1>1, <1>3 DEF ValueIsExecuted, OthersKept
<1> QED
  BY <1>2, <1>4, <1>5, <1>6 DEF UpdInv

\* UpdInv holds in every reachable state.
THEOREM UpdInvariant == UpdSpec => []UpdInv
  BY UpdInitial, UpdStep, PTL DEF UpdSpec

\* For any number of updates and any command lines: a field that no command
\* names keeps its value, and one that is named holds its old value or what
\* one command says, never a mixture.
THEOREM OthersAreKept == UpdSpec => []OthersKept
<1>1. UpdInv => OthersKept
  BY DEF UpdInv
<1> QED
  BY <1>1, UpdInvariant, PTL

\* The last acknowledged update of a field stands, however often it was sent
\* and executed, unless an earlier update of the field left a request behind.
THEOREM LastWordHolds == UpdSpec => []LastWordStands
<1>1. UpdInv => LastWordStands
  <2> SUFFICES ASSUME UpdInv, NEW c \in Calls, NEW f \in Fields,
                      outcome[c] = "value", Names(args[c], f),
                      \A d \in Calls : d > c => ~Names(args[d], f),
                      \A d \in loose : d < c => ~Names(args[d], f)
               PROVE  stored[f] = Says(args[c], f)
    BY DEF LastWordStands
  <2>1. executed[c] > 0
    BY DEF UpdInv, ValueIsExecuted
  <2> QED
    BY <2>1 DEF UpdInv, ExecutedStands, NoLater, NoneLoose
<1> QED
  BY <1>1, UpdInvariant, PTL

\* An update is a call: every behaviour of RecordUpdates is one of ApiCall, and
\* what is proved of calls holds of updates.
THEOREM UpdatesAreCalls ==
    UpdSpec => Safety /\ []ExecutionsBounded /\ AnswersAreDefinite /\ ImplementsContract
<1>1. UpdInit => Init
  BY DEF UpdInit
<1>2. [UpdNext]_updvars => [Next]_vars
  BY DEF UpdNext, Update, GoOn, Execute, Next, Client, updvars
<1>3. UpdSpec => Safety
  BY <1>1, <1>2, PTL DEF UpdSpec, Safety
<1> QED
  BY <1>3, ExecutionsAreBounded, AnswersCanBeTrusted, CallsKeepContract, PTL

=============================================================================
