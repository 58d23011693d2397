---------------------------- MODULE ClientProofs ----------------------------
(***************************************************************************)
(* Theorems about the loops of client.py: WaitLoops, for every timeout,    *)
(* interval and latency, and LogStream, for streams of any number of       *)
(* frames.                                                                 *)
(***************************************************************************)
EXTENDS WaitLoops, LogStream, TLAPS

-----------------------------------------------------------------------------
\* The wait loops.

\* Where the clock can be at each point of the loop.
Clock ==
    /\ now \in Nat
    /\ wait_pc \in {"ask", "answer", "sleep", "done"}
    /\ wait_pc = "sleep" => now <= timeout_seconds
    /\ wait_pc = "ask" => now <= timeout_seconds + poll_interval_seconds + Jitter
    /\ wait_pc = "answer" => now <= timeout_seconds + poll_interval_seconds + Jitter + Latency
    /\ EndsOnTime

\* settled tells which targets are in a state to return on, and a target that
\* the answer under way shows otherwise was not in one when it was given.
Watched ==
    /\ mine \subseteq Targets /\ DOMAIN state = Targets
    /\ settled \in [Targets -> Nat \cup {Never}]
    /\ \A t \in Targets : state[t] \notin ReturnStates(kind) => settled[t] = Never
    /\ wait_pc = "answer" => \A t \in mine :
          listing[t] \notin ReturnStates(kind) => settled[t] = Never \/ settled[t] >= now
    /\ outcome = "none" \/ wait_pc = "done"
    /\ NothingOverlooked

WaitInv == Clock /\ Watched

LEMMA WaitStart == WaitInit => WaitInv
<1> SUFFICES ASSUME WaitInit PROVE WaitInv
  OBVIOUS
<1>1. /\ now = 0 /\ wait_pc = "ask" /\ outcome = "none" /\ mine \subseteq Targets
      /\ DOMAIN state = Targets
      /\ settled = [t \in Targets |-> IF state[t] \in ReturnStates(kind) THEN 0 ELSE Never]
  BY DEF WaitInit
<1>2. Clock
  BY <1>1, WaitAssumption DEF Clock, EndsOnTime
<1>3. Watched
  BY <1>1 DEF Watched, NothingOverlooked
<1> QED
  BY <1>2, <1>3 DEF WaitInv

\* Bounds of the constants, and of a delay.
LEMMA Bounds ==
    /\ timeout_seconds \in Nat /\ Latency \in Nat /\ Jitter \in Nat
    /\ poll_interval_seconds \in Nat
    /\ \A d \in 0..Latency : d \in Nat /\ d <= Latency
    /\ \A d \in 0..Jitter : d \in Nat /\ d <= Jitter
BY WaitAssumption

LEMMA AskStep ==
    ASSUME WaitInv, Ask
    PROVE  WaitInv'
<1>1. /\ wait_pc = "ask" /\ wait_pc' = "answer" /\ listing' = state
      /\ UNCHANGED <<kind, mine, state, outcome, returned, settled>>
  BY DEF Ask
<1>2. PICK d \in 0..Latency : now' = now + d
  BY DEF Ask
<1>3. Clock /\ Watched
  BY DEF WaitInv
<1>4. now \in Nat /\ now <= timeout_seconds + poll_interval_seconds + Jitter
      /\ d \in Nat /\ d <= Latency
  BY <1>1, <1>3, Bounds DEF Clock
<1>5. Clock'
  BY <1>1, <1>2, <1>4, Bounds DEF Clock, EndsOnTime
<1>6. Watched'
  BY <1>1, <1>3 DEF Watched, NothingOverlooked
<1> QED
  BY <1>5, <1>6 DEF WaitInv

LEMMA CallFailsStep ==
    ASSUME WaitInv, CallFails
    PROVE  WaitInv'
<1>1. /\ wait_pc \in {"ask", "answer"} /\ wait_pc' = "done" /\ outcome' = "error"
      /\ UNCHANGED <<kind, mine, state, listing, returned, settled>>
  BY DEF CallFails
<1>2. PICK d \in 0..Latency : now' = now + d
  BY DEF CallFails
<1>3. Clock /\ Watched
  BY DEF WaitInv
<1>4. now \in Nat /\ now <= timeout_seconds + poll_interval_seconds + Jitter + Latency
      /\ d \in Nat /\ d <= Latency
  BY <1>1, <1>3, Bounds DEF Clock
<1>5. Clock'
  BY <1>1, <1>2, <1>4, Bounds DEF Clock, EndsOnTime
<1>6. Watched'
  BY <1>1, <1>3 DEF Watched, NothingOverlooked
<1> QED
  BY <1>5, <1>6 DEF WaitInv

LEMMA AnswerStep ==
    ASSUME WaitInv, Answer
    PROVE  WaitInv'
<1>1. wait_pc = "answer" /\ UNCHANGED <<kind, mine, state, listing, settled>>
  BY DEF Answer
<1>2. PICK d \in 0..Latency : now' = now + d /\ Decide(now + d)
  BY DEF Answer
<1>3. Clock /\ Watched
  BY DEF WaitInv
<1>4. /\ now \in Nat /\ now <= timeout_seconds + poll_interval_seconds + Jitter + Latency
      /\ d \in Nat /\ d <= Latency
  BY <1>1, <1>3, Bounds DEF Clock
<1>5. now' \in Nat /\ now' <= timeout_seconds + poll_interval_seconds + Jitter + 2 * Latency
  BY <1>2, <1>4, Bounds
<1>6. CASE Found # {}
  <2>1. wait_pc' = "done" /\ outcome' \in ReturnStates(kind)
    BY <1>2, <1>6 DEF Decide, Found
  <2>2. outcome' # "timeout"
    BY <2>1 DEF ReturnStates
  <2>3. Clock'
    BY <1>5, <2>1 DEF Clock, EndsOnTime
  <2>4. Watched'
    BY <1>1, <1>3, <2>1, <2>2 DEF Watched, NothingOverlooked
  <2> QED
    BY <2>3, <2>4 DEF WaitInv
<1>7. CASE Found = {} /\ now + d > timeout_seconds
  <2>1. wait_pc' = "done" /\ outcome' = "timeout"
    BY <1>2, <1>7 DEF Decide
  <2>2. Clock'
    BY <1>5, <2>1 DEF Clock, EndsOnTime
  <2>3. ASSUME NEW t \in mine
        PROVE  settled[t] = Never \/ settled[t] > timeout_seconds - Latency
    <3>1. settled[t] = Never \/ settled[t] >= now
      BY <1>1, <1>3, <1>7 DEF Watched, Found
    <3>2. settled[t] \in Nat \cup {Never}
      BY <1>3 DEF Watched
    <3>3. now > timeout_seconds - Latency
      BY <1>4, <1>7, Bounds
    <3>4. CASE settled[t] \in Nat /\ settled[t] >= now
      BY <1>4, <3>3, <3>4, Bounds
    <3> QED
      BY <3>1, <3>2, <3>4
  <2>4. Watched'
    BY <1>1, <1>3, <2>1, <2>3 DEF Watched, NothingOverlooked
  <2> QED
    BY <2>2, <2>4 DEF WaitInv
<1>8. CASE Found = {} /\ ~(now + d > timeout_seconds)
  <2>1. wait_pc' = "sleep" /\ outcome' = outcome
    BY <1>2, <1>8 DEF Decide
  <2>2. now' <= timeout_seconds
    BY <1>2, <1>4, <1>8, Bounds
  <2>3. Clock'
    BY <1>5, <2>1, <2>2 DEF Clock, EndsOnTime
  <2>4. outcome = "none"
    BY <1>1, <1>3 DEF Watched
  <2>5. Watched'
    BY <1>1, <1>3, <2>1, <2>4 DEF Watched, NothingOverlooked
  <2> QED
    BY <2>3, <2>5 DEF WaitInv
<1> QED
  BY <1>6, <1>7, <1>8

LEMMA SleepStep ==
    ASSUME WaitInv, Sleep
    PROVE  WaitInv'
<1>1. /\ wait_pc = "sleep" /\ wait_pc' = "ask"
      /\ UNCHANGED <<kind, mine, state, listing, outcome, returned, settled>>
  BY DEF Sleep
<1>2. PICK d \in 0..Jitter : now' = now + poll_interval_seconds + d
  BY DEF Sleep
<1>3. Clock /\ Watched
  BY DEF WaitInv
<1>4. now \in Nat /\ now <= timeout_seconds /\ d \in Nat /\ d <= Jitter
  BY <1>1, <1>3, Bounds DEF Clock
<1>5. Clock'
  BY <1>1, <1>2, <1>4, Bounds DEF Clock, EndsOnTime
<1>6. Watched'
  BY <1>1, <1>3 DEF Watched, NothingOverlooked
<1> QED
  BY <1>5, <1>6 DEF WaitInv

LEMMA PlatformStep ==
    ASSUME WaitInv, PlatformMoves
    PROVE  WaitInv'
<1>1. /\ outcome = "none"
      /\ UNCHANGED <<kind, mine, now, wait_pc, listing, outcome, returned>>
  BY DEF PlatformMoves
<1>2. PICK t \in Targets, s \in UNION {Moves(kind, state[u]) : u \in Targets} :
        /\ state' = [state EXCEPT ![t] = s]
        /\ settled' = [settled EXCEPT ![t] = IF s \notin ReturnStates(kind) THEN Never
                                             ELSE IF settled[t] = Never THEN now
                                             ELSE settled[t]]
  BY DEF PlatformMoves
<1>3. Clock /\ Watched
  BY DEF WaitInv
<1>4. now \in Nat /\ settled \in [Targets -> Nat \cup {Never}]
  BY <1>3 DEF Clock, Watched
<1>5. Clock'
  BY <1>1, <1>3 DEF Clock, EndsOnTime
<1>6. /\ \A u \in Targets : u # t => settled'[u] = settled[u]
      /\ settled'[t] = IF s \notin ReturnStates(kind) THEN Never
                       ELSE IF settled[t] = Never THEN now ELSE settled[t]
      /\ settled' \in [Targets -> Nat \cup {Never}]
  BY <1>2, <1>4
<1>7. \A u \in Targets : u # t => settled'[u] = settled[u]
                                  /\ (state'[u] \notin ReturnStates(kind) => settled'[u] = Never)
  BY <1>2, <1>3, <1>6 DEF Watched
<1>8. state'[t] \notin ReturnStates(kind) => settled'[t] = Never
  <2>1. t \in DOMAIN state
    BY <1>3 DEF Watched
  <2> QED
    BY <1>2, <1>6, <2>1
<1>9. ASSUME wait_pc = "answer", NEW u \in mine, listing[u] \notin ReturnStates(kind)
      PROVE  settled'[u] = Never \/ settled'[u] >= now
  BY <1>3, <1>4, <1>6, <1>9 DEF Watched
<1>10. DOMAIN state' = Targets
  BY <1>2, <1>3 DEF Watched
<1>11. Watched'
  BY <1>1, <1>3, <1>6, <1>7, <1>8, <1>9, <1>10 DEF Watched, NothingOverlooked
<1> QED
  BY <1>5, <1>11 DEF WaitInv

LEMMA WaitStep == WaitInv /\ [WaitNext]_wait_vars => WaitInv'
<1> SUFFICES ASSUME WaitInv, [WaitNext]_wait_vars PROVE WaitInv'
  OBVIOUS
<1>1. CASE UNCHANGED wait_vars
  BY <1>1 DEF wait_vars, WaitInv, Clock, Watched, EndsOnTime, NothingOverlooked
<1> QED
  BY <1>1, AskStep, CallFailsStep, AnswerStep, SleepStep, PlatformStep DEF WaitNext, Loop

\* WaitInv holds in every reachable state.
THEOREM WaitInvariant == WaitSpec => []WaitInv
<1>1. Safety => []WaitInv
  BY WaitStart, WaitStep, PTL DEF Safety
<1>2. WaitSpec => Safety
  BY PTL DEF WaitSpec
<1> QED
  BY <1>1, <1>2, PTL

\* Whatever the timeout and the interval, a loop that gives up overlooked
\* nothing that had happened a request's way before the deadline.
THEOREM GivesUpRightly == WaitSpec => []NothingOverlooked
<1>1. WaitInv => NothingOverlooked
  BY DEF WaitInv, Watched
<1> QED
  BY <1>1, WaitInvariant, PTL

\* And no loop runs longer than one poll past the deadline.
THEOREM EndsInTime == WaitSpec => []EndsOnTime
<1>1. WaitInv => EndsOnTime
  BY DEF WaitInv, Clock
<1> QED
  BY <1>1, WaitInvariant, PTL

\* A target only ever moves to a state of its kind.
LEMMA MovesStay ==
    ASSUME NEW k \in Kinds, NEW s \in States(k), NEW r \in Moves(k, s)
    PROVE  r \in States(k)
<1>1. CASE s = "absent"
  BY <1>1 DEF Moves, States, Kinds
<1>2. CASE s = "running"
  BY <1>2 DEF Moves, States, ReturnStates, Kinds
<1>3. CASE s = "starting"
  BY <1>3 DEF Moves, States, ReturnStates, Kinds
<1>4. CASE s = "ready"
  BY <1>4 DEF Moves, States, ReturnStates, Kinds
<1>5. CASE s = "suspended"
  BY <1>5 DEF Moves, States, ReturnStates, Kinds
<1>6. CASE s \notin {"absent", "running", "starting", "ready", "suspended"}
  BY <1>6 DEF Moves
<1> QED
  BY <1>1, <1>2, <1>3, <1>4, <1>5, <1>6

LEMMA TypeInit == WaitInit => TypeOK
<1> SUFFICES ASSUME WaitInit PROVE TypeOK
  OBVIOUS
<1>1. /\ kind \in Kinds /\ mine \in SUBSET Targets /\ state \in [Targets -> States(kind)]
      /\ now = 0 /\ wait_pc = "ask" /\ listing = state /\ outcome = "none" /\ returned = 0
      /\ settled = [t \in Targets |-> IF state[t] \in ReturnStates(kind) THEN 0 ELSE Never]
  BY DEF WaitInit
<1>2. settled \in [Targets -> Nat \cup {Never}]
  BY <1>1
<1> QED
  BY <1>1, <1>2 DEF TypeOK

LEMMA TypeStep == TypeOK /\ [WaitNext]_wait_vars => TypeOK'
<1> SUFFICES ASSUME TypeOK, [WaitNext]_wait_vars PROVE TypeOK'
  OBVIOUS
<1>1. ASSUME Ask PROVE TypeOK'
  BY <1>1, Bounds DEF Ask, TypeOK
<1>2. ASSUME CallFails PROVE TypeOK'
  BY <1>2, Bounds DEF CallFails, TypeOK
<1>3. ASSUME Answer PROVE TypeOK'
  <2>1. PICK d \in 0..Latency : now' = now + d /\ Decide(now + d)
    BY <1>3 DEF Answer
  <2>2. /\ wait_pc = "answer" /\ UNCHANGED <<kind, mine, state, listing, settled>>
        /\ now' \in Nat /\ outcome = "none"
    BY <1>3, <2>1, Bounds DEF Answer, TypeOK
  <2>3. CASE Found # {}
    <3>1. PICK f \in Found : wait_pc' = "done" /\ outcome' = listing[f] /\ returned' = f
      BY <2>1, <2>3 DEF Decide
    <3>2. f \in mine /\ listing[f] \in ReturnStates(kind)
      BY <3>1 DEF Found
    <3>3. outcome' # "none"
      BY <3>1, <3>2 DEF ReturnStates
    <3> QED
      BY <2>2, <3>1, <3>2, <3>3 DEF TypeOK
  <2>4. CASE Found = {}
    BY <2>1, <2>2, <2>4 DEF Decide, TypeOK
  <2> QED
    BY <2>3, <2>4
<1>4. ASSUME Sleep PROVE TypeOK'
  BY <1>4, Bounds DEF Sleep, TypeOK
<1>5. ASSUME PlatformMoves PROVE TypeOK'
  <2>1. PICK t \in Targets : \E s \in Moves(kind, state[t]) :
            /\ state' = [state EXCEPT ![t] = s]
            /\ settled' = [settled EXCEPT ![t] = IF s \notin ReturnStates(kind) THEN Never
                                                 ELSE IF @ = Never THEN now ELSE @]
    BY <1>5 DEF PlatformMoves
  <2>2. PICK s \in Moves(kind, state[t]) :
            /\ state' = [state EXCEPT ![t] = s]
            /\ settled' = [settled EXCEPT ![t] = IF s \notin ReturnStates(kind) THEN Never
                                                 ELSE IF @ = Never THEN now ELSE @]
    BY <2>1
  <2>3. s \in States(kind)
    BY <2>2, MovesStay DEF TypeOK
  <2>4. settled' \in [Targets -> Nat \cup {Never}]
    BY <2>2 DEF TypeOK
  <2>5. UNCHANGED <<kind, mine, now, wait_pc, listing, outcome, returned>>
    BY <1>5 DEF PlatformMoves
  <2> QED
    BY <2>2, <2>3, <2>4, <2>5 DEF TypeOK
<1>6. ASSUME UNCHANGED wait_vars PROVE TypeOK'
  BY <1>6 DEF wait_vars, TypeOK
<1> QED
  BY <1>1, <1>2, <1>3, <1>4, <1>5, <1>6 DEF WaitNext, Loop

\* The loop is over exactly when it has an outcome, and it returns a target it
\* was asked about, in a state of its kind.
THEOREM WaitTypeCorrect == WaitSpec => []TypeOK
<1>1. Safety => []TypeOK
  BY TypeInit, TypeStep, PTL DEF Safety
<1>2. WaitSpec => Safety
  BY PTL DEF WaitSpec
<1> QED
  BY <1>1, <1>2, PTL

-----------------------------------------------------------------------------
\* The inductive invariant.

Names == {None, "", "log", "end"} \cup Data
Entry == [event : Names, data : {"", "log", "end"} \cup Data,
          whole : BOOLEAN, frame : Nat, terminal : BOOLEAN]

\* Data that tells how the work ended, and lines that do or that announce it.
Final(d) == d \in Ended
IsData(l) == l.field = "data"
Blank(l) == l.field = ""
Comment(l) == l.field = "other"
Announces(l, name) == l.field = "event" /\ l.text = name
TellsEnd(l) == IsData(l) /\ Final(l.text)
NamesEnd(l) == l.field = "event" /\ l.text = "end"
EndFrame(f) == f.event = "end" \/ Final(f.data)

Going == build = "running"
AtEnd == event = "end"

\* Everything that there will ever be has been sent.
Over == ~Going /\ sent = Len(frames)

Typed ==
    /\ reader \in Readers
    /\ frames \in Seq(Frame) /\ sent \in 0 .. Len(frames)
    /\ wire \in Seq(Line) /\ yielded \in Seq(Entry) /\ event \in Names

\* Only the last frame tells the end, and it does when the work has ended.
LastFrame ==
    /\ \A i \in DOMAIN frames : EndFrame(frames[i]) => ~Going /\ i = Len(frames)
    /\ ~Going => Len(frames) > 0 /\ Final(frames[Len(frames)].data)

NoDataAfter(k) == \A j \in DOMAIN wire : j > k => ~IsData(wire[j])
OnlyFinalAfter(k) == \A j \in DOMAIN wire : j > k /\ IsData(wire[j]) => Final(wire[j].text)

\* The line that tells the end is the last one with data; the name "end" is
\* followed by no other data.
EndOfWire ==
    /\ \A k \in DOMAIN wire : /\ TellsEnd(wire[k]) => Over /\ NoDataAfter(k)
                              /\ NamesEnd(wire[k]) => Over /\ OnlyFinalAfter(k)
    /\ AtEnd => Over /\ OnlyFinalAfter(0)

EndOfLog ==
    \A i \in DOMAIN yielded : yielded[i].terminal => Over /\ i = Len(yielded) /\ NoDataAfter(0)

\* What was sent is there unless the connection was cut: the end is on its way,
\* or has been told.
Told ==
    ~cut => /\ \A k \in DOMAIN wire : wire[k].whole
            /\ reader = "entries" /\ Over /\ pc # "raised" =>
                  \/ \E k \in DOMAIN wire : TellsEnd(wire[k])
                  \/ Len(yielded) > 0 /\ yielded[Len(yielded)].terminal

Closed ==
    /\ conn = "eof" /\ ~cut /\ follow => Over
    /\ pc = "done" => conn = "eof" /\ Len(wire) = 0

LogInv == Typed /\ LastFrame /\ EndOfWire /\ EndOfLog /\ Told /\ Closed

-----------------------------------------------------------------------------
\* Sequences.

LEMMA Appended ==
    ASSUME NEW S, NEW s \in Seq(S), NEW x \in S
    PROVE  /\ Append(s, x) \in Seq(S) /\ Len(Append(s, x)) = Len(s) + 1
           /\ DOMAIN Append(s, x) = 1 .. Len(s) + 1 /\ DOMAIN s = 1 .. Len(s)
           /\ Len(s) \in Nat
           /\ \A i \in DOMAIN s : Append(s, x)[i] = s[i]
           /\ Append(s, x)[Len(s) + 1] = x
  OBVIOUS

LEMMA WithoutHead ==
    ASSUME NEW S, NEW s \in Seq(S), s # <<>>
    PROVE  /\ Tail(s) \in Seq(S) /\ Head(s) = s[1] /\ Head(s) \in S
           /\ Len(s) \in Nat /\ Len(s) > 0 /\ DOMAIN s = 1 .. Len(s)
           /\ Len(Tail(s)) = Len(s) - 1 /\ DOMAIN Tail(s) = 1 .. Len(s) - 1
           /\ \A j \in DOMAIN Tail(s) : j + 1 \in DOMAIN s /\ Tail(s)[j] = s[j + 1]
  OBVIOUS

LEMMA Joined ==
    ASSUME NEW S, NEW s \in Seq(S), NEW t \in Seq(S)
    PROVE  /\ s \o t \in Seq(S) /\ Len(s) \in Nat /\ Len(t) \in Nat
           /\ DOMAIN s = 1 .. Len(s) /\ DOMAIN t = 1 .. Len(t)
           /\ DOMAIN (s \o t) = 1 .. Len(s) + Len(t)
           /\ \A k \in DOMAIN s : (s \o t)[k] = s[k]
           /\ \A k \in DOMAIN t : (s \o t)[Len(s) + k] = t[k]
  OBVIOUS

LEMMA Cutting ==
    ASSUME NEW S, NEW s \in Seq(S), NEW n \in 0 .. Len(s)
    PROVE  /\ SubSeq(s, 1, n) \in Seq(S) /\ Len(SubSeq(s, 1, n)) = n
           /\ DOMAIN SubSeq(s, 1, n) = 1 .. n /\ DOMAIN s = 1 .. Len(s)
           /\ \A k \in 1 .. n : SubSeq(s, 1, n)[k] = s[k]
  OBVIOUS

LEMMA ThreeLines ==
    ASSUME NEW S, NEW a \in S, NEW b \in S, NEW c \in S
    PROVE  /\ <<>> \o <<b, c>> \in Seq(S) /\ Len(<<>> \o <<b, c>>) = 2
           /\ (<<>> \o <<b, c>>)[1] = b /\ (<<>> \o <<b, c>>)[2] = c
           /\ <<a>> \o <<b, c>> \in Seq(S) /\ Len(<<a>> \o <<b, c>>) = 3
           /\ (<<a>> \o <<b, c>>)[1] = a /\ (<<a>> \o <<b, c>>)[2] = b
           /\ (<<a>> \o <<b, c>>)[3] = c
<1>1. <<a>> \in Seq(S) /\ <<b, c>> \in Seq(S) /\ Len(<<a>>) = 1 /\ Len(<<b, c>>) = 2
  OBVIOUS
<1>2. <<>> \o <<b, c>> = <<b, c>>
  BY <1>1
<1>3. /\ <<a>> \o <<b, c>> \in Seq(S)
      /\ Len(<<a>> \o <<b, c>>) = 3
  BY <1>1
<1>4. (<<a>> \o <<b, c>>)[1] = a /\ (<<a>> \o <<b, c>>)[2] = b /\ (<<a>> \o <<b, c>>)[3] = c
  BY <1>1
<1> QED
  BY <1>1, <1>2, <1>3, <1>4

\* The lines of a frame.
LEMMA LineOfFrame ==
    ASSUME NEW f \in Frame, NEW n \in Nat
    PROVE  /\ LinesOf(f, n) \in Seq(Line)
           /\ Len(LinesOf(f, n)) = IF f.event = None THEN 2 ELSE 3
           /\ DOMAIN LinesOf(f, n) = 1 .. Len(LinesOf(f, n))
           /\ \A k \in DOMAIN LinesOf(f, n) :
                 /\ LinesOf(f, n)[k].whole /\ LinesOf(f, n)[k].frame = n
                 /\ IsData(LinesOf(f, n)[k]) <=> k = Len(LinesOf(f, n)) - 1
                 /\ NamesEnd(LinesOf(f, n)[k]) => EndFrame(f)
           /\ LinesOf(f, n)[Len(LinesOf(f, n)) - 1].text = f.data
           /\ Blank(LinesOf(f, n)[Len(LinesOf(f, n))])
           /\ f.event # None => Announces(LinesOf(f, n)[1], f.event)
<1> DEFINE a == L("event", f.event, n)
           b == L("data", f.data, n)
           c == L("", "", n)
<1>1. f.event \in {None, "log", "end"} /\ f.data \in Data
  BY DEF Frame
<1>2. b \in Line /\ c \in Line
  BY <1>1 DEF L, Line
<1>3. f.event # None => a \in Line
  BY <1>1 DEF L, Line
<1>4. /\ IsData(b) /\ ~NamesEnd(b) /\ b.whole /\ b.frame = n /\ b.text = f.data
      /\ ~IsData(c) /\ ~NamesEnd(c) /\ c.whole /\ c.frame = n /\ Blank(c)
      /\ ~IsData(a) /\ a.whole /\ a.frame = n /\ Announces(a, f.event)
      /\ NamesEnd(a) => EndFrame(f)
  BY DEF L, IsData, NamesEnd, EndFrame, Blank, Announces
<1> DEFINE ls == LinesOf(f, n)
<1>5. ls = (IF f.event = None THEN <<>> ELSE <<a>>) \o <<b, c>>
  BY DEF LinesOf
<1> SUFFICES /\ ls \in Seq(Line) /\ Len(ls) = (IF f.event = None THEN 2 ELSE 3)
             /\ DOMAIN ls = 1 .. Len(ls)
             /\ \A k \in DOMAIN ls : /\ ls[k].whole /\ ls[k].frame = n
                                     /\ IsData(ls[k]) <=> k = Len(ls) - 1
                                     /\ NamesEnd(ls[k]) => EndFrame(f)
             /\ ls[Len(ls) - 1].text = f.data /\ Blank(ls[Len(ls)])
             /\ f.event # None => Announces(ls[1], f.event)
  OBVIOUS
<1> HIDE DEF a, b, c, ls
<1>6. CASE f.event = None
  <2>1. ls \in Seq(Line) /\ Len(ls) = 2 /\ ls[1] = b /\ ls[2] = c
    BY <1>2, <1>5, <1>6, ThreeLines
  <2>2. DOMAIN ls = 1 .. 2 /\ \A k \in 1 .. 2 : k = 1 \/ k = 2
    BY <2>1
  <2> QED
    BY <1>4, <1>6, <2>1, <2>2
<1>7. CASE f.event # None
  <2>1. ls = <<a>> \o <<b, c>>
    BY <1>5, <1>7
  <2>2. ls \in Seq(Line) /\ Len(ls) = 3 /\ ls[1] = a /\ ls[2] = b /\ ls[3] = c
    BY <1>2, <1>3, <1>7, <2>1, ThreeLines
  <2>3. DOMAIN ls = 1 .. 3 /\ \A k \in 1 .. 3 : k = 1 \/ k = 2 \/ k = 3
    BY <2>2
  <2> QED
    BY <1>4, <1>7, <2>2, <2>3
<1> QED
  BY <1>6, <1>7

-----------------------------------------------------------------------------
\* Steps of the platform.

\* Before everything has been sent, nothing on its way or delivered is final.
LEMMA NotYet ==
    ASSUME LogInv, ~Over
    PROVE  /\ \A k \in DOMAIN wire : ~TellsEnd(wire[k]) /\ ~NamesEnd(wire[k])
           /\ ~AtEnd /\ \A i \in DOMAIN yielded : ~yielded[i].terminal
           /\ ~(conn = "eof" /\ ~cut /\ follow)
  BY DEF LogInv, EndOfWire, EndOfLog, Closed

LEMMA LogStep ==
    ASSUME LogInv, Log
    PROVE  LogInv'
<1>1. Typed /\ LastFrame /\ Told /\ Closed
  BY DEF LogInv
<1>2. /\ Going /\ Going'
      /\ UNCHANGED <<fixed, build, sent, wire, conn, cut, event, yielded, pc>>
  BY DEF Log, Going
<1>3. PICK f \in Frame : frames' = Append(frames, f) /\ ~EndFrame(f)
  <2>1. PICK e \in {None, "log"}, d \in {"message", "running", ""} :
          frames' = Append(frames, [event |-> e, data |-> d])
    BY DEF Log
  <2>2. [event |-> e, data |-> d] \in Frame
    BY DEF Frame, Data
  <2>3. ~EndFrame([event |-> e, data |-> d])
    BY DEF EndFrame, Final, Ended, None
  <2> QED
    BY <2>1, <2>2, <2>3
<1>4. frames \in Seq(Frame)
  BY <1>1 DEF Typed
<1>5. /\ frames' \in Seq(Frame) /\ Len(frames') = Len(frames) + 1 /\ Len(frames) \in Nat
      /\ DOMAIN frames' = 1 .. Len(frames) + 1 /\ DOMAIN frames = 1 .. Len(frames)
      /\ \A i \in DOMAIN frames : frames'[i] = frames[i]
      /\ frames'[Len(frames) + 1] = f
  BY <1>3, <1>4, Appended
<1>6. Typed'
  BY <1>1, <1>2, <1>5 DEF Typed, fixed
<1>7. LastFrame'
  BY <1>1, <1>2, <1>3, <1>5 DEF LastFrame
<1>8. ~Over /\ ~Over'
  BY <1>2 DEF Over
<1>9. EndOfWire' /\ EndOfLog'
  BY <1>2, <1>8, NotYet DEF EndOfWire, EndOfLog, AtEnd
<1>10. Told' /\ Closed'
  BY <1>1, <1>2, <1>8, NotYet DEF Told, Closed, fixed
<1> QED
  BY <1>6, <1>7, <1>9, <1>10 DEF LogInv

LEMMA FinishStep ==
    ASSUME LogInv, Finish
    PROVE  LogInv'
<1>1. Typed /\ LastFrame /\ Told /\ Closed
  BY DEF LogInv
<1>2. /\ Going /\ ~Going' /\ build' \in Ended
      /\ UNCHANGED <<fixed, sent, wire, conn, cut, event, yielded, pc>>
  BY DEF Finish, Going, Ended
<1>3. PICK f \in Frame : frames' = Append(frames, f) /\ Final(f.data)
  <2>1. PICK e \in {None, "end"} : frames' = Append(frames, [event |-> e, data |-> build'])
    BY DEF Finish
  <2>2. [event |-> e, data |-> build'] \in Frame
    BY <1>2 DEF Frame, Data
  <2> QED
    BY <1>2, <2>1, <2>2 DEF Final
<1>4. frames \in Seq(Frame)
  BY <1>1 DEF Typed
<1>5. /\ frames' \in Seq(Frame) /\ Len(frames') = Len(frames) + 1 /\ Len(frames) \in Nat
      /\ DOMAIN frames' = 1 .. Len(frames) + 1 /\ DOMAIN frames = 1 .. Len(frames)
      /\ \A i \in DOMAIN frames : frames'[i] = frames[i]
      /\ frames'[Len(frames) + 1] = f
  BY <1>3, <1>4, Appended
<1>6. Typed'
  BY <1>1, <1>2, <1>5 DEF Typed, fixed
<1>7. LastFrame'
  BY <1>1, <1>2, <1>3, <1>5 DEF LastFrame
<1>8. ~Over /\ ~Over'
  <2>1. sent' = sent /\ sent <= Len(frames) /\ sent \in Nat
    BY <1>1, <1>2, <1>5 DEF Typed
  <2> QED
    BY <1>2, <1>5, <2>1 DEF Over
<1>9. EndOfWire' /\ EndOfLog'
  BY <1>2, <1>8, NotYet DEF EndOfWire, EndOfLog, AtEnd
<1>10. Told' /\ Closed'
  BY <1>1, <1>2, <1>8, NotYet DEF Told, Closed, fixed
<1> QED
  BY <1>6, <1>7, <1>9, <1>10 DEF LogInv

\* What is on the wire after a frame was sent.
LEMMA SendFacts ==
    ASSUME Typed, SendFrame
    PROVE  LET f == frames[sent + 1]
               n == Len(wire)
               d == n + (IF f.event = None THEN 1 ELSE 2)
           IN /\ sent + 1 \in DOMAIN frames /\ f \in Frame
              /\ n \in Nat /\ d \in Nat /\ DOMAIN wire = 1 .. n
              /\ wire' \in Seq(Line) /\ DOMAIN wire' = 1 .. d + 1 /\ Len(wire') = d + 1
              /\ \A k \in DOMAIN wire : wire'[k] = wire[k]
              /\ \A k \in n + 1 .. d + 1 :
                    /\ wire'[k].whole /\ wire'[k].frame = sent + 1
                    /\ IsData(wire'[k]) <=> k = d
                    /\ NamesEnd(wire'[k]) => EndFrame(f)
              /\ wire'[d].text = f.data /\ Blank(wire'[d + 1])
              /\ f.event # None => Announces(wire'[d - 1], f.event)
<1> DEFINE f == frames[sent + 1]
           ls == LinesOf(f, sent + 1)
           n == Len(wire)
           d == n + (IF f.event = None THEN 1 ELSE 2)
<1>1. wire' = wire \o ls /\ sent < Len(frames)
  BY DEF SendFrame
<1>2. sent \in 0 .. Len(frames) /\ frames \in Seq(Frame) /\ Len(frames) \in Nat /\ wire \in Seq(Line)
  BY DEF Typed
<1>3. sent + 1 \in DOMAIN frames /\ f \in Frame /\ sent + 1 \in Nat
  BY <1>1, <1>2
<1>4. /\ ls \in Seq(Line) /\ Len(ls) = (IF f.event = None THEN 2 ELSE 3)
      /\ DOMAIN ls = 1 .. Len(ls)
      /\ \A k \in DOMAIN ls : /\ ls[k].whole /\ ls[k].frame = sent + 1
                              /\ IsData(ls[k]) <=> k = Len(ls) - 1
                              /\ NamesEnd(ls[k]) => EndFrame(f)
      /\ ls[Len(ls) - 1].text = f.data /\ Blank(ls[Len(ls)])
      /\ f.event # None => Announces(ls[1], f.event)
  BY <1>3, LineOfFrame
<1> HIDE DEF ls
<1>5. /\ wire' \in Seq(Line) /\ n \in Nat
      /\ DOMAIN wire = 1 .. n /\ DOMAIN wire' = 1 .. n + Len(ls) /\ Len(wire') = n + Len(ls)
      /\ \A k \in DOMAIN wire : wire'[k] = wire[k]
      /\ \A k \in DOMAIN ls : wire'[n + k] = ls[k]
  BY <1>1, <1>2, <1>4, Joined
<1>6. Len(ls) \in {2, 3} /\ n + Len(ls) = d + 1 /\ d \in Nat /\ n + (Len(ls) - 1) = d
  <2>1. CASE f.event = None
    BY <1>4, <1>5, <2>1
  <2>2. CASE f.event # None
    BY <1>4, <1>5, <2>2
  <2> QED
    BY <2>1, <2>2
<1>7. f.event # None => d - 1 = n + 1
  BY <1>5
<1> SUFFICES
      /\ \A k \in n + 1 .. d + 1 :
            /\ wire'[k].whole /\ wire'[k].frame = sent + 1
            /\ IsData(wire'[k]) <=> k = d
            /\ NamesEnd(wire'[k]) => EndFrame(f)
      /\ wire'[d].text = f.data /\ Blank(wire'[d + 1])
      /\ f.event # None => Announces(wire'[d - 1], f.event)
  BY <1>3, <1>5, <1>6
<1> HIDE DEF f, d, n
<1>8. ASSUME NEW k \in n + 1 .. d + 1
      PROVE  k - n \in DOMAIN ls /\ wire'[k] = ls[k - n] /\ (k = d <=> k - n = Len(ls) - 1)
  <2>1. k - n \in DOMAIN ls /\ n + (k - n) = k
    BY <1>4, <1>5, <1>6
  <2>2. k = d <=> k - n = Len(ls) - 1
    BY <1>5, <1>6
  <2> QED
    BY <1>5, <2>1, <2>2
<1>9. 1 \in DOMAIN ls /\ Len(ls) - 1 \in DOMAIN ls /\ Len(ls) \in DOMAIN ls
  BY <1>4, <1>6
<1>10. wire'[d] = ls[Len(ls) - 1] /\ wire'[d + 1] = ls[Len(ls)] /\ wire'[n + 1] = ls[1]
  BY <1>5, <1>6, <1>9
<1> QED
  BY <1>4, <1>7, <1>8, <1>10

LEMMA SendFrameStep ==
    ASSUME LogInv, SendFrame
    PROVE  LogInv'
<1>1. Typed /\ LastFrame /\ Told /\ Closed
  BY DEF LogInv
<1>2. /\ conn = "open" /\ sent < Len(frames) /\ sent' = sent + 1
      /\ UNCHANGED <<fixed, build, frames, conn, cut, event, yielded, pc>>
  BY DEF SendFrame
<1>3. sent \in 0 .. Len(frames) /\ frames \in Seq(Frame) /\ Len(frames) \in Nat /\ wire \in Seq(Line)
  BY <1>1 DEF Typed
<1> DEFINE f == frames[sent + 1]
           n == Len(wire)
           d == n + (IF f.event = None THEN 1 ELSE 2)
<1>4. sent + 1 \in DOMAIN frames /\ f \in Frame /\ sent' \in 0 .. Len(frames)
  BY <1>2, <1>3
<1>5. /\ n \in Nat /\ d \in Nat /\ DOMAIN wire = 1 .. n
      /\ wire' \in Seq(Line) /\ DOMAIN wire' = 1 .. d + 1 /\ Len(wire') = d + 1
      /\ \A k \in DOMAIN wire : wire'[k] = wire[k]
      /\ \A k \in n + 1 .. d + 1 :
            /\ wire'[k].whole /\ wire'[k].frame = sent + 1
            /\ IsData(wire'[k]) <=> k = d
            /\ NamesEnd(wire'[k]) => EndFrame(f)
      /\ wire'[d].text = f.data
  BY <1>1, SendFacts
<1>6. d \in n + 1 .. d + 1
  BY <1>5
<1> HIDE DEF f, n, d
<1>7. \A k \in DOMAIN wire' : k \notin DOMAIN wire => k \in n + 1 .. d + 1
  BY <1>5
<1>8. ~Over
  BY <1>2, <1>3 DEF Over
<1>9. EndFrame(f) => Over'
  <2>1. EndFrame(f) => ~Going /\ sent + 1 = Len(frames)
    BY <1>1, <1>4 DEF LastFrame, f
  <2> QED
    BY <1>2, <2>1 DEF Over, Going
<1>10. Final(f.data) => EndFrame(f)
  BY DEF EndFrame
<1>11. Typed'
  BY <1>1, <1>2, <1>4, <1>5 DEF Typed, fixed
<1>12. LastFrame'
  BY <1>1, <1>2 DEF LastFrame, Going
<1>13. EndFrame(f) => Final(f.data)
  <2>1. EndFrame(f) => ~Going /\ sent + 1 = Len(frames)
    BY <1>1, <1>4 DEF LastFrame, f
  <2> QED
    BY <1>1, <2>1 DEF LastFrame, f
<1>14. \A k \in DOMAIN wire' : IsData(wire'[k]) /\ k \notin DOMAIN wire =>
          k = d /\ wire'[k].text = f.data
  BY <1>5, <1>7
<1>15. EndOfWire'
  <2>1. ~AtEnd'
    BY <1>2, <1>8, NotYet DEF AtEnd
  <2> SUFFICES ASSUME NEW k \in DOMAIN wire'
               PROVE  /\ TellsEnd(wire'[k]) => Over' /\ NoDataAfter(k)'
                      /\ NamesEnd(wire'[k]) => Over' /\ OnlyFinalAfter(k)'
    BY <2>1 DEF EndOfWire, NoDataAfter, OnlyFinalAfter
  <2>2. CASE k \in DOMAIN wire
    BY <1>5, <1>8, <2>2, NotYet
  <2>3. CASE k \notin DOMAIN wire
    <3>1. \A j \in DOMAIN wire' : j > k => j \notin DOMAIN wire
      BY <1>5, <2>3
    <3>2. ASSUME TellsEnd(wire'[k])
          PROVE  Over' /\ NoDataAfter(k)'
      <4>1. IsData(wire'[k]) /\ Final(wire'[k].text)
        BY <3>2 DEF TellsEnd
      <4>2. k = d /\ Final(f.data)
        BY <1>14, <2>3, <4>1
      <4>3. \A j \in DOMAIN wire' : j > k => ~IsData(wire'[j])
        BY <1>5, <1>14, <3>1, <4>2
      <4> QED
        BY <1>9, <1>10, <4>2, <4>3 DEF NoDataAfter
    <3>3. ASSUME NamesEnd(wire'[k])
          PROVE  Over' /\ OnlyFinalAfter(k)'
      <4>1. EndFrame(f)
        BY <1>5, <1>7, <2>3, <3>3
      <4>2. \A j \in DOMAIN wire' : j > k /\ IsData(wire'[j]) => Final(wire'[j].text)
        BY <1>13, <1>14, <3>1, <4>1
      <4> QED
        BY <1>9, <4>1, <4>2 DEF OnlyFinalAfter
    <3> QED
      BY <3>2, <3>3
  <2> QED
    BY <2>2, <2>3
<1>16. EndOfLog'
  BY <1>2, <1>8, NotYet DEF EndOfLog
<1>17. Told'
  <2> SUFFICES ASSUME ~cut
               PROVE  /\ \A k \in DOMAIN wire' : wire'[k].whole
                      /\ Over' => \E k \in DOMAIN wire' : TellsEnd(wire'[k])
    BY <1>2 DEF Told, fixed
  <2>1. \A k \in DOMAIN wire' : wire'[k].whole
    BY <1>1, <1>5, <1>7 DEF Told
  <2>2. ASSUME Over' PROVE \E k \in DOMAIN wire' : TellsEnd(wire'[k])
    <3>1. ~Going /\ sent + 1 = Len(frames)
      BY <1>2, <2>2 DEF Over, Going
    <3>2. Final(f.data)
      BY <1>1, <3>1 DEF LastFrame, f
    <3>3. d \in DOMAIN wire' /\ IsData(wire'[d]) /\ wire'[d].text = f.data
      BY <1>5, <1>6
    <3> QED
      BY <3>2, <3>3 DEF TellsEnd
  <2> QED
    BY <2>1, <2>2
<1>18. Closed'
  BY <1>1, <1>2 DEF Closed
<1> QED
  BY <1>11, <1>12, <1>15, <1>16, <1>17, <1>18 DEF LogInv

LEMMA CloseStreamStep ==
    ASSUME LogInv, CloseStream
    PROVE  LogInv'
<1>1. /\ conn = "open" /\ conn' = "eof" /\ sent = Len(frames) /\ (follow => ~Going)
      /\ UNCHANGED <<fixed, build, frames, sent, wire, cut, event, yielded, pc>>
  BY DEF CloseStream, Going
<1>2. Typed' /\ LastFrame' /\ EndOfWire' /\ EndOfLog' /\ Told'
  BY <1>1 DEF LogInv, Typed, LastFrame, EndOfWire, EndOfLog, Told, Over, Going, AtEnd,
              NoDataAfter, OnlyFinalAfter, fixed
<1>3. Closed'
  BY <1>1 DEF LogInv, Closed, Over, Going, fixed
<1> QED
  BY <1>2, <1>3 DEF LogInv

LEMMA SendCommentStep ==
    ASSUME LogInv, SendComment
    PROVE  LogInv'
<1> DEFINE c == L("other", "", 0)
<1>1. /\ conn = "open" /\ wire = <<>> /\ pc = "reading" /\ wire' = <<c>>
      /\ UNCHANGED <<fixed, build, frames, sent, conn, cut, event, yielded, pc>>
  BY DEF SendComment
<1>2. c \in Line /\ ~IsData(c) /\ ~NamesEnd(c) /\ ~TellsEnd(c) /\ c.whole
  BY DEF L, Line, IsData, NamesEnd, TellsEnd
<1> HIDE DEF c
<1>3. wire' \in Seq(Line) /\ DOMAIN wire' = {1} /\ wire'[1] = c /\ DOMAIN wire = {}
  BY <1>1, <1>2
<1>4. Typed'
  BY <1>1, <1>3 DEF LogInv, Typed, fixed
<1>5. LastFrame'
  BY <1>1 DEF LogInv, LastFrame, Going
<1>6. Over' <=> Over
  BY <1>1 DEF Over, Going
<1>7. EndOfWire' /\ EndOfLog'
  BY <1>1, <1>2, <1>3, <1>6 DEF LogInv, EndOfWire, EndOfLog, AtEnd, NoDataAfter, OnlyFinalAfter
<1>8. Told'
  BY <1>1, <1>2, <1>3, <1>6 DEF LogInv, Told, fixed
<1>9. Closed'
  BY <1>1 DEF LogInv, Closed
<1> QED
  BY <1>4, <1>5, <1>7, <1>8, <1>9 DEF LogInv

\* A cut leaves lines that were there, the last one perhaps not whole.
LEMMA Severed ==
    ASSUME LogInv, Cut \/ Break
    PROVE  /\ wire' \in Seq(Line) /\ Len(wire') <= Len(wire)
           /\ \A k \in DOMAIN wire' : /\ k \in DOMAIN wire
                                      /\ wire'[k].field = wire[k].field
                                      /\ wire'[k].text = wire[k].text
                                      /\ wire'[k].frame = wire[k].frame
                                      /\ k < Len(wire') => wire'[k] = wire[k]
<1>1. wire \in Seq(Line) /\ Len(wire) \in Nat
  BY DEF LogInv, Typed
<1>2. ASSUME NEW n \in 0 .. Len(wire), wire' = SubSeq(wire, 1, n)
      PROVE  /\ wire' \in Seq(Line) /\ Len(wire') <= Len(wire)
             /\ \A k \in DOMAIN wire' : k \in DOMAIN wire /\ wire'[k] = wire[k]
  BY <1>1, <1>2, Cutting
<1>3. ASSUME NEW n \in 0 .. Len(wire), n < Len(wire),
             wire' = Append(SubSeq(wire, 1, n), [wire[n + 1] EXCEPT !.whole = FALSE])
      PROVE  /\ wire' \in Seq(Line) /\ Len(wire') <= Len(wire)
             /\ \A k \in DOMAIN wire' : /\ k \in DOMAIN wire
                                        /\ wire'[k].field = wire[k].field
                                        /\ wire'[k].text = wire[k].text
                                        /\ wire'[k].frame = wire[k].frame
                                        /\ k < Len(wire') => wire'[k] = wire[k]
  <2> DEFINE w == SubSeq(wire, 1, n)
             l == [wire[n + 1] EXCEPT !.whole = FALSE]
  <2>1. w \in Seq(Line) /\ Len(w) = n /\ DOMAIN w = 1 .. n /\ \A k \in 1 .. n : w[k] = wire[k]
    BY <1>1, Cutting
  <2>2. n + 1 \in DOMAIN wire /\ wire[n + 1] \in Line
    BY <1>1, <1>3
  <2>3. l \in Line /\ l.field = wire[n + 1].field /\ l.text = wire[n + 1].text
        /\ l.frame = wire[n + 1].frame
    BY <2>2 DEF Line
  <2> HIDE DEF w, l
  <2>4. /\ wire' \in Seq(Line) /\ Len(wire') = n + 1 /\ DOMAIN wire' = 1 .. n + 1
        /\ \A k \in 1 .. n : wire'[k] = w[k]
        /\ wire'[n + 1] = l
    BY <1>3, <2>1, <2>3, Appended DEF w, l
  <2>5. \A k \in DOMAIN wire' : k \in DOMAIN wire /\ (k \in 1 .. n \/ k = n + 1)
    BY <1>1, <1>3, <2>4
  <2> QED
    BY <1>1, <1>3, <2>1, <2>3, <2>4, <2>5
<1>4. \/ \E n \in 0 .. Len(wire) : wire' = SubSeq(wire, 1, n)
      \/ \E n \in 0 .. Len(wire) :
            /\ n < Len(wire)
            /\ wire' = Append(SubSeq(wire, 1, n), [wire[n + 1] EXCEPT !.whole = FALSE])
  <2>1. CASE Cut
    <3>1. PICK n \in 0 .. Len(wire) : wire' \in Remains(n)
      BY <2>1 DEF Cut
    <3>2. \/ wire' = SubSeq(wire, 1, n)
          \/ /\ n < Len(wire)
             /\ wire' = Append(SubSeq(wire, 1, n), [wire[n + 1] EXCEPT !.whole = FALSE])
      BY <3>1, Zenon DEF Remains
    <3> QED
      BY <3>2
  <2>2. CASE Break
    BY <2>2 DEF Break
  <2> QED
    BY <2>1, <2>2
<1> QED
  BY <1>2, <1>3, <1>4

LEMMA SeveredStep ==
    ASSUME LogInv, Cut \/ Break
    PROVE  LogInv'
<1>1. /\ conn = "open" /\ cut'
      /\ UNCHANGED <<fixed, build, frames, sent, event, yielded, pc>>
  BY DEF Cut, Break
<1>2. /\ wire' \in Seq(Line) /\ Len(wire') <= Len(wire)
      /\ \A k \in DOMAIN wire' : /\ k \in DOMAIN wire
                                 /\ wire'[k].field = wire[k].field
                                 /\ wire'[k].text = wire[k].text
  BY Severed
<1>3. \A k \in DOMAIN wire' : /\ k \in DOMAIN wire
                              /\ IsData(wire'[k]) <=> IsData(wire[k])
                              /\ TellsEnd(wire'[k]) <=> TellsEnd(wire[k])
                              /\ NamesEnd(wire'[k]) <=> NamesEnd(wire[k])
                              /\ wire'[k].text = wire[k].text
  BY <1>2 DEF IsData, TellsEnd, NamesEnd
<1>4. Over' <=> Over
  BY <1>1 DEF Over, Going
<1>5. Typed'
  BY <1>1, <1>2 DEF LogInv, Typed, fixed
<1>6. LastFrame'
  BY <1>1 DEF LogInv, LastFrame, Going
<1>7. EndOfWire'
  BY <1>1, <1>3, <1>4 DEF LogInv, EndOfWire, AtEnd, NoDataAfter, OnlyFinalAfter
<1>8. EndOfLog'
  BY <1>1, <1>3, <1>4 DEF LogInv, EndOfLog, NoDataAfter
<1>9. Told'
  BY <1>1 DEF Told
<1>10. Closed'
  BY <1>1 DEF LogInv, Closed
<1> QED
  BY <1>5, <1>6, <1>7, <1>8, <1>9, <1>10 DEF LogInv

-----------------------------------------------------------------------------
\* Steps of the client.

\* What a read line does to the log and to current_event.
LEMMA ReadFacts ==
    ASSUME LogInv, ReadLine
    PROVE  LET l == Head(wire) IN
           /\ event' \in Names
           /\ AtEnd' => AtEnd \/ NamesEnd(l)
           /\ \/ /\ yielded' = yielded
                 /\ ~(TellsEnd(l) /\ l.whole /\ reader = "entries")
                 /\ IsData(l) => reader # "completion" /\ (l.text = "" \/ ~l.whole)
                 /\ pc' \in {"reading", "raised"}
              \/ /\ IsData(l) /\ pc' = "reading"
                 /\ reader = "completion" \/ (l.text # "" /\ l.whole)
                 /\ \E y \in Entry :
                       /\ yielded' = Append(yielded, y)
                       /\ y.terminal <=> reader = "entries" /\ (AtEnd \/ Final(l.text))
                       /\ y.frame = l.frame /\ y.whole = l.whole /\ y.data = l.text
                       /\ y.event = IF reader = "entries" THEN event ELSE None
<1> DEFINE l == Head(wire)
<1>1. wire \in Seq(Line) /\ wire # <<>> /\ l \in Line /\ event \in Names
  <2>1. wire \in Seq(Line) /\ event \in Names
    BY DEF LogInv, Typed
  <2>2. wire # <<>>
    BY DEF ReadLine
  <2> QED
    BY <2>1, <2>2, WithoutHead
<1>2. event' = IF reader = "completion" THEN None ELSE NextEvent(l)
  BY DEF ReadLine
<1>3. pc = "reading"
  BY DEF ReadLine
<1>4. IF l.field = "data" /\ (reader = "completion" \/ l.text # "")
      THEN IF Undecodable(l)
           THEN pc' = "raised" /\ UNCHANGED yielded
           ELSE Yield(event, l) /\ UNCHANGED pc
      ELSE UNCHANGED <<yielded, pc>>
  BY DEF ReadLine
<1> SUFFICES
      /\ event' \in Names
      /\ AtEnd' => AtEnd \/ NamesEnd(l)
      /\ \/ /\ yielded' = yielded
            /\ ~(TellsEnd(l) /\ l.whole /\ reader = "entries")
            /\ IsData(l) => reader # "completion" /\ (l.text = "" \/ ~l.whole)
            /\ pc' \in {"reading", "raised"}
         \/ /\ IsData(l) /\ pc' = "reading"
            /\ reader = "completion" \/ (l.text # "" /\ l.whole)
            /\ \E y \in Entry :
                  /\ yielded' = Append(yielded, y)
                  /\ y.terminal <=> reader = "entries" /\ (AtEnd \/ Final(l.text))
                  /\ y.frame = l.frame /\ y.whole = l.whole /\ y.data = l.text
                  /\ y.event = IF reader = "entries" THEN event ELSE None
  OBVIOUS
<1> HIDE DEF l
<1>5. l.text \in {"", "log", "end"} \cup Data /\ l.whole \in BOOLEAN /\ l.frame \in Nat
  BY <1>1 DEF Line
<1>6. event' \in Names /\ (AtEnd' => AtEnd \/ NamesEnd(l))
  <2>1. \/ event' = None
        \/ event' = l.text /\ l.field = "event"
        \/ event' = event
    BY <1>2 DEF NextEvent
  <2> QED
    BY <1>1, <1>5, <2>1 DEF Names, AtEnd, NamesEnd, None
<1>7. CASE ~(l.field = "data" /\ (reader = "completion" \/ l.text # ""))
  <2>1. ~(TellsEnd(l) /\ reader = "entries")
    BY <1>7 DEF TellsEnd, IsData, Final, Ended
  <2>2. IsData(l) => reader # "completion" /\ l.text = ""
    BY <1>7 DEF IsData
  <2> QED
    BY <1>3, <1>4, <1>6, <1>7, <2>1, <2>2
<1>8. CASE l.field = "data" /\ (reader = "completion" \/ l.text # "") /\ Undecodable(l)
  BY <1>3, <1>4, <1>6, <1>8 DEF Undecodable
<1>9. CASE l.field = "data" /\ (reader = "completion" \/ l.text # "") /\ ~Undecodable(l)
  <2> DEFINE y == [event |-> IF reader = "entries" THEN event ELSE None,
                   data |-> l.text, whole |-> l.whole, frame |-> l.frame,
                   terminal |-> reader = "entries" /\ terminal(event, l.text)]
  <2>1. yielded' = Append(yielded, y)
    BY <1>4, <1>9 DEF Yield
  <2>2. y.terminal <=> reader = "entries" /\ (AtEnd \/ Final(l.text))
    BY DEF terminal, AtEnd, Final
  <2>3. y \in Entry
    <3> DEFINE e == IF reader = "entries" THEN event ELSE None
               t == reader = "entries" /\ terminal(event, l.text)
    <3>1. e \in Names /\ t \in BOOLEAN
      BY <1>1 DEF Names, terminal
    <3>2. y = [event |-> e, data |-> l.text, whole |-> l.whole,
              frame |-> l.frame, terminal |-> t]
      OBVIOUS
    <3> HIDE DEF e, t, y
    <3> QED
      BY <1>5, <3>1, <3>2 DEF Entry
  <2>4. /\ IsData(l) /\ pc' = "reading"
        /\ reader = "completion" \/ (l.text # "" /\ l.whole)
    BY <1>3, <1>4, <1>9 DEF IsData, Undecodable
  <2>5. /\ y.frame = l.frame /\ y.whole = l.whole /\ y.data = l.text
        /\ y.event = IF reader = "entries" THEN event ELSE None
    OBVIOUS
  <2> HIDE DEF y
  <2> QED
    BY <1>6, <2>1, <2>2, <2>3, <2>4, <2>5
<1> QED
  BY <1>4, <1>7, <1>8, <1>9

LEMMA ReadLineStep ==
    ASSUME LogInv, ReadLine
    PROVE  LogInv'
<1> DEFINE l == Head(wire)
           v == Tail(wire)
<1>1. /\ wire # <<>> /\ wire' = v /\ UNCHANGED <<fixed, build, frames, sent, cut, conn>>
      /\ pc = "reading"
  BY DEF ReadLine, platform
<1>2. Typed /\ LastFrame /\ EndOfWire /\ EndOfLog /\ Told /\ Closed
  BY DEF LogInv
<1>3. wire \in Seq(Line) /\ yielded \in Seq(Entry)
  BY <1>2 DEF Typed
<1>4. /\ v \in Seq(Line) /\ l = wire[1] /\ 1 \in DOMAIN wire
      /\ DOMAIN v = 1 .. Len(wire) - 1 /\ DOMAIN wire = 1 .. Len(wire) /\ Len(wire) \in Nat
      /\ \A j \in DOMAIN v : j + 1 \in DOMAIN wire /\ v[j] = wire[j + 1]
  BY <1>1, <1>3, WithoutHead
<1>5. /\ event' \in Names
      /\ AtEnd' => AtEnd \/ NamesEnd(l)
      /\ \/ /\ yielded' = yielded
            /\ ~(TellsEnd(l) /\ l.whole /\ reader = "entries")
            /\ pc' \in {"reading", "raised"}
         \/ /\ IsData(l) /\ pc' = "reading"
            /\ \E y \in Entry :
                  /\ yielded' = Append(yielded, y)
                  /\ y.terminal <=> reader = "entries" /\ (AtEnd \/ Final(l.text))
  BY ReadFacts
<1> HIDE DEF l, v
<1>6. Over' <=> Over
  BY <1>1 DEF Over, Going
<1>7. /\ NoDataAfter(0) => (NoDataAfter(0)' /\ ~IsData(l))
      /\ OnlyFinalAfter(0) => (OnlyFinalAfter(0)' /\ (IsData(l) => Final(l.text)))
      /\ NoDataAfter(1) => NoDataAfter(0)'
      /\ OnlyFinalAfter(1) => OnlyFinalAfter(0)'
  BY <1>1, <1>4 DEF NoDataAfter, OnlyFinalAfter
<1>8. Typed'
  <2>1. yielded' \in Seq(Entry)
    BY <1>3, <1>5, Appended
  <2> QED
    BY <1>1, <1>2, <1>4, <1>5, <2>1 DEF Typed, fixed
<1>9. LastFrame'
  BY <1>1, <1>2 DEF LastFrame, Going
<1>10. EndOfWire'
  <2>1. ASSUME NEW k \in DOMAIN wire'
        PROVE  /\ TellsEnd(wire'[k]) => Over' /\ NoDataAfter(k)'
               /\ NamesEnd(wire'[k]) => Over' /\ OnlyFinalAfter(k)'
    <3>1. k + 1 \in DOMAIN wire /\ wire'[k] = wire[k + 1] /\ (k + 1) - 1 = k
      BY <1>1, <1>4
    <3>2. /\ NoDataAfter(k + 1) => NoDataAfter(k)'
          /\ OnlyFinalAfter(k + 1) => OnlyFinalAfter(k)'
      BY <1>1, <1>4 DEF NoDataAfter, OnlyFinalAfter
    <3> QED
      BY <1>2, <1>6, <3>1, <3>2 DEF EndOfWire
  <2>2. AtEnd' => Over' /\ OnlyFinalAfter(0)'
    BY <1>2, <1>4, <1>5, <1>6, <1>7 DEF EndOfWire
  <2> QED
    BY <2>1, <2>2 DEF EndOfWire, NoDataAfter, OnlyFinalAfter
<1>11. EndOfLog'
  <2>1. CASE yielded' = yielded
    BY <1>2, <1>6, <1>7, <2>1 DEF EndOfLog
  <2>2. ASSUME IsData(l), NEW y \in Entry, yielded' = Append(yielded, y),
               y.terminal <=> reader = "entries" /\ (AtEnd \/ Final(l.text))
        PROVE  EndOfLog'
    <3>1. \A i \in DOMAIN yielded : ~yielded[i].terminal
      BY <1>2, <1>7, <2>2 DEF EndOfLog
    <3>2. /\ Len(yielded') = Len(yielded) + 1 /\ Len(yielded) \in Nat
          /\ DOMAIN yielded' = 1 .. Len(yielded) + 1 /\ DOMAIN yielded = 1 .. Len(yielded)
          /\ \A i \in DOMAIN yielded : yielded'[i] = yielded[i]
          /\ yielded'[Len(yielded) + 1] = y
      BY <1>3, <2>2, Appended
    <3>3. y.terminal => TellsEnd(l)
      BY <1>2, <1>7, <2>2 DEF EndOfWire, TellsEnd
    <3>4. y.terminal => Over' /\ NoDataAfter(0)'
      BY <1>2, <1>4, <1>6, <1>7, <3>3 DEF EndOfWire
    <3>5. \A i \in DOMAIN yielded' : yielded'[i].terminal => i = Len(yielded) + 1
      BY <3>1, <3>2
    <3> QED
      BY <3>2, <3>4, <3>5 DEF EndOfLog
  <2> QED
    BY <1>5, <2>1, <2>2
<1>12. Told'
  <2> SUFFICES ASSUME ~cut
               PROVE  /\ \A k \in DOMAIN wire' : wire'[k].whole
                      /\ reader = "entries" /\ Over /\ pc' # "raised" =>
                            \/ \E k \in DOMAIN wire' : TellsEnd(wire'[k])
                            \/ Len(yielded') > 0 /\ yielded'[Len(yielded')].terminal
    BY <1>1, <1>6 DEF Told, fixed
  <2>1. \A k \in DOMAIN wire : wire[k].whole
    BY <1>2 DEF Told
  <2>2. \A k \in DOMAIN wire' : wire'[k].whole
    BY <1>1, <1>4, <2>1
  <2>3. ASSUME reader = "entries", Over
        PROVE  \/ \E k \in DOMAIN wire' : TellsEnd(wire'[k])
               \/ Len(yielded') > 0 /\ yielded'[Len(yielded')].terminal
    <3>1. \/ \E k \in DOMAIN wire : TellsEnd(wire[k])
          \/ Len(yielded) > 0 /\ yielded[Len(yielded)].terminal
      BY <1>1, <1>2, <2>3 DEF Told
    <3>2. CASE TellsEnd(l)
      <4>1. PICK y \in Entry : yielded' = Append(yielded, y) /\ y.terminal
        BY <1>4, <1>5, <2>1, <2>3, <3>2 DEF TellsEnd
      <4> QED
        BY <1>3, <4>1, Appended
    <3>3. ASSUME NEW k \in DOMAIN wire, TellsEnd(wire[k]), ~TellsEnd(l)
          PROVE  \E j \in DOMAIN wire' : TellsEnd(wire'[j])
      <4>1. k # 1
        BY <1>4, <3>3
      <4>2. k - 1 \in DOMAIN wire' /\ (k - 1) + 1 = k
        BY <1>1, <1>4, <4>1
      <4>3. wire'[k - 1] = wire[k]
        BY <1>1, <1>4, <4>2
      <4> QED
        BY <3>3, <4>2, <4>3
    <3>4. CASE Len(yielded) > 0 /\ yielded[Len(yielded)].terminal
      <4>1. Len(yielded) \in DOMAIN yielded
        BY <1>3, <3>4
      <4>2. ~IsData(l)
        BY <1>2, <1>7, <3>4, <4>1 DEF EndOfLog
      <4> QED
        BY <1>5, <3>4, <4>2
    <3> QED
      BY <3>1, <3>2, <3>3, <3>4
  <2> QED
    BY <2>2, <2>3
<1>13. Closed'
  BY <1>1, <1>2, <1>5, <1>6 DEF Closed, fixed
<1> QED
  BY <1>8, <1>9, <1>10, <1>11, <1>12, <1>13 DEF LogInv

\* The steps that only change pc.
LEMMA PcStep ==
    ASSUME LogInv, UNCHANGED <<fixed, platform, wire, conn, event, yielded>>,
           \/ pc' = "raised"
           \/ pc' = "done" /\ conn = "eof" /\ wire = <<>> /\ pc # "raised"
           \/ pc' = pc
    PROVE  LogInv'
<1>1. UNCHANGED <<reader, follow, build, frames, sent, cut, wire, conn, event, yielded>>
  BY DEF fixed, platform
<1>2. Typed' /\ LastFrame' /\ EndOfWire' /\ EndOfLog'
  BY <1>1 DEF LogInv, Typed, LastFrame, EndOfWire, EndOfLog, Over, Going, AtEnd,
              NoDataAfter, OnlyFinalAfter
<1>3. Told'
  BY <1>1 DEF LogInv, Told, Over, Going
<1>4. Closed'
  BY <1>1 DEF LogInv, Closed, Over, Going
<1> QED
  BY <1>2, <1>3, <1>4 DEF LogInv

-----------------------------------------------------------------------------
\* The theorems.

LEMMA LogInit == Init => LogInv
<1> SUFFICES ASSUME Init PROVE LogInv
  OBVIOUS
<1>1. /\ reader \in Readers /\ build = "running" /\ frames = <<>> /\ sent = 0
      /\ wire = <<>> /\ conn = "open" /\ event = None /\ yielded = <<>> /\ pc = "reading"
  BY DEF Init
<1>2. Going /\ ~AtEnd /\ None \in Names
  BY <1>1 DEF Going, AtEnd, None, Names
<1>3. Typed
  BY <1>1, <1>2 DEF Typed
<1>4. LastFrame /\ EndOfWire /\ EndOfLog /\ Told
  BY <1>1, <1>2 DEF LastFrame, EndOfWire, EndOfLog, Told, Over
<1>5. Closed
  BY <1>1 DEF Closed
<1> QED
  BY <1>3, <1>4, <1>5 DEF LogInv

LEMMA LogNext == LogInv /\ [Next]_vars => LogInv'
<1> SUFFICES ASSUME LogInv, [Next]_vars PROVE LogInv'
  OBVIOUS
<1>1. CASE Platform
  BY <1>1, LogStep, FinishStep, SendFrameStep, SendCommentStep, CloseStreamStep, SeveredStep
     DEF Platform
<1>2. CASE ReadLine
  BY <1>2, ReadLineStep
<1>3. CASE EndOfFile
  BY <1>3, PcStep DEF EndOfFile
<1>4. CASE RaiseBroken \/ IdleTimeout
  BY <1>4, PcStep DEF RaiseBroken, IdleTimeout
<1>5. CASE UNCHANGED vars
  BY <1>5, PcStep DEF vars, fixed, platform
<1> QED
  BY <1>1, <1>2, <1>3, <1>4, <1>5 DEF Next, Client

\* LogInv holds in every reachable state: the line that tells the end is sent
\* last, and unless it was cut off it is on its way or has been told.
THEOREM LogInvariant == Spec => []LogInv
  BY LogInit, LogNext, PTL DEF Spec

\* An entry marked terminal is the last of a build that has ended.
THEOREM LastEntryIsLast == Spec => []TerminalIsTrue
<1>1. LogInv => TerminalIsTrue
  BY DEF LogInv, EndOfLog, Over, Going, TerminalIsTrue
<1> QED
  BY <1>1, LogInvariant, PTL

\* A followed log that ended because the build did has told so: what the reader
\* of entries saw last is the terminal one.
THEOREM EndHasBeenTold == Spec => []EndIsTold
<1>1. LogInv => EndIsTold
  <2> SUFFICES ASSUME LogInv, pc = "done", follow, ~cut, reader = "entries"
               PROVE  yielded # <<>> /\ Last(yielded).terminal
    BY DEF EndIsTold
  <2>1. Over /\ DOMAIN wire = {}
    BY DEF LogInv, Closed, Typed
  <2>2. Len(yielded) > 0 /\ yielded[Len(yielded)].terminal
    BY <2>1 DEF LogInv, Told
  <2> QED
    BY <2>2 DEF Last
<1> QED
  BY <1>1, LogInvariant, PTL

-----------------------------------------------------------------------------
\* The order of the log: nothing lost from its middle, nothing twice.

Open == conn = "open"
Entries == reader = "entries"

\* The name that will be in force when line k is read.
Named(k, name) ==
    \/ k = 1 /\ event = name
    \/ k > 1 /\ (Announces(wire[k - 1], name) \/ (Blank(wire[k - 1]) /\ name = None))
    \/ k = 2 /\ Comment(wire[1]) /\ event = name

\* When all that is on the wire has been read, no name is in force.
AtRest == \/ Len(wire) > 0 /\ Blank(wire[Len(wire)])
          \/ event = None /\ (Len(wire) = 0 \/ (Len(wire) = 1 /\ Comment(wire[1])))

OfFrame(k) ==
    /\ wire[k].frame \in 1 .. sent /\ wire[k].text = frames[wire[k].frame].data
    /\ Entries => Named(k, frames[wire[k].frame].event)

\* Lines with data are in the order of their frames, under their names, and
\* only a cut leaves one that is not whole.
WireOrder ==
    /\ \A k \in DOMAIN wire : IsData(wire[k]) => OfFrame(k)
    /\ \A j, k \in DOMAIN wire : j < k /\ IsData(wire[j]) /\ IsData(wire[k]) =>
          wire[j].frame < wire[k].frame
    /\ \A k \in DOMAIN wire : ~wire[k].whole => k = Len(wire) /\ cut /\ ~Open
    /\ Open /\ Entries => AtRest

AsExpected(y, f) ==
    y.event = (IF Entries THEN f.event ELSE None) /\ y.data = f.data /\ Deliverable(f)

LogOrder ==
    /\ \A i \in DOMAIN yielded :
          /\ yielded[i].frame \in 1 .. sent
          /\ AsExpected(yielded[i], frames[yielded[i].frame])
          /\ ~yielded[i].whole => i = Len(yielded) /\ Len(wire) = 0 /\ cut /\ ~Open
          /\ \A k \in DOMAIN wire : IsData(wire[k]) => yielded[i].frame < wire[k].frame
    /\ \A i, j \in DOMAIN yielded : i < j => yielded[i].frame < yielded[j].frame

\* Frame n has been delivered, or is on its way; so has every one up to m.
Has(n) == \/ \E i \in DOMAIN yielded : yielded[i].frame = n
          \/ \E k \in DOMAIN wire : IsData(wire[k]) /\ wire[k].frame = n
Gapless(m) == \A n \in 1 .. m : Deliverable(frames[n]) => Has(n)

Covered ==
    /\ Open => Gapless(sent)
    /\ \A i \in DOMAIN yielded : Gapless(yielded[i].frame)
    /\ \A k \in DOMAIN wire : IsData(wire[k]) => Gapless(wire[k].frame)

OrderInv == WireOrder /\ LogOrder /\ Covered

\* Steps that neither write nor read: frames that were sent stay as they are.
LEMMA QuietOrder ==
    ASSUME LogInv, OrderInv, UNCHANGED <<fixed, sent, wire, cut, event, yielded>>,
           Open' => Open, \A n \in 1 .. sent : frames'[n] = frames[n]
    PROVE  OrderInv'
<1>1. /\ UNCHANGED <<sent, wire, cut, event, yielded>> /\ Entries' = Entries /\ sent \in Nat
      /\ \A f : Deliverable(f)' <=> Deliverable(f)
  BY DEF fixed, Entries, LogInv, Typed, Deliverable
<1>2. \A k \in DOMAIN wire : OfFrame(k) => OfFrame(k)'
  BY <1>1 DEF OfFrame, Named
<1>3. WireOrder'
  BY <1>1, <1>2 DEF OrderInv, WireOrder, AtRest
<1>4. \A y, f : AsExpected(y, f) => AsExpected(y, f)'
  BY <1>1 DEF AsExpected
<1>5. LogOrder'
  BY <1>1, <1>4 DEF OrderInv, LogOrder
<1>6. \A m \in 0 .. sent : Gapless(m) => Gapless(m)'
  BY <1>1 DEF Gapless, Has
<1>7. Covered'
  <2>1. Open' => Gapless(sent)'
    BY <1>1, <1>6 DEF OrderInv, Covered
  <2>2. \A i \in DOMAIN yielded : Gapless(yielded[i].frame)'
    BY <1>1, <1>6 DEF OrderInv, Covered, LogOrder
  <2>3. \A k \in DOMAIN wire : IsData(wire[k]) => Gapless(wire[k].frame)'
    BY <1>1, <1>6 DEF OrderInv, Covered, WireOrder, OfFrame
  <2> QED
    BY <1>1, <2>1, <2>2, <2>3 DEF Covered, Gapless, Has
<1> QED
  BY <1>3, <1>5, <1>7 DEF OrderInv

LEMMA SendFrameOrder ==
    ASSUME LogInv, OrderInv, SendFrame
    PROVE  OrderInv'
<1>1. Typed /\ WireOrder /\ LogOrder /\ Covered
  BY DEF LogInv, OrderInv
<1>2. /\ Open /\ Open' /\ sent \in Nat /\ sent' = sent + 1
      /\ UNCHANGED <<frames, cut, event, yielded>> /\ Entries' = Entries
      /\ \A g : Deliverable(g)' <=> Deliverable(g)
  BY <1>1 DEF SendFrame, Open, Entries, fixed, Typed, Deliverable
<1>3. PICK m, f, n, d :
      /\ m = sent + 1 /\ f = frames[m] /\ n = Len(wire)
      /\ f.event = None => d = n + 1
      /\ f.event # None => d = n + 2
      /\ n \in Nat /\ d \in Nat /\ DOMAIN wire = 1 .. n
      /\ DOMAIN wire' = 1 .. d + 1 /\ Len(wire') = d + 1
      /\ \A k \in DOMAIN wire : wire'[k] = wire[k]
      /\ \A k \in n + 1 .. d + 1 :
            wire'[k].whole /\ wire'[k].frame = m /\ (IsData(wire'[k]) <=> k = d)
      /\ wire'[d].text = f.data /\ Blank(wire'[d + 1])
      /\ f.event # None => Announces(wire'[d - 1], f.event)
  <2> DEFINE g == frames[sent + 1]
             l == Len(wire)
             e == l + (IF g.event = None THEN 1 ELSE 2)
  <2>1. /\ l \in Nat /\ e \in Nat /\ DOMAIN wire = 1 .. l
        /\ DOMAIN wire' = 1 .. e + 1 /\ Len(wire') = e + 1
        /\ \A k \in DOMAIN wire : wire'[k] = wire[k]
        /\ \A k \in l + 1 .. e + 1 :
              /\ wire'[k].whole /\ wire'[k].frame = sent + 1
              /\ IsData(wire'[k]) <=> k = e
        /\ wire'[e].text = g.data /\ Blank(wire'[e + 1])
        /\ g.event # None => Announces(wire'[e - 1], g.event)
    BY <1>1, SendFacts
  <2>2. (g.event = None => e = l + 1) /\ (g.event # None => e = l + 2)
    BY <2>1
  <2> HIDE DEF e
  <2> QED
    BY <2>1, <2>2
<1>4. d > n
  BY <1>3
<1>5. \A k \in DOMAIN wire' : k \in DOMAIN wire \/ k \in n + 1 .. d + 1
  BY <1>3
<1>6. \A k \in DOMAIN wire : k \in DOMAIN wire' /\ k < d
  BY <1>3, <1>4
<1>7. \A k \in DOMAIN wire' : IsData(wire'[k]) =>
         \/ k \in DOMAIN wire /\ wire'[k] = wire[k] /\ IsData(wire[k]) /\ OfFrame(k)
         \/ k = d
  BY <1>1, <1>3, <1>5 DEF WireOrder
<1>8. wire'[d].frame = m /\ IsData(wire'[d]) /\ d \in DOMAIN wire'
  BY <1>3, <1>4
<1>9. \A name : \A k \in DOMAIN wire : Named(k, name) => Named(k, name)'
  <2> SUFFICES ASSUME NEW k \in DOMAIN wire, NEW name, Named(k, name)
               PROVE  Named(k, name)'
    OBVIOUS
  <2>1. CASE k = 1 \/ k = 2
    BY <1>2, <1>3, <2>1 DEF Named
  <2>2. CASE k > 1
    <3>1. k - 1 \in DOMAIN wire
      BY <1>3, <2>2
    <3> QED
      BY <1>2, <1>3, <2>2, <3>1 DEF Named
  <2> QED
    BY <1>3, <2>1, <2>2
<1>10. Entries => Named(d, f.event)'
  <2> SUFFICES ASSUME Entries PROVE Named(d, f.event)'
    OBVIOUS
  <2>1. CASE f.event # None
    <3>1. d > 1
      BY <1>3, <1>4, <2>1
    <3> QED
      BY <1>3, <2>1, <3>1 DEF Named
  <2>2. CASE f.event = None
    <3>1. AtRest
      BY <1>1, <1>2 DEF WireOrder
    <3>2. CASE n > 0 /\ Blank(wire[n])
      <4>1. d > 1 /\ d - 1 = n /\ n \in DOMAIN wire
        BY <1>3, <1>4, <2>2, <3>2
      <4> QED
        BY <1>3, <2>2, <3>2, <4>1 DEF Named
    <3>3. CASE event = None /\ n = 0
      BY <1>2, <1>3, <2>2, <3>3 DEF Named
    <3>4. CASE event = None /\ n = 1 /\ Comment(wire[1])
      <4>1. d = 2 /\ wire'[1] = wire[1]
        BY <1>3, <1>4, <2>2, <3>4
      <4> QED
        BY <1>2, <2>2, <3>4, <4>1 DEF Named
    <3> QED
      BY <1>3, <3>1, <3>2, <3>3, <3>4 DEF AtRest
  <2> QED
    BY <2>1, <2>2
<1>11. \A k \in DOMAIN wire' : IsData(wire'[k]) => OfFrame(k)'
  <2>1. ASSUME NEW k \in DOMAIN wire, wire'[k] = wire[k], OfFrame(k)
        PROVE  OfFrame(k)'
    BY <1>2, <1>9, <2>1 DEF OfFrame
  <2>2. OfFrame(d)'
    BY <1>2, <1>3, <1>8, <1>10 DEF OfFrame
  <2> QED
    BY <1>7, <2>1, <2>2
<1>12. \A k \in DOMAIN wire : IsData(wire[k]) => wire[k].frame \in 1 .. sent
  BY <1>1, <1>2 DEF WireOrder, OfFrame
<1>13. WireOrder'
  <2>1. \A j, k \in DOMAIN wire' : j < k /\ IsData(wire'[j]) /\ IsData(wire'[k]) =>
           wire'[j].frame < wire'[k].frame
    <3> SUFFICES ASSUME NEW j \in DOMAIN wire', NEW k \in DOMAIN wire', j < k,
                        IsData(wire'[j]), IsData(wire'[k])
                 PROVE  wire'[j].frame < wire'[k].frame
      OBVIOUS
    <3>1. j # d \/ k \in DOMAIN wire
      BY <1>7, <1>3
    <3>2. j \in DOMAIN wire /\ wire'[j] = wire[j] /\ IsData(wire[j])
      BY <1>3, <1>6, <1>7
    <3>3. CASE k = d
      BY <1>2, <1>3, <1>8, <1>12, <3>2, <3>3
    <3>4. CASE k # d
      BY <1>1, <1>7, <3>2, <3>4 DEF WireOrder
    <3> QED
      BY <3>3, <3>4
  <2>2. \A k \in DOMAIN wire' : wire'[k].whole
    BY <1>1, <1>2, <1>3, <1>5 DEF WireOrder
  <2>3. AtRest'
    BY <1>3 DEF AtRest
  <2> QED
    BY <1>11, <2>1, <2>2, <2>3 DEF WireOrder
<1>14. LogOrder'
  <2> SUFFICES ASSUME NEW i \in DOMAIN yielded
               PROVE  /\ yielded[i].frame \in 1 .. sent'
                      /\ AsExpected(yielded[i], frames[yielded[i].frame])'
                      /\ yielded[i].whole
                      /\ \A k \in DOMAIN wire' : IsData(wire'[k]) =>
                            yielded[i].frame < wire'[k].frame
    BY <1>1, <1>2 DEF LogOrder
  <2>1. /\ yielded[i].frame \in 1 .. sent /\ yielded[i].whole
        /\ AsExpected(yielded[i], frames[yielded[i].frame])
        /\ \A k \in DOMAIN wire : IsData(wire[k]) => yielded[i].frame < wire[k].frame
    BY <1>1, <1>2 DEF LogOrder
  <2>2. AsExpected(yielded[i], frames[yielded[i].frame])'
    BY <1>2, <2>1 DEF AsExpected
  <2> QED
    BY <1>2, <1>3, <1>7, <1>8, <2>1, <2>2
<1>15. \A i : Has(i) => Has(i)'
  BY <1>2, <1>3, <1>6 DEF Has
<1>16. \A i \in 0 .. m : Gapless(i)'
  <2>1. Gapless(sent)
    BY <1>1, <1>2 DEF Covered
  <2>2. Has(m)'
    BY <1>8 DEF Has
  <2> QED
    BY <1>2, <1>3, <1>15, <2>1, <2>2 DEF Gapless
<1>17. Covered'
  <2> m = sent' /\ m \in Nat
    BY <1>2, <1>3
  <2>1. \A i \in DOMAIN yielded' : yielded'[i].frame \in 0 .. m
    BY <1>1, <1>2 DEF LogOrder
  <2>2. \A k \in DOMAIN wire' : IsData(wire'[k]) => wire'[k].frame \in 0 .. m
    BY <1>2, <1>11 DEF OfFrame
  <2>3. Gapless(sent)'
    BY <1>2, <1>16 DEF Gapless
  <2>4. \A i \in DOMAIN yielded' : Gapless(yielded[i].frame)'
    BY <1>2, <1>16, <2>1 DEF Gapless
  <2>5. \A k \in DOMAIN wire' : IsData(wire'[k]) => Gapless(wire[k].frame)'
    BY <1>16, <2>2 DEF Gapless
  <2> QED
    BY <2>3, <2>4, <2>5 DEF Covered
<1> QED
  BY <1>13, <1>14, <1>17 DEF OrderInv

LEMMA SendCommentOrder ==
    ASSUME LogInv, OrderInv, SendComment
    PROVE  OrderInv'
<1> DEFINE c == L("other", "", 0)
<1>1. /\ wire = <<>> /\ wire' = <<c>> /\ Open' = Open /\ Entries' = Entries
      /\ UNCHANGED <<frames, sent, cut, event, yielded>>
      /\ \A f : Deliverable(f)' <=> Deliverable(f)
  BY DEF SendComment, Open, Entries, fixed, Deliverable
<1>2. ~IsData(c) /\ Comment(c) /\ ~Blank(c) /\ c.whole
  BY DEF L, IsData, Comment, Blank
<1> HIDE DEF c
<1>3. DOMAIN wire' = {1} /\ Len(wire') = 1 /\ wire'[1] = c /\ DOMAIN wire = {} /\ Len(wire) = 0
  BY <1>1
<1>4. \A k \in DOMAIN wire' : ~IsData(wire'[k]) /\ wire'[k].whole
  BY <1>2, <1>3
<1>5. WireOrder'
  <2>1. Open' /\ Entries' => AtRest'
    BY <1>1, <1>2, <1>3 DEF OrderInv, WireOrder, AtRest
  <2> QED
    BY <1>4, <2>1 DEF WireOrder
<1>6. LogOrder'
  <2> SUFFICES ASSUME NEW i \in DOMAIN yielded
               PROVE  /\ yielded[i].frame \in 1 .. sent
                      /\ AsExpected(yielded[i], frames[yielded[i].frame])'
                      /\ ~yielded[i].whole => i = Len(yielded) /\ Len(wire') = 0 /\ cut /\ ~Open
    BY <1>1, <1>4 DEF OrderInv, LogOrder
  <2>1. yielded[i].whole
    BY DEF OrderInv, LogOrder, SendComment, Open
  <2>2. yielded[i].frame \in 1 .. sent /\ AsExpected(yielded[i], frames[yielded[i].frame])
    BY DEF OrderInv, LogOrder
  <2>3. AsExpected(yielded[i], frames[yielded[i].frame])'
    BY <1>1, <2>2 DEF AsExpected
  <2> QED
    BY <2>1, <2>2, <2>3
<1>7. \A n : Has(n) => Has(n)'
  BY <1>1, <1>3 DEF Has
<1>8. \A n : Gapless(n) => Gapless(n)'
  BY <1>1, <1>7 DEF Gapless
<1>9. Covered'
  <2>1. Open' => Gapless(sent)'
    BY <1>1, <1>8 DEF OrderInv, Covered, Gapless
  <2>2. \A i \in DOMAIN yielded' : Gapless(yielded[i].frame)'
    BY <1>1, <1>8 DEF OrderInv, Covered, Gapless
  <2> QED
    BY <1>4, <2>1, <2>2 DEF Covered
<1> QED
  BY <1>5, <1>6, <1>9 DEF OrderInv

\* What a cut leaves is the beginning of what was on the wire: a frame that is
\* left has those before it.
LEMMA SeveredOrder ==
    ASSUME LogInv, OrderInv, Cut \/ Break
    PROVE  OrderInv'
<1>1. /\ Open /\ ~Open' /\ cut' /\ Entries' = Entries
      /\ UNCHANGED <<frames, sent, event, yielded>>
      /\ \A f : Deliverable(f)' <=> Deliverable(f)
  BY DEF Cut, Break, Open, Entries, fixed, Deliverable
<1>2. WireOrder /\ LogOrder /\ Covered /\ Typed
  BY DEF OrderInv, LogInv
<1>3. /\ wire \in Seq(Line) /\ wire' \in Seq(Line) /\ Len(wire') \in Nat /\ Len(wire) \in Nat
      /\ DOMAIN wire' = 1 .. Len(wire') /\ DOMAIN wire = 1 .. Len(wire)
      /\ Len(wire') <= Len(wire)
  BY <1>2, Severed DEF Typed
<1>4. \A k \in DOMAIN wire' :
         /\ k \in DOMAIN wire /\ (k < Len(wire') => wire'[k] = wire[k])
         /\ IsData(wire'[k]) <=> IsData(wire[k])
         /\ Blank(wire'[k]) <=> Blank(wire[k])
         /\ Comment(wire'[k]) <=> Comment(wire[k])
         /\ \A name : Announces(wire'[k], name) <=> Announces(wire[k], name)
         /\ wire'[k].text = wire[k].text /\ wire'[k].frame = wire[k].frame
  BY Severed DEF IsData, Blank, Comment, Announces
<1>5. \A name : \A k \in DOMAIN wire' : Named(k, name) => Named(k, name)'
  <2> SUFFICES ASSUME NEW k \in DOMAIN wire', NEW name, Named(k, name)
               PROVE  Named(k, name)'
    OBVIOUS
  <2>1. CASE k = 1
    BY <1>1, <2>1 DEF Named
  <2>2. CASE k > 1
    <3>1. k - 1 \in DOMAIN wire' /\ 1 \in DOMAIN wire'
      BY <1>3, <2>2
    <3> QED
      BY <1>1, <1>4, <2>2, <3>1 DEF Named
  <2> QED
    BY <1>3, <2>1, <2>2
<1>6. WireOrder'
  <2>1. \A k \in DOMAIN wire' : IsData(wire'[k]) => OfFrame(k)'
    <3> SUFFICES ASSUME NEW k \in DOMAIN wire', IsData(wire'[k])
                 PROVE  OfFrame(k)'
      OBVIOUS
    <3>1. OfFrame(k)
      BY <1>2, <1>4 DEF WireOrder
    <3> QED
      BY <1>1, <1>4, <1>5, <3>1 DEF OfFrame
  <2>2. \A j, k \in DOMAIN wire' : j < k /\ IsData(wire'[j]) /\ IsData(wire'[k]) =>
           wire'[j].frame < wire'[k].frame
    BY <1>2, <1>4 DEF WireOrder
  <2>3. \A k \in DOMAIN wire' : ~wire'[k].whole => k = Len(wire')
    <3>1. \A k \in DOMAIN wire : wire[k].whole
      BY <1>1, <1>2 DEF WireOrder
    <3> QED
      BY <1>3, <1>4, <3>1
  <2> QED
    BY <1>1, <2>1, <2>2, <2>3 DEF WireOrder
<1>7. LogOrder'
  <2> SUFFICES ASSUME NEW i \in DOMAIN yielded
               PROVE  /\ yielded[i].frame \in 1 .. sent /\ yielded[i].whole
                      /\ AsExpected(yielded[i], frames[yielded[i].frame])'
                      /\ \A k \in DOMAIN wire' : IsData(wire'[k]) =>
                            yielded[i].frame < wire'[k].frame
    BY <1>1, <1>2 DEF LogOrder
  <2>1. /\ yielded[i].frame \in 1 .. sent /\ yielded[i].whole
        /\ AsExpected(yielded[i], frames[yielded[i].frame])
    BY <1>1, <1>2 DEF LogOrder
  <2>2. AsExpected(yielded[i], frames[yielded[i].frame])'
    BY <1>1, <2>1 DEF AsExpected
  <2>3. \A k \in DOMAIN wire' : IsData(wire'[k]) => yielded[i].frame < wire'[k].frame
    BY <1>2, <1>4 DEF LogOrder
  <2> QED
    BY <2>1, <2>2, <2>3
<1>8. Covered'
  <2>1. ASSUME NEW i \in DOMAIN yielded, NEW n \in 1 .. yielded[i].frame, Deliverable(frames[n])
        PROVE  Has(n)'
    <3>1. Has(n) /\ yielded[i].frame \in 1 .. sent
      BY <1>2, <2>1 DEF Covered, Gapless, LogOrder
    <3>2. \A k \in DOMAIN wire : IsData(wire[k]) => wire[k].frame # n
      <4> SUFFICES ASSUME NEW k \in DOMAIN wire, IsData(wire[k]) PROVE wire[k].frame # n
        OBVIOUS
      <4>1. yielded[i].frame < wire[k].frame /\ wire[k].frame \in 1 .. sent
        BY <1>2 DEF LogOrder, WireOrder, OfFrame
      <4> QED
        BY <3>1, <4>1
    <3> QED
      BY <1>1, <3>1, <3>2 DEF Has
  <2>2. ASSUME NEW k \in DOMAIN wire', IsData(wire'[k]),
               NEW n \in 1 .. wire[k].frame, Deliverable(frames[n])
        PROVE  Has(n)'
    <3>1. Has(n) /\ k \in DOMAIN wire /\ IsData(wire[k])
      BY <1>2, <1>4, <2>2 DEF Covered, Gapless
    <3>2. CASE \E i \in DOMAIN yielded : yielded[i].frame = n
      BY <1>1, <3>2 DEF Has
    <3>3. ASSUME NEW j \in DOMAIN wire, IsData(wire[j]), wire[j].frame = n
          PROVE  Has(n)'
      <4>1. wire[k].frame \in 1 .. sent /\ ~(n > wire[k].frame)
        BY <1>2, <3>1 DEF WireOrder, OfFrame
      <4>2. k < j => wire[k].frame < wire[j].frame
        BY <1>2, <3>1, <3>3 DEF WireOrder
      <4>3. ~(k < j)
        BY <3>3, <4>1, <4>2
      <4>4. j \in DOMAIN wire'
        BY <1>3, <4>3
      <4> QED
        BY <1>4, <3>3, <4>4 DEF Has
    <3> QED
      BY <3>1, <3>2, <3>3 DEF Has
  <2>3. \A i \in DOMAIN yielded' : Gapless(yielded[i].frame)'
    BY <1>1, <2>1 DEF Gapless
  <2>4. \A k \in DOMAIN wire' : IsData(wire'[k]) => Gapless(wire[k].frame)'
    BY <1>1, <1>4, <2>2 DEF Gapless
  <2> QED
    BY <1>1, <2>3, <2>4 DEF Covered
<1> QED
  BY <1>6, <1>7, <1>8 DEF OrderInv

\* The name in force after a line.
LEMMA NameAfter ==
    ASSUME ReadLine, Entries
    PROVE  /\ \A name : Announces(Head(wire), name) => event' = name
           /\ Blank(Head(wire)) => event' = None
           /\ Comment(Head(wire)) => event' = event
<1>1. event' = NextEvent(Head(wire))
  BY DEF ReadLine, Entries
<1> QED
  BY <1>1 DEF NextEvent, Announces, Blank, Comment

LEMMA ReadLineOrder ==
    ASSUME LogInv, OrderInv, ReadLine
    PROVE  OrderInv'
<1>1. WireOrder /\ LogOrder /\ Covered /\ Typed
  BY DEF OrderInv, LogInv
<1>2. /\ Open' = Open /\ Entries' = Entries /\ UNCHANGED <<reader, frames, sent, cut>>
      /\ \A f : Deliverable(f)' <=> Deliverable(f)
  BY DEF ReadLine, Open, Entries, fixed, platform, Deliverable
<1>3. PICK l : l = Head(wire)
  OBVIOUS
<1>4. /\ l = wire[1] /\ 1 \in DOMAIN wire /\ Len(wire) \in Nat /\ Len(wire) > 0
      /\ DOMAIN wire = 1 .. Len(wire) /\ DOMAIN wire' = 1 .. Len(wire) - 1
      /\ Len(wire') = Len(wire) - 1
      /\ \A k \in DOMAIN wire' : k + 1 \in DOMAIN wire /\ wire'[k] = wire[k + 1]
  <2>1. wire \in Seq(Line) /\ wire # <<>> /\ wire' = Tail(wire)
    BY <1>1 DEF Typed, ReadLine
  <2> QED
    BY <1>3, <2>1, WithoutHead
<1>5. \A k \in DOMAIN wire : k > 1 => k - 1 \in DOMAIN wire' /\ wire'[k - 1] = wire[k]
  <2> SUFFICES ASSUME NEW k \in DOMAIN wire, k > 1
               PROVE  k - 1 \in DOMAIN wire' /\ wire'[k - 1] = wire[k]
    OBVIOUS
  <2>1. k - 1 \in DOMAIN wire' /\ (k - 1) + 1 = k
    BY <1>4
  <2> QED
    BY <1>4, <2>1
<1>6. \/ /\ yielded' = yielded
         /\ IsData(l) => reader # "completion" /\ (l.text = "" \/ ~l.whole)
      \/ /\ IsData(l) /\ (reader = "completion" \/ l.text # "")
         /\ \E y \in Entry :
               /\ yielded' = Append(yielded, y)
               /\ y.frame = l.frame /\ y.whole = l.whole /\ y.data = l.text
               /\ y.event = IF reader = "entries" THEN event ELSE None
  BY <1>3, ReadFacts
<1>7. yielded \in Seq(Entry)
  BY <1>1 DEF Typed
<1>8. IsData(l) => OfFrame(1)
  BY <1>1, <1>4 DEF WireOrder
<1>9. \A i \in DOMAIN yielded : yielded[i].whole
  BY <1>1, <1>4 DEF LogOrder
<1>10. \A name : \A k \in DOMAIN wire' : Entries /\ Named(k + 1, name) => Named(k, name)'
  <2> SUFFICES ASSUME NEW k \in DOMAIN wire', NEW name, Entries, Named(k + 1, name)
               PROVE  Named(k, name)'
    OBVIOUS
  <2>1. \/ Announces(wire[k], name)
        \/ Blank(wire[k]) /\ name = None
        \/ k = 1 /\ Comment(wire[1]) /\ event = name
    BY <1>4 DEF Named
  <2>2. CASE k = 1
    <3>1. event' = name
      BY <1>3, <1>4, <2>1, <2>2, NameAfter
    <3> QED
      BY <2>2, <3>1 DEF Named
  <2>3. CASE k > 1
    <3>1. k \in DOMAIN wire
      BY <1>4
    <3>2. wire'[k - 1] = wire[k]
      BY <1>5, <2>3, <3>1
    <3> QED
      BY <2>1, <2>3, <3>2 DEF Named
  <2> QED
    BY <1>4, <2>2, <2>3
<1>11. WireOrder'
  <2>1. \A k \in DOMAIN wire' : IsData(wire'[k]) => OfFrame(k)'
    <3> SUFFICES ASSUME NEW k \in DOMAIN wire', IsData(wire'[k])
                 PROVE  OfFrame(k)'
      OBVIOUS
    <3>1. OfFrame(k + 1)
      BY <1>1, <1>4 DEF WireOrder
    <3> QED
      BY <1>2, <1>4, <1>10, <3>1 DEF OfFrame
  <2>2. \A j, k \in DOMAIN wire' : j < k /\ IsData(wire'[j]) /\ IsData(wire'[k]) =>
           wire'[j].frame < wire'[k].frame
    <3> SUFFICES ASSUME NEW j \in DOMAIN wire', NEW k \in DOMAIN wire', j < k,
                        IsData(wire'[j]), IsData(wire'[k])
                 PROVE  wire'[j].frame < wire'[k].frame
      OBVIOUS
    <3>1. j + 1 < k + 1
      BY <1>4
    <3> QED
      BY <1>1, <1>4, <3>1 DEF WireOrder
  <2>3. \A k \in DOMAIN wire' : ~wire'[k].whole => k = Len(wire') /\ cut' /\ ~Open'
    <3> SUFFICES ASSUME NEW k \in DOMAIN wire', ~wire'[k].whole
                 PROVE  k = Len(wire') /\ cut' /\ ~Open'
      OBVIOUS
    <3>1. k + 1 = Len(wire) /\ cut /\ ~Open
      BY <1>1, <1>4 DEF WireOrder
    <3> QED
      BY <1>2, <1>4, <3>1
  <2>4. Open' /\ Entries' => AtRest'
    <3> SUFFICES ASSUME Open, Entries PROVE AtRest'
      BY <1>2
    <3>1. AtRest
      BY <1>1 DEF WireOrder
    <3>2. CASE Len(wire) = 1
      <4>1. event' = None /\ Len(wire') = 0
        BY <1>3, <1>4, <3>1, <3>2, NameAfter DEF AtRest
      <4> QED
        BY <4>1 DEF AtRest
    <3>3. CASE Len(wire) > 1
      <4>1. Blank(wire[Len(wire)])
        BY <1>4, <3>1, <3>3 DEF AtRest
      <4>2. wire'[Len(wire')] = wire[Len(wire)] /\ Len(wire') > 0
        BY <1>4, <1>5, <3>3
      <4> QED
        BY <4>1, <4>2 DEF AtRest
    <3> QED
      BY <1>4, <3>2, <3>3
  <2> QED
    BY <2>1, <2>2, <2>3, <2>4 DEF WireOrder
<1>12. \A i \in DOMAIN yielded, k \in DOMAIN wire' : IsData(wire'[k]) =>
          yielded[i].frame < wire'[k].frame
  BY <1>1, <1>4 DEF LogOrder
<1>13. \A i \in DOMAIN yielded : \E f : /\ yielded[i].frame \in 1 .. sent
                                       /\ f = frames[yielded[i].frame]
                                       /\ \A y : y = yielded[i] => AsExpected(y, f)'
  <2>1. \A y, f : AsExpected(y, f) => AsExpected(y, f)'
    BY <1>2 DEF AsExpected
  <2> QED
    BY <1>1, <2>1 DEF LogOrder
<1>14. CASE yielded' = yielded /\ (IsData(l) => reader # "completion" /\ (l.text = "" \/ ~l.whole))
  <2>1. LogOrder'
    BY <1>1, <1>2, <1>9, <1>12, <1>13, <1>14 DEF LogOrder
  <2>2. ASSUME NEW n, n \in 1 .. sent, Deliverable(frames[n]), Has(n),
               IsData(l) => l.whole \/ l.frame # n
        PROVE  Has(n)'
    <3>1. CASE \E i \in DOMAIN yielded : yielded[i].frame = n
      BY <1>14, <3>1 DEF Has
    <3>2. ASSUME NEW k \in DOMAIN wire, IsData(wire[k]), wire[k].frame = n
          PROVE  Has(n)'
      <4>1. CASE k > 1
        BY <1>5, <3>2, <4>1 DEF Has
      <4>2. CASE k = 1
        <5>1. IsData(l) /\ l.frame = n /\ l.whole
          BY <1>4, <2>2, <3>2, <4>2
        <5>2. l.text = "" /\ reader # "completion"
          BY <1>14, <5>1
        <5>3. ~Deliverable(frames[n])
          BY <1>4, <1>8, <5>1, <5>2 DEF OfFrame, Deliverable
        <5> QED
          BY <2>2, <5>3
      <4> QED
        BY <1>4, <4>1, <4>2
    <3> QED
      BY <2>2, <3>1, <3>2 DEF Has
  <2>3. ~l.whole => ~Open /\ DOMAIN wire' = {}
    BY <1>1, <1>4 DEF WireOrder
  <2>4. Open' => Gapless(sent)'
    <3> SUFFICES ASSUME Open, NEW n \in 1 .. sent, Deliverable(frames[n]) PROVE Has(n)'
      BY <1>2 DEF Gapless
    <3> QED
      BY <1>1, <2>2, <2>3 DEF Covered, Gapless
  <2>5. \A i \in DOMAIN yielded' : Gapless(yielded[i].frame)'
    <3> SUFFICES ASSUME NEW i \in DOMAIN yielded, NEW n \in 1 .. yielded[i].frame,
                        Deliverable(frames[n])
                 PROVE  Has(n)'
      BY <1>2, <1>14 DEF Gapless
    <3>1. Has(n) /\ yielded[i].frame \in 1 .. sent
      BY <1>1, <1>13 DEF Covered, Gapless
    <3>2. n \in 1 .. sent
      BY <1>1, <3>1 DEF Typed
    <3>3. IsData(l) => l.frame # n
      <4>1. IsData(l) => yielded[i].frame < l.frame /\ l.frame \in 1 .. sent
        BY <1>1, <1>4, <1>8 DEF LogOrder, OfFrame
      <4> QED
        BY <3>1, <4>1
    <3> QED
      BY <2>2, <3>1, <3>2, <3>3
  <2>6. \A k \in DOMAIN wire' : IsData(wire'[k]) => Gapless(wire[k].frame)'
    <3> SUFFICES ASSUME NEW k \in DOMAIN wire', IsData(wire'[k]),
                        NEW n \in 1 .. wire'[k].frame, Deliverable(frames[n])
                 PROVE  Has(n)'
      BY <1>2 DEF Gapless
    <3>1. Has(n) /\ wire'[k].frame \in 1 .. sent
      BY <1>1, <1>4 DEF Covered, Gapless, WireOrder, OfFrame
    <3>2. n \in 1 .. sent
      BY <1>1, <3>1 DEF Typed
    <3> QED
      BY <2>2, <2>3, <3>1, <3>2
  <2>7. Covered'
    BY <2>4, <2>5, <2>6 DEF Covered
  <2> QED
    BY <1>11, <2>1, <2>7 DEF OrderInv
<1>15. ASSUME IsData(l), reader = "completion" \/ l.text # "",
              NEW y \in Entry, yielded' = Append(yielded, y),
              y.frame = l.frame, y.whole = l.whole, y.data = l.text,
              y.event = IF reader = "entries" THEN event ELSE None
       PROVE  OrderInv'
  <2> /\ yielded' = Append(yielded, y) /\ IsData(l)
      /\ y.frame = l.frame /\ y.whole = l.whole /\ y.data = l.text
    BY <1>15
  <2>1. PICK m \in Nat : m = Len(yielded) + 1
    BY <1>7
  <2>2. /\ DOMAIN yielded' = 1 .. m /\ Len(yielded') = m
        /\ \A i \in DOMAIN yielded : i \in 1 .. m /\ i < m /\ yielded'[i] = yielded[i]
        /\ yielded'[m] = y
        /\ \A i \in 1 .. m : i \in DOMAIN yielded \/ i = m
    <3>1. /\ Len(yielded') = Len(yielded) + 1 /\ DOMAIN yielded' = 1 .. Len(yielded) + 1
          /\ DOMAIN yielded = 1 .. Len(yielded) /\ Len(yielded) \in Nat
          /\ \A i \in DOMAIN yielded : yielded'[i] = yielded[i]
          /\ yielded'[Len(yielded) + 1] = y
      BY <1>7, Appended
    <3> QED
      BY <2>1, <3>1
  <2>3. y.frame \in 1 .. sent /\ AsExpected(y, frames[y.frame])
    <3>1. \A name : Named(1, name) => event = name
      BY DEF Named
    <3>2. Entries => event = frames[l.frame].event
      BY <1>4, <1>8, <1>15, <3>1 DEF OfFrame
    <3> QED
      BY <1>4, <1>8, <1>15, <3>2 DEF OfFrame, AsExpected, Entries, Deliverable
  <2>4. AsExpected(y, frames[y.frame])'
    BY <1>2, <2>3 DEF AsExpected
  <2>5. \A i \in DOMAIN yielded : yielded[i].frame < y.frame
    BY <1>1, <1>4 DEF LogOrder
  <2>6. \A k \in DOMAIN wire' : IsData(wire'[k]) => y.frame < wire'[k].frame
    <3> SUFFICES ASSUME NEW k \in DOMAIN wire', IsData(wire'[k])
                 PROVE  y.frame < wire'[k].frame
      OBVIOUS
    <3>1. 1 < k + 1 /\ k + 1 \in DOMAIN wire /\ IsData(wire[k + 1]) /\ IsData(wire[1])
      BY <1>4
    <3>2. wire[1].frame < wire[k + 1].frame
      BY <1>1, <1>4, <3>1 DEF WireOrder
    <3> QED
      BY <1>4, <3>2
  <2>7. ~y.whole => Len(wire') = 0 /\ cut' /\ ~Open'
    BY <1>1, <1>2, <1>4 DEF WireOrder
  <2>8. LogOrder'
    <3>1. ASSUME NEW i \in DOMAIN yielded'
          PROVE  /\ yielded'[i].frame \in 1 .. sent'
                 /\ AsExpected(yielded[i], frames[yielded[i].frame])'
                 /\ ~yielded'[i].whole => i = m /\ Len(wire') = 0 /\ cut' /\ ~Open'
                 /\ \A k \in DOMAIN wire' : IsData(wire'[k]) => yielded'[i].frame < wire'[k].frame
      <4>1. CASE i \in DOMAIN yielded
        <5>1. /\ AsExpected(yielded[i], frames[yielded[i].frame])'
              /\ yielded[i].frame \in 1 .. sent
          BY <1>2, <1>13, <2>2, <4>1
        <5> QED
          BY <1>2, <1>9, <1>12, <2>2, <4>1, <5>1
      <4>2. CASE i = m
        BY <1>2, <2>2, <2>3, <2>4, <2>6, <2>7, <4>2 DEF AsExpected
      <4> QED
        BY <2>2, <4>1, <4>2
    <3>2. \A i, j \in DOMAIN yielded' : i < j => yielded'[i].frame < yielded'[j].frame
      <4> SUFFICES ASSUME NEW i \in 1 .. m, NEW j \in 1 .. m, i < j
                   PROVE  yielded'[i].frame < yielded'[j].frame
        BY <2>2
      <4>1. i \in DOMAIN yielded
        BY <2>2
      <4>2. CASE j = m
        BY <2>2, <2>5, <4>1, <4>2
      <4>3. CASE j # m
        BY <1>1, <2>2, <4>1, <4>3 DEF LogOrder
      <4> QED
        BY <4>2, <4>3
    <3> QED
      BY <2>2, <3>1, <3>2 DEF LogOrder
  <2>9. ASSUME NEW n, Has(n)
        PROVE  Has(n)'
    <3>1. CASE \E i \in DOMAIN yielded : yielded[i].frame = n
      BY <2>2, <3>1 DEF Has
    <3>2. ASSUME NEW k \in DOMAIN wire, IsData(wire[k]), wire[k].frame = n
          PROVE  Has(n)'
      <4>1. CASE k > 1
        BY <1>5, <3>2, <4>1 DEF Has
      <4>2. CASE k = 1
        <5>1. yielded'[m].frame = n /\ m \in DOMAIN yielded'
          BY <1>4, <2>1, <2>2, <3>2, <4>2
        <5> QED
          BY <5>1 DEF Has
      <4> QED
        BY <1>4, <4>1, <4>2
    <3> QED
      BY <2>9, <3>1, <3>2 DEF Has
  <2>10. \A n : Gapless(n) => Gapless(n)'
    BY <1>2, <2>9 DEF Gapless
  <2>11. Covered'
    <3>1. Open' => Gapless(sent)'
      BY <1>1, <1>2, <2>10 DEF Covered, Gapless
    <3>2. Gapless(l.frame)
      BY <1>1, <1>4 DEF Covered
    <3>3. ASSUME NEW i \in DOMAIN yielded', NEW n \in 1 .. yielded'[i].frame,
                 Deliverable(frames[n])
          PROVE  Has(n)'
      <4>1. CASE i \in DOMAIN yielded
        BY <1>1, <2>2, <2>9, <3>3, <4>1 DEF Covered, Gapless
      <4>2. CASE i = m
        BY <2>2, <2>9, <3>2, <3>3, <4>2 DEF Gapless
      <4> QED
        BY <2>2, <4>1, <4>2
    <3>4. \A k \in DOMAIN wire' : IsData(wire'[k]) => Gapless(wire[k].frame)'
      <4> SUFFICES ASSUME NEW k \in DOMAIN wire', IsData(wire'[k]),
                          NEW n \in 1 .. wire'[k].frame, Deliverable(frames[n])
                   PROVE  Has(n)'
        BY <1>2 DEF Gapless
      <4> QED
        BY <1>1, <1>4, <2>9 DEF Covered, Gapless
    <3>5. \A i \in DOMAIN yielded' : Gapless(yielded[i].frame)'
      BY <1>2, <3>3 DEF Gapless
    <3> QED
      BY <3>1, <3>4, <3>5 DEF Covered
  <2> QED
    BY <1>11, <2>8, <2>11 DEF OrderInv
<1> QED
  BY <1>6, <1>14, <1>15

LEMMA OrderInit == Init => OrderInv
<1> SUFFICES ASSUME Init PROVE OrderInv
  OBVIOUS
<1>1. wire = <<>> /\ yielded = <<>> /\ sent = 0 /\ event = None
  BY DEF Init
<1>2. WireOrder /\ LogOrder
  BY <1>1 DEF WireOrder, LogOrder, AtRest
<1>3. Covered
  BY <1>1 DEF Covered, Gapless
<1> QED
  BY <1>2, <1>3 DEF OrderInv

LEMMA OrderNext == LogInv /\ OrderInv /\ [Next]_vars => OrderInv'
<1> SUFFICES ASSUME LogInv, OrderInv, [Next]_vars PROVE OrderInv'
  OBVIOUS
<1>1. CASE Log \/ Finish
  <2>1. frames \in Seq(Frame) /\ sent \in 0 .. Len(frames)
    BY DEF LogInv, Typed
  <2>2. \E f : frames' = Append(frames, f)
    BY <1>1 DEF Log, Finish
  <2>3. \A n \in 1 .. sent : frames'[n] = frames[n]
    BY <2>1, <2>2
  <2> QED
    BY <1>1, <2>3, QuietOrder DEF Log, Finish, Open
<1>2. CASE SendFrame \/ SendComment \/ Cut \/ Break \/ ReadLine
  BY <1>2, SendFrameOrder, SendCommentOrder, SeveredOrder, ReadLineOrder
<1>3. CASE CloseStream
  BY <1>3, QuietOrder DEF CloseStream, Open
<1>4. CASE EndOfFile \/ RaiseBroken \/ IdleTimeout
  BY <1>4, QuietOrder DEF EndOfFile, RaiseBroken, IdleTimeout, platform, Open
<1>5. CASE UNCHANGED vars
  BY <1>5, QuietOrder DEF vars, fixed, Open
<1> QED
  BY <1>1, <1>2, <1>3, <1>4, <1>5 DEF Next, Platform, Client

\* OrderInv holds in every reachable state: lines and entries are in the order
\* of their frames, and every frame before one that is there is there too.
THEOREM OrderInvariant == Spec => [](LogInv /\ OrderInv)
  BY LogInit, LogNext, OrderInit, OrderNext, PTL DEF Spec

\* However the connection ends, the iterator delivers a prefix of the log: no
\* frame lost from its middle, none twice, each under the name of its own event,
\* and only the very last piece of a completion cut short.
THEOREM LogIsInOrder == Spec => []InOrder
<1>1. LogInv /\ OrderInv => InOrder
  <2> SUFFICES ASSUME LogInv, OrderInv PROVE InOrder
    OBVIOUS
  <2>1. Typed /\ WireOrder /\ LogOrder /\ Covered
    BY DEF LogInv, OrderInv
  <2>2. \A n \in 1 .. sent : n \in DOMAIN frames
    BY <2>1 DEF Typed
  <2>3. ASSUME NEW i \in DOMAIN yielded
        PROVE  /\ yielded[i].frame \in DOMAIN frames /\ Deliverable(frames[yielded[i].frame])
               /\ [event |-> yielded[i].event, data |-> yielded[i].data]
                    = Expected(frames[yielded[i].frame])
               /\ ~yielded[i].whole => i = Len(yielded) /\ wire = <<>> /\ cut
    <3>1. /\ yielded[i].frame \in 1 .. sent
          /\ AsExpected(yielded[i], frames[yielded[i].frame])
          /\ ~yielded[i].whole => i = Len(yielded) /\ Len(wire) = 0 /\ cut
      BY <2>1 DEF LogOrder
    <3>2. Len(wire) = 0 => wire = <<>>
      BY <2>1 DEF Typed
    <3> QED
      BY <2>2, <3>1, <3>2 DEF AsExpected, Expected, Entries
  <2>4. ASSUME NEW i \in DOMAIN yielded, NEW n \in 1 .. yielded[i].frame,
               Deliverable(frames[n])
        PROVE  \E j \in 1 .. i : yielded[j].frame = n
    <3>1. Has(n) /\ yielded[i].frame \in 1 .. sent
      BY <2>1, <2>4 DEF Covered, Gapless, LogOrder
    <3>2. \A k \in DOMAIN wire : IsData(wire[k]) => wire[k].frame # n
      <4> SUFFICES ASSUME NEW k \in DOMAIN wire, IsData(wire[k]) PROVE wire[k].frame # n
        OBVIOUS
      <4>1. yielded[i].frame < wire[k].frame /\ wire[k].frame \in 1 .. sent
        BY <2>1 DEF LogOrder, WireOrder, OfFrame
      <4> QED
        BY <3>1, <4>1
    <3>3. PICK j \in DOMAIN yielded : yielded[j].frame = n
      BY <3>1, <3>2 DEF Has
    <3>4. i < j => yielded[i].frame < yielded[j].frame
      BY <2>1 DEF LogOrder
    <3>5. ~(i < j)
      BY <3>1, <3>3, <3>4
    <3>6. DOMAIN yielded = 1 .. Len(yielded) /\ Len(yielded) \in Nat
      BY <2>1 DEF Typed
    <3> QED
      BY <3>3, <3>5, <3>6
  <2> QED
    BY <2>1, <2>3, <2>4 DEF InOrder, LogOrder
<1> QED
  BY <1>1, OrderInvariant, PTL

=============================================================================
