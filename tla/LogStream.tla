------------------------------ MODULE LogStream ------------------------------
(***************************************************************************)
(* The client's readers of server-sent events: the log of a build, and the *)
(* pieces of a completion.  The platform writes frames while the work goes *)
(* on; a connection may end anywhere, within a line too.  http.client      *)
(* tells the reader of a body that ends early only when it ends inside a   *)
(* chunk: cut between two chunks, or without chunks, it is a normal end of *)
(* file and what there is of the last line is its last line.               *)
(***************************************************************************)
EXTENDS Naturals, Sequences, SequencesExt

CONSTANT MaxFrames   \* bound: frames of a stream, its last one not counted

Readers == {"entries",      \* stream_build_log_entries
            "logs",         \* stream_build_logs, of `builds logs`
            "completion"}   \* invoke_stream, of `run` and `invoke`
Ended == {"published", "failed", "cancelled"}
None == "None"

\* What a frame's data says: a log message, a status, nothing.
Data == {"message", "running", ""} \cup Ended
Frame == [event : {None, "log", "end"}, data : Data]

\* A line of the stream: a comment is "other", a blank line "".  Of a line
\* that is not whole, the data is a proper prefix.  The number of its frame is
\* history: no reader knows it.
Line == [field : {"event", "data", "other", ""}, text : {"", "log", "end"} \cup Data,
         whole : BOOLEAN, frame : Nat]

VARIABLES
    reader, follow,   \* who reads; whether it asked for the log as it grows
    build,            \* status of the build, or of the generation, at the platform
    frames,           \* every frame of its log so far
    sent,             \* how many of them are on the connection
    wire,             \* lines on the connection, not read yet
    conn,             \* "open", "eof", "broken"
    cut,              \* history: the connection ended before the stream did
    beat,             \* flips with every comment the platform sends
    event,            \* current_event
    yielded,          \* history: what the iterator yielded
    pc                \* "reading", "done", "raised"

vars == <<reader, follow, build, frames, sent, wire, conn, cut, beat,
          event, yielded, pc>>

platform == <<build, frames, sent, cut, beat>>
fixed == <<reader, follow>>

Init ==
    /\ reader \in Readers /\ follow \in BOOLEAN
    /\ reader = "completion" => follow   \* which ends with its generation
    /\ build = "running" /\ frames = <<>> /\ sent = 0
    /\ wire = <<>> /\ conn = "open" /\ cut = FALSE /\ beat = FALSE
    /\ event = None /\ yielded = <<>> /\ pc = "reading"

-----------------------------------------------------------------------------
\* The platform and the network (external).

L(f, t, n) == [field |-> f, text |-> t, whole |-> TRUE, frame |-> n]

LinesOf(f, n) == (IF f.event = None THEN <<>> ELSE <<L("event", f.event, n)>>)
                 \o <<L("data", f.data, n), L("", "", n)>>

\* The work goes on; its last frame is the status, under the name "end" or none.
Log ==
    /\ build = "running" /\ Len(frames) < MaxFrames
    /\ \E e \in {None, "log"}, d \in {"message", "running", ""} :
          frames' = Append(frames, [event |-> e, data |-> d])
    /\ UNCHANGED <<fixed, build, sent, wire, conn, cut, beat, event, yielded, pc>>

Finish ==
    /\ build = "running"
    /\ build' \in Ended
    /\ \E e \in {None, "end"} : frames' = Append(frames, [event |-> e, data |-> build'])
    /\ UNCHANGED <<fixed, sent, wire, conn, cut, beat, event, yielded, pc>>

SendFrame ==
    /\ conn = "open" /\ sent < Len(frames)
    /\ wire' = wire \o LinesOf(frames[sent + 1], sent + 1)
    /\ sent' = sent + 1
    /\ UNCHANGED <<fixed, build, frames, conn, cut, beat, event, yielded, pc>>

\* A comment keeps the connection alive; one at a time is enough.
SendComment ==
    /\ conn = "open" /\ wire = <<>> /\ pc = "reading"
    /\ wire' = <<L("other", "", 0)>>
    /\ beat' = ~beat
    /\ UNCHANGED <<fixed, build, frames, sent, conn, cut, event, yielded, pc>>

\* The platform ends the stream: with the build if it follows it, else with
\* what there is.
CloseStream ==
    /\ conn = "open" /\ sent = Len(frames) /\ (follow => build # "running")
    /\ conn' = "eof"
    /\ UNCHANGED <<fixed, build, frames, sent, wire, cut, beat, event, yielded, pc>>

\* What is left of the wire when only n lines and a bit of the next arrive.
Remains(n) ==
    {SubSeq(wire, 1, n)}
    \cup (IF n < Len(wire) /\ wire[n + 1].field = "data" /\ wire[n + 1].text # ""
          THEN {Append(SubSeq(wire, 1, n), [wire[n + 1] EXCEPT !.whole = FALSE])} ELSE {})

\* It ends early and the reader is not told.
Cut ==
    /\ conn = "open"
    /\ \E n \in 0..Len(wire) : wire' \in Remains(n)
    /\ conn' = "eof" /\ cut' = TRUE
    /\ UNCHANGED <<fixed, build, frames, sent, beat, event, yielded, pc>>

\* It ends early by a reset or inside a chunk: reading on raises.
Break ==
    /\ conn = "open"
    /\ \E n \in 0..Len(wire) : wire' = SubSeq(wire, 1, n)
    /\ conn' = "broken" /\ cut' = TRUE
    /\ UNCHANGED <<fixed, build, frames, sent, beat, event, yielded, pc>>

Platform == Log \/ Finish \/ SendFrame \/ SendComment \/ CloseStream \/ Cut \/ Break

-----------------------------------------------------------------------------
\* The client.

\* Fault: every status is final.
AnyStatus(name, d) == name = "end" \/ d # "message"

\* Fault: the status is not looked at.
NameOnly(name, d) == name = "end"

\* stream_build_log_entries: the entry is the build's last.
terminal(name, d) == name = "end" \/ d \in Ended

Yield(name, l) ==
    yielded' = Append(yielded,
        [event |-> IF reader = "entries" THEN name ELSE None,
         data |-> l.text, whole |-> l.whole, frame |-> l.frame,
         terminal |-> reader = "entries" /\ terminal(name, l.text)])

\* current_event after a line: a blank one ends the frame.
NextEvent(l) ==
    CASE l.field = "event" -> l.text
      [] l.field = "" -> None
      [] OTHER -> event

\* The callers of _get_stream decode JSON, which a cut object never is;
\* _post_stream passes on what is there.
Undecodable(l) == ~l.whole /\ reader # "completion"

\* One turn of the loop over the response.  _get_stream takes an empty data
\* line, stripped to "data:", for no data at all.
ReadLine ==
    /\ pc = "reading" /\ wire # <<>>
    /\ wire' = Tail(wire)
    /\ event' = IF reader = "completion" THEN None ELSE NextEvent(Head(wire))
    /\ LET l == Head(wire) IN
         IF l.field = "data" /\ (reader = "completion" \/ l.text # "")
         THEN IF Undecodable(l)
              THEN pc' = "raised" /\ UNCHANGED yielded
              ELSE Yield(event, l) /\ UNCHANGED pc
         ELSE UNCHANGED <<yielded, pc>>
    /\ UNCHANGED <<fixed, platform, conn>>

\* The iterator is exhausted, and the command that printed it ends well.
EndOfFile ==
    /\ pc = "reading" /\ wire = <<>> /\ conn = "eof"
    /\ pc' = "done"
    /\ UNCHANGED <<fixed, platform, wire, conn, event, yielded>>

\* Fault: a broken stream is asked for again, from its start.
OpenAgain ==
    /\ pc = "reading" /\ wire = <<>> /\ conn = "broken"
    /\ conn' = "open" /\ sent' = 0
    /\ UNCHANGED <<fixed, build, frames, cut, beat, wire, event, yielded, pc>>

\* ConnectionResetError or IncompleteRead: _open, which retries, has returned.
RaiseBroken ==
    /\ pc = "reading" /\ wire = <<>> /\ conn = "broken"
    /\ pc' = "raised"
    /\ UNCHANGED <<fixed, platform, wire, conn, event, yielded>>

\* Fault: the socket waits for as long as it takes.
IdleNever == FALSE

\* timeout_seconds without a byte, of a build that is silent too: TimeoutError.
IdleTimeout ==
    /\ pc = "reading" /\ wire = <<>> /\ conn = "open"
    /\ pc' = "raised"
    /\ UNCHANGED <<fixed, platform, wire, conn, event, yielded>>

Client == ReadLine \/ EndOfFile \/ RaiseBroken \/ IdleTimeout

Next == Platform \/ Client

\* The client's loop runs; the platform may stop at any point.
Spec == Init /\ [][Next]_vars /\ WF_vars(Client)

-----------------------------------------------------------------------------
\* Properties.

\* What the reader is to deliver of a frame, and of which frames.
Expected(f) == [event |-> IF reader = "entries" THEN f.event ELSE None, data |-> f.data]
Deliverable(f) == reader = "completion" \/ f.data # ""

\* However the connection ends, the iterator delivers a prefix of the log:
\* no frame lost from its middle, none twice, each under the name of its own
\* event, and only the very last piece of a completion cut short.
InOrder ==
    /\ \A i \in DOMAIN yielded :
          LET y == yielded[i] IN
          /\ y.frame \in DOMAIN frames /\ Deliverable(frames[y.frame])
          /\ [event |-> y.event, data |-> y.data] = Expected(frames[y.frame])
          /\ ~y.whole => i = Len(yielded) /\ wire = <<>> /\ cut
          /\ \A n \in 1 .. y.frame : Deliverable(frames[n]) =>
                \E j \in 1 .. i : yielded[j].frame = n
    /\ \A i, j \in DOMAIN yielded : i < j => yielded[i].frame < yielded[j].frame

\* An entry marked terminal is the last of a build that has ended.
TerminalIsTrue ==
    \A i \in DOMAIN yielded : yielded[i].terminal =>
        build # "running" /\ i = Len(yielded)

\* A followed log that ended because the build did has told so.
EndIsTold ==
    pc = "done" /\ follow /\ ~cut /\ reader = "entries" =>
        yielded # <<>> /\ Last(yielded).terminal

\* The loop ends unless the platform keeps talking: a silent connection runs
\* into the socket's timeout, but nothing limits one that sends comments.
EndsUnlessTalking ==
    <>[][beat' = beat]_vars => <>(pc # "reading")

=============================================================================
