---------------------------- MODULE InputEvents ----------------------------
(***************************************************************************)
(* The way of the terminal's input to the program (jux-cli/tui/events): a  *)
(* thread reads key and mouse reports and adds up bursts of the wheel; the *)
(* thread of run_app_loop takes them from a channel and leaves out all but *)
(* the latest of the queued drags.                                         *)
(*                                                                         *)
(* An event is known by its number in the order of input.                  *)
(***************************************************************************)
EXTENDS Integers, Sequences, SequencesExt, FiniteSetsExt

CONSTANTS
    Kinds,          \* the kinds of input: keys, wheel, drags, releases
    Rows,           \* wheel_delta: rows scrolled by a report
    MaxInput        \* bound: events of the terminal

ASSUME InputAssumption ==
    /\ Kinds \subseteq {"key", "wheel_up", "wheel_down", "drag", "release"}
    /\ Rows \in Nat \ {0} /\ MaxInput \in Nat

VARIABLES
    input,      \* all input so far
    taken,      \* how much of it the reader has taken from the terminal
    reader,     \* the reader thread, and the rows in pending_scroll
    channel,    \* the channel between the threads
    pending,    \* EventHandler::pending, a sequence of at most one item
    app,        \* run_app_loop
    got, rows   \* history: the events it was given, and the rows scrolled

vars == <<input, taken, reader, channel, pending, app, got, rows>>
Numbers == 1..MaxInput
NoEvent == 0

WheelDelta(kind) == CASE kind = "wheel_up" -> Rows
                      [] kind = "wheel_down" -> -Rows
                      [] OTHER -> 0
IsWheel(n) == input[n] \in {"wheel_up", "wheel_down"}

\* TuiEvent
Terminal(n) == [is |-> "Terminal", number |-> n, delta |-> 0]
ScrollDelta(delta) == [is |-> "ScrollDelta", number |-> NoEvent, delta |-> delta]
ClosedEvent == [is |-> "Closed", number |-> NoEvent, delta |-> 0]
IsDrag(item) == item.is = "Terminal" /\ input[item.number] = "drag"

Idle == [pc |-> "poll", delta |-> 0]

Init ==
    /\ input = <<>> /\ taken = 0
    /\ reader = Idle
    /\ channel = <<>> /\ pending = <<>>
    /\ app = [pc |-> "receive", latest |-> NoEvent]
    /\ got = <<>> /\ rows = 0

-----------------------------------------------------------------------------
\* The user types, turns the wheel, drags and releases.
Input ==
    /\ Len(input) < MaxInput
    /\ \E kind \in Kinds : input' = Append(input, kind)
    /\ UNCHANGED <<taken, reader, channel, pending, app, got, rows>>

-----------------------------------------------------------------------------
(***************************************************************************)
(* The reader.  A send to a channel without a receiver ends it.            *)
(***************************************************************************)
Ready == taken < Len(input)
Upcoming == taken + 1
Sends(items, after) ==
    IF app.pc = "off" THEN reader' = [reader EXCEPT !.pc = "done"] /\ UNCHANGED channel
    ELSE reader' = after /\ channel' = channel \o items

\* A wheel report adds to what is pending and opens a burst; anything else is
\* sent on, past a scroll that may still be pending.
ReadEvent ==
    /\ reader.pc = "poll" /\ Ready
    /\ taken' = Upcoming
    /\ IF IsWheel(Upcoming)
       THEN /\ reader' = [pc |-> "burst", delta |-> reader.delta + WheelDelta(input[Upcoming])]
            /\ UNCHANGED channel
       ELSE Sends(<<Terminal(Upcoming)>>, reader)
    /\ UNCHANGED <<input, pending, app, got, rows>>

\* The burst goes on, or ends with an event of another kind.
ReadBurst ==
    /\ reader.pc = "burst" /\ Ready
    /\ taken' = Upcoming
    /\ IF IsWheel(Upcoming)
       THEN /\ reader' = [reader EXCEPT !.delta = @ + WheelDelta(input[Upcoming])]
            /\ UNCHANGED channel
       ELSE Sends(<<ScrollDelta(reader.delta), Terminal(Upcoming)>>, Idle)
    /\ UNCHANGED <<input, pending, app, got, rows>>

\* Nothing is left to read, or reading fails.
BurstEnds ==
    /\ reader.pc = "burst"
    /\ reader' = [reader EXCEPT !.pc = "look"]
    /\ UNCHANGED <<input, taken, channel, pending, app, got, rows>>

\* The scroll is sent if there is still nothing to read; else it stays pending.
LookAgain ==
    /\ reader.pc = "look"
    /\ IF Ready THEN reader' = [reader EXCEPT !.pc = "poll"] /\ UNCHANGED channel
       ELSE Sends(<<ScrollDelta(reader.delta)>>, Idle)
    /\ UNCHANGED <<input, taken, pending, app, got, rows>>

\* The terminal is gone.
ReadFails ==
    /\ reader.pc = "poll"
    /\ Sends(<<ClosedEvent>>, [reader EXCEPT !.pc = "done"])
    /\ UNCHANGED <<input, taken, pending, app, got, rows>>

-----------------------------------------------------------------------------
(***************************************************************************)
(* EventHandler::recv_timeout and coalesce_drag_events, which drain the    *)
(* channel as long as it holds drags, and what run_app_loop does with the  *)
(* event.                                                                  *)
(***************************************************************************)
Dispatched(item) ==
    /\ app' = [pc |-> IF item.is = "Closed" THEN "off" ELSE "receive", latest |-> NoEvent]
    /\ got' = IF item.is = "Terminal" THEN Append(got, item.number) ELSE got
    /\ rows' = rows + item.delta

Taken(item) ==
    IF IsDrag(item)
    THEN app' = [pc |-> "coalesce", latest |-> item.number] /\ UNCHANGED <<got, rows>>
    ELSE Dispatched(item)

Receive ==
    /\ app.pc = "receive"
    /\ IF pending # <<>>
       THEN /\ pending' = <<>> /\ Taken(pending[1])
            /\ UNCHANGED channel
       ELSE /\ channel # <<>>
            /\ channel' = Tail(channel) /\ Taken(Head(channel))
            /\ UNCHANGED pending
    /\ UNCHANGED <<input, taken, reader>>

CoalesceDropsNext ==                \* mutant: the event that ends the drags is dropped
    /\ app.pc = "coalesce"
    /\ IF channel # <<>> /\ IsDrag(Head(channel))
       THEN /\ app' = [app EXCEPT !.latest = Head(channel).number]
            /\ UNCHANGED <<pending, got, rows>>
       ELSE /\ UNCHANGED pending
            /\ Dispatched(Terminal(app.latest))
    /\ channel' = IF channel = <<>> THEN channel ELSE Tail(channel)
    /\ UNCHANGED <<input, taken, reader>>

CoalesceKeepsFirst ==               \* mutant: the first of the queued drags is kept
    /\ app.pc = "coalesce"
    /\ IF channel # <<>> /\ IsDrag(Head(channel))
       THEN UNCHANGED <<app, pending, got, rows>>
       ELSE /\ pending' = IF channel = <<>> THEN <<>> ELSE <<Head(channel)>>
            /\ Dispatched(Terminal(app.latest))
    /\ channel' = IF channel = <<>> THEN channel ELSE Tail(channel)
    /\ UNCHANGED <<input, taken, reader>>

Coalesce ==
    /\ app.pc = "coalesce"
    /\ IF channel # <<>> /\ IsDrag(Head(channel))
       THEN /\ app' = [app EXCEPT !.latest = Head(channel).number]
            /\ UNCHANGED <<pending, got, rows>>
       ELSE /\ pending' = IF channel = <<>> THEN <<>> ELSE <<Head(channel)>>
            /\ Dispatched(Terminal(app.latest))
    /\ channel' = IF channel = <<>> THEN channel ELSE Tail(channel)
    /\ UNCHANGED <<input, taken, reader>>

\* The program ends.  The reader is left to itself.
Quit ==
    /\ app.pc = "receive"
    /\ app' = [app EXCEPT !.pc = "off"]
    /\ channel' = <<>> /\ pending' = <<>>
    /\ UNCHANGED <<input, taken, reader, got, rows>>

Reader == ReadEvent \/ ReadBurst \/ BurstEnds \/ LookAgain
Application == Receive \/ Coalesce

Next == Input \/ Reader \/ ReadFails \/ Application \/ Quit

Spec == Init /\ [][Next]_vars

\* Both threads run.
Fairness == WF_vars(Reader) /\ WF_vars(Application)
FairSpec == Spec /\ Fairness

-----------------------------------------------------------------------------
(***************************************************************************)
(* Properties.  Way is all that the program has been given and all that is *)
(* on its way to it, in order.                                             *)
(***************************************************************************)
Item == [is : {"Terminal"}, number : 1..taken, delta : {0}]
        \union [is : {"ScrollDelta"}, number : {NoEvent}, delta : Int] \union {ClosedEvent}

TypeOK ==
    /\ input \in Seq(Kinds) /\ taken \in 0..Len(input)
    /\ reader \in [pc : {"poll", "burst", "look", "done"}, delta : Int]
    /\ channel \in Seq(Item)
    /\ pending \in Seq(Item) /\ Len(pending) <= 1
    /\ app \in [pc : {"receive", "coalesce", "off"}, latest : 0..taken]
    /\ got \in Seq(1..taken) /\ rows \in Int

OnItsWay == (IF app.pc = "coalesce" THEN <<Terminal(app.latest)>> ELSE <<>>)
            \o pending \o channel
Way == [i \in DOMAIN got |-> Terminal(got[i])] \o OnItsWay
Essential(n) == input[n] \in {"key", "release"}
Drags(n) == {d \in 1..n : input[d] = "drag"}

\* The sum of a sequence of numbers.
Total(deltas) ==
    LET sum[n \in 0..Len(deltas)] == IF n = 0 THEN 0 ELSE sum[n - 1] + deltas[n]
    IN  sum[Len(deltas)]
Deltas(items) == [i \in DOMAIN items |-> items[i].delta]

\* Reducing wheel and drags touches nothing else: keys and releases are on
\* their way or with the program, each once and in the order of input; no row
\* of the wheel is lost or counted twice; and of the drags before an event only
\* those are left out that another drag follows, so that the program knows the
\* pointer's place when it is given the event (EventHandler::new,
\* coalesce_drag_events).
EssentialInOrder ==
    /\ \A n \in 1..taken : Essential(n) => \E i \in DOMAIN Way : Way[i] = Terminal(n)
    /\ \A i, j \in DOMAIN Way :
          i < j /\ Way[i].is = "Terminal" /\ Way[j].is = "Terminal" => Way[i].number < Way[j].number

RowsAddUp ==
    rows + reader.delta + Total(Deltas(OnItsWay))
        = Total([n \in 1..taken |-> WheelDelta(input[n])])

PointerIsCurrent ==
    \A i \in DOMAIN got :
        Essential(got[i]) /\ Drags(got[i]) # {}
            => \E j \in 1..(i - 1) : got[j] = Max(Drags(got[i]))

NothingElseIsReduced == app.pc # "off" => EssentialInOrder /\ RowsAddUp /\ PointerIsCurrent

\* A key reaches the program, however much the wheel turns and the pointer is
\* dragged, as long as the program and its terminal live.
KeysArrive ==
    \A n \in Numbers :
        Len(input) >= n /\ input[n] = "key" ~>
            app.pc = "off" \/ reader.pc = "done" \/ n \in Range(got)

\* "A burst of wheel reports reduced to one scroll delta (five rows per
\* report)": in the end the program has scrolled as far as the wheel was
\* turned.  The second look of the reader loses sight of it (LookAgain).
ScrollArrives ==
    <>[](app.pc = "off" \/ reader.pc = "done" \/ reader.delta = 0)
=============================================================================
