------------------------------- MODULE LogRing -------------------------------
(***************************************************************************)
(* The log ring (src/src/log_buffer.rs), a broadcast channel, and the      *)
(* readers of it: the task behind /api/logs (src/src/bin/webui.rs), which  *)
(* passes lines into a bounded channel that the browser drains, and the    *)
(* log stream of the GUI (src/src/bin/gui.rs), which does the same with    *)
(* the event loop.  Lines are numbered as they are sent.                   *)
(***************************************************************************)
EXTENDS Naturals, Sequences, SequencesExt

CONSTANTS Readers,    \* windows that show the log
          Capacity,   \* lines the ring keeps
          Pipe,       \* lines under way to a window
          MaxLines    \* bound: lines logged

RingAssumption ==
    /\ Capacity \in Nat \ {0} /\ Pipe \in Nat \ {0} /\ MaxLines \in Nat

VARIABLES
    written,   \* lines sent into the channel
    reader     \* reader -> its cursor, its channel and what it has shown

vars == <<written, reader>>

Line(n) == [kind |-> "line", n |-> n]
Dropped(n) == [kind |-> "dropped", n |-> n]

Off == [on |-> FALSE, open |-> FALSE, joined |-> 0, pos |-> 0, hand |-> <<>>, pipe |-> <<>>, seen |-> <<>>]

Init == written = 0 /\ reader = [r \in Readers |-> Off]

----------------------------------------------------------------------------
(* A log line.  Without a receiver the channel refuses it, and it is lost. *)
Write ==
    /\ written < MaxLines
    /\ \E r \in Readers : reader[r].on
    /\ written' = written + 1
    /\ UNCHANGED reader

WriteUnheard ==
    /\ \A r \in Readers : ~reader[r].on
    /\ UNCHANGED vars

(* A new receiver begins with the next line sent. *)
Subscribe(r) ==
    /\ reader[r] = Off
    /\ reader' = [reader EXCEPT ![r] =
          [Off EXCEPT !.on = TRUE, !.open = TRUE, !.joined = written, !.pos = written]]
    /\ UNCHANGED written

(* Mutant: a lag is passed over in silence. *)
LagQuietly(r) ==
    [reader[r] EXCEPT !.pos = written - Capacity]

(* The ring has overwritten what the reader was to read next. *)
Lag(r) ==
    LET lost == written - Capacity - reader[r].pos
    IN  [reader[r] EXCEPT !.pos = written - Capacity, !.hand = <<Dropped(lost)>>]

NextLine(r) ==
    [reader[r] EXCEPT !.pos = @ + 1, !.hand = <<Line(reader[r].pos + 1)>>]

Recv(r) ==
    /\ reader[r].on /\ reader[r].hand = <<>> /\ reader[r].pos < written
    /\ reader' = [reader EXCEPT ![r] =
          IF written - reader[r].pos > Capacity THEN Lag(r) ELSE NextLine(r)]
    /\ UNCHANGED written

(* tx.send waits for room. *)
Pass(r) ==
    /\ reader[r].on /\ reader[r].open /\ reader[r].hand # <<>>
    /\ Len(reader[r].pipe) < Pipe
    /\ reader' = [reader EXCEPT ![r].hand = <<>>, ![r].pipe = @ \o reader[r].hand]
    /\ UNCHANGED written

(* The window is closed: a line that cannot be passed on ends the task, a  *)
(* lag report does not.                                                    *)
PassFails(r) ==
    /\ reader[r].on /\ ~reader[r].open /\ reader[r].hand # <<>>
    /\ reader' = [reader EXCEPT ![r].hand = <<>>,
                                ![r].on = reader[r].hand[1].kind = "dropped"]
    /\ UNCHANGED written

Show(r) ==
    /\ reader[r].open /\ reader[r].pipe # <<>>
    /\ reader' = [reader EXCEPT ![r].pipe = Tail(@), ![r].seen = Append(@, Head(reader[r].pipe))]
    /\ UNCHANGED written

Close(r) ==
    /\ reader[r].open
    /\ reader' = [reader EXCEPT ![r].open = FALSE, ![r].pipe = <<>>]
    /\ UNCHANGED written

ReaderStep(r) == Recv(r) \/ Pass(r) \/ PassFails(r) \/ Show(r)

Next == Write \/ WriteUnheard \/ \E r \in Readers : Subscribe(r) \/ Close(r) \/ ReaderStep(r)

Spec == Init /\ [][Next]_vars

----------------------------------------------------------------------------
(* How many lines a sequence of items stands for. *)
Standing(items) ==
    FoldLeft(LAMBDA n, i : n + (IF i.kind = "line" THEN 1 ELSE i.n), 0, items)

(* The shapes of the state. *)
TypeInv ==
    /\ written \in 0..MaxLines
    /\ \A r \in Readers :
          /\ reader[r].joined <= reader[r].pos /\ reader[r].pos <= written
          /\ Len(reader[r].hand) <= 1 /\ Len(reader[r].pipe) <= Pipe
          /\ reader[r].hand # <<>> => reader[r].on

(* A window shows the lines sent since it was opened, in order, and says how *)
(* many are missing where some are: whatever it was slow at, nothing is lost *)
(* unsaid, repeated or moved.                                                *)
Accounted ==
    \A r \in Readers : \A k \in DOMAIN reader[r].seen :
        reader[r].seen[k].kind = "line" =>
            reader[r].seen[k].n = reader[r].joined + Standing(SubSeq(reader[r].seen, 1, k))
=============================================================================
