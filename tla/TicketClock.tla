----------------------------- MODULE TicketClock ----------------------------
(* The service clock of one ticket (src/tickets/lib/ticket-store.js).  The   *)
(* clock is never stored: every reader computes it from the ticket's pause   *)
(* windows, which go on through closing and reopening the ticket.  Time is   *)
(* in whole units and starts at 1, when the ticket is opened.                *)
EXTENDS Naturals, FiniteSets, FiniteSetsExt, Sequences, SequencesExt, TLC

CONSTANTS
  SlaHours,    \* the hours the ticket may take
  MaxClock,    \* bound: the time runs to here
  MaxWindows   \* bound: pauses of a behaviour

ASSUME ClockAssumption == MaxClock \in Nat

VARIABLES
  clock,     \* the time now
  archived,  \* the ticket is archived; in any other state its clock runs
  windows,   \* slaPauseWindows: from and to, where to is NoEnd while it is open
  paused     \* history: the units of time that began during a pause

slaVars == <<clock, archived, windows, paused>>

Opened == 1
NoEnd == 0
Openings == {i \in DOMAIN windows : windows[i].to = NoEnd}

ClockInit ==
  /\ clock = Opened
  /\ archived = FALSE
  /\ windows = <<>>
  /\ paused = {}

Tick ==
  /\ clock < MaxClock
  /\ clock' = clock + 1
  /\ paused' = IF \E i \in DOMAIN windows : windows[i].to = NoEnd \/ clock < windows[i].to
                THEN paused \cup {clock} ELSE paused
  /\ UNCHANGED <<archived, windows>>

\* Refused on an archived ticket and while a window is open: one with an end
\* counts as closed, so another may be opened over it.
Pause(until) ==
  /\ ~archived
  /\ Openings = {}
  /\ until = NoEnd \/ until > clock
  /\ Len(windows) < MaxWindows
  /\ windows' = Append(windows, [from |-> clock, to |-> until])
  /\ UNCHANGED <<clock, archived, paused>>

\* The latest open window ends now, on an archived ticket too.
Resume ==
  /\ Openings # {}
  /\ windows' = [windows EXCEPT ![Max(Openings)].to = clock]
  /\ UNCHANGED <<clock, archived, paused>>

CloseTicket  == ~archived /\ archived' = TRUE /\ UNCHANGED <<clock, windows, paused>>
ReopenTicket == archived /\ archived' = FALSE /\ UNCHANGED <<clock, windows, paused>>

ClockNext ==
  \/ Tick
  \/ \E until \in NoEnd .. MaxClock : Pause(until)
  \/ Resume
  \/ CloseTicket
  \/ ReopenTicket

ClockSpec == ClockInit /\ [][ClockNext]_slaVars
----------------------------------------------------------------------------
(* What the readers compute, for any moment they ask about.                *)

End(i, t)     == IF windows[i].to = NoEnd THEN t ELSE windows[i].to
Lasting(t)    == {i \in DOMAIN windows : windows[i].from < End(i, t)}
Earlier(i, j) == \/ windows[i].from < windows[j].from
                 \/ windows[i].from = windows[j].from /\ i < j

\* The sort of pausedHours, which is stable.
Sorted(t) ==
  CHOOSE order \in [1 .. Cardinality(Lasting(t)) -> Lasting(t)] :
    \A k, l \in DOMAIN order : k < l => Earlier(order[k], order[l])

\* The windows as spans up to t, in order of their beginning: an open one ends
\* at t, one that ends where it begins is left out, and what lies after t is cut.
Spans(t) ==
  LET Span(i) == [from |-> windows[i].from, to |-> Min({End(i, t), t})]
  IN  [k \in DOMAIN Sorted(t) |-> Span(Sorted(t)[k])]

\* A span cut off before its beginning has no length.
Length(s) == IF s.from < s.to THEN s.to - s.from ELSE 0

\* Mutation: the spans are added up as they are.
PausedUnmerged(t) ==
  FoldLeft(LAMBDA sum, s : sum + Length(s), 0, Spans(t))

\* A span that begins before the current one ends extends it.
Merge(acc, s) ==
  IF s.from <= acc.cur.to
  THEN [total |-> acc.total,
        cur   |-> [from |-> acc.cur.from, to |-> Max({acc.cur.to, s.to})]]
  ELSE [total |-> acc.total + Length(acc.cur), cur |-> s]

\* The loop of pausedHours: what it holds after each span.
AfterEach(spans) ==
  LET after[k \in DOMAIN spans] ==
        IF k = 1 THEN [total |-> 0, cur |-> spans[1]]
                 ELSE Merge(after[k - 1], spans[k])
  IN  after

PausedHours(t) ==
  LET spans == Spans(t)
      last  == AfterEach(spans)[Len(spans)]
  IN  IF spans = <<>> THEN 0 ELSE last.total + Length(last.cur)

Elapsed(t) == t - Opened - PausedHours(t)

\* checkSlaBreaches, slaStatus.  Reopening starts no new clock.
Breached(t) == Elapsed(t) > SlaHours /\ ~archived
----------------------------------------------------------------------------
(* Whenever it is asked, and about whichever moment of the past, the clock  *)
(* shows the time that passed outside every pause, however pauses overlap   *)
(* and whatever happened to the ticket meanwhile; a breach reported now is  *)
(* of that time.                                                            *)
ElapsedIsUnpaused ==
  LET Ran(t) == Cardinality((Opened .. t - 1) \ paused)
  IN  /\ \A t \in Opened .. clock : Elapsed(t) = Ran(t)
      /\ Breached(clock) => Ran(clock) > SlaHours
=============================================================================
