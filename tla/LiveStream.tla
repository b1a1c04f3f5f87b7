------------------------------ MODULE LiveStream ------------------------------
(***************************************************************************)
(* What the connected window shows of its kernel while it runs: a session   *)
(* reads a stream of JSON frames in a thread, hands them over in a bounded  *)
(* mailbox, and a timer of the window drains it.  The threads of the log    *)
(* stream and of the connection stream run the same code and share only the *)
(* lock of the mailbox, so a behaviour is about one of them.                *)
(***************************************************************************)
EXTENDS Naturals, SequencesExt, Filters

CONSTANTS Capacity,   \* LIVE_LOG_MAILBOX_CAPACITY; latest_connections holds one
          PageLimit,  \* entries of the kernel_logs page; the activity page shows one state
          MaxFrames,  \* bound: frames the kernel writes
          MaxStarts   \* bound: sessions started
ASSUME LiveStreamAssumption ==
  Capacity \in Nat \ {0} /\ PageLimit \in Nat \ {0} /\ MaxFrames \in Nat /\ MaxStarts \in Nat

VARIABLES
  kind,        \* the stream followed: "logs" or "connections"
  up,          \* the kernel's controller answers
  written,     \* frames the kernel has written, numbered in their order
  link,        \* ControllerState
  live,        \* live_runtime is there
  generation,  \* live_generation
  timers,      \* generations whose poll timer is pending
  thread,      \* of the session: asking, reading, waiting
  attempt,     \* failures since the last clean end: 0, or 1 for any number
  first,       \* first_request
  wire,        \* pieces <<frame, half>> sent and not yet read
  closed,      \* the controller has ended the response
  buffer,      \* FrameBuffer: pieces of frames that are not complete
  mailbox,     \* frames handed over
  status,      \* LiveStreamPhase in the mailbox
  live_status, \* as the window shows it
  page,        \* frames the window shows
  skipped      \* history: frames that nothing promises to show

streamVars == <<kind, up, written, link, live, generation, timers, thread,
                attempt, first, wire, closed, buffer, mailbox, status, live_status,
                page, skipped>>
shown == <<page, live_status>>
reader == <<thread, attempt, first, wire, closed, buffer, mailbox, status>>
pane == <<link, live, generation, timers>>

\* A frame comes in two pieces: it is complete with the second.
Pieces == (1..MaxFrames) \X {1, 2}
LastPieces == (1..MaxFrames) \X {2}
Numbers(pieces) == [i \in DOMAIN pieces |-> pieces[i][1]]
Frames(pieces) == ToSet(Numbers(pieces))
MailboxHolds == IF kind = "logs" THEN Capacity ELSE 1
Shows == IF kind = "logs" THEN PageLimit ELSE 1
LastOf(s, n) == IF Len(s) <= n THEN s ELSE SubSeq(s, Len(s) - n + 1, Len(s))
Skip(frames) == skipped' = skipped \union frames

\* The session's thread when it starts: reconnect_live_stream's first round.
FreshSession ==
  /\ thread' = "asking" /\ attempt' = 0 /\ first' = TRUE
  /\ wire' = <<>> /\ closed' = FALSE /\ buffer' = <<>>
  /\ mailbox' = <<>> /\ status' = "waiting"
\* Dropping the session cancels its threads; what they still hold is lost.
OnTheWay == Frames(wire) \union Frames(buffer) \union ToSet(mailbox)

StreamInit ==
  /\ kind \in {"logs", "connections"} /\ up = TRUE /\ written = 0
  /\ link = "disconnected" /\ live = FALSE /\ generation = 0 /\ timers = {}
  /\ thread = "asking" /\ attempt = 0 /\ first = TRUE
  /\ wire = <<>> /\ closed = FALSE /\ buffer = <<>> /\ mailbox = <<>>
  /\ status = "waiting" /\ live_status = "waiting" /\ page = <<>> /\ skipped = {}

-----------------------------------------------------------------------------
(* The kernel                                                              *)

KernelWrites ==
  /\ up /\ written < MaxFrames /\ written' = written + 1
  /\ IF live /\ thread = "reading" /\ ~closed
     THEN wire' = wire \o << <<written', 1>>, <<written', 2>> >> /\ UNCHANGED skipped
     ELSE Skip({written'}) /\ UNCHANGED wire
  /\ UNCHANGED <<kind, up, pane, thread, attempt, first, closed, buffer, mailbox,
                 status, shown>>

\* It ends, perhaps in the middle of a frame, and starts again.
KernelStops ==
  /\ up /\ up' = FALSE
  /\ closed' = (closed \/ (live /\ thread = "reading"))
  /\ \/ UNCHANGED <<wire, skipped>>
     \/ wire # <<>> /\ ~closed /\ wire' = Front(wire) /\ Skip({Last(wire)[1]})
  /\ UNCHANGED <<kind, written, pane, thread, attempt, first, buffer, mailbox,
                 status, shown>>

KernelStarts ==
  /\ ~up /\ up' = TRUE
  /\ UNCHANGED <<kind, written, pane, reader, shown, skipped>>

\* A response of /connections may be one state and its end.
ResponseEnds ==
  /\ live /\ thread = "reading" /\ ~closed /\ closed' = TRUE
  /\ UNCHANGED <<kind, up, written, pane, thread, attempt, first, wire, buffer,
                 mailbox, status, shown, skipped>>

-----------------------------------------------------------------------------
(* The thread of the session                                               *)

Phase == IF attempt = 0 THEN "connecting" ELSE "issue"

\* The round ends: reconnect_live_stream waits before the next.
Fails(state) ==
  /\ thread' = "waiting" /\ attempt' = 1 /\ status' = "issue"
  /\ wire' = <<>> /\ closed' = FALSE /\ buffer' = <<>>
  /\ Skip(Frames(wire) \union Frames(buffer)) /\ UNCHANGED state

\* Target::response: a connection within its timeout and a status of success;
\* the headers of a log stream come with its first line and are waited for.
Responds == up

\* The status that a round begins with; the connection stream keeps "live" from one
\* response to the next.
Announced == status' = IF kind = "logs" \/ first \/ attempt > 0 THEN Phase ELSE status

\* stream_connections, stream_logs: the request of a round
Ask ==
  /\ live /\ thread = "asking" /\ first' = FALSE
  /\ \/ /\ Responds /\ thread' = "reading" /\ Announced
        /\ UNCHANGED <<attempt, wire, closed, buffer, mailbox, skipped>>
     \/ Fails(mailbox)
  /\ UNCHANGED <<kind, up, written, pane, shown>>

\* Mutant: the buffer is cleared after a frame, not drained up to its end.
EmitAndClear(bytes) ==
  LET complete == Filter(bytes, LastPieces)
  IN IF complete = <<>> THEN [frames |-> <<>>, rest |-> bytes]
     ELSE [frames |-> << Head(complete)[1] >>, rest |-> <<>>]

\* emit_complete_json: every frame whose end has come is received and drained,
\* the rest is kept.
Emit(bytes) ==
  LET ends == {i \in DOMAIN bytes : bytes[i] \in LastPieces}
      consumed == IF ends = {} THEN 0 ELSE Max(ends)
  IN [frames |-> Numbers(Filter(bytes, LastPieces)),
      rest   |-> SubSeq(bytes, consumed + 1, Len(bytes))]

\* FrameBuffer::push with a chunk of any size, then push_kernel_log or
\* latest_connections for every frame.
Read == \E n \in 1..Len(wire) :
  LET emitted == Emit(buffer \o SubSeq(wire, 1, n))
      all == mailbox \o emitted.frames
  IN /\ live /\ thread = "reading"
     /\ wire' = SubSeq(wire, n + 1, Len(wire)) /\ buffer' = emitted.rest
     /\ mailbox' = LastOf(all, MailboxHolds)
     /\ status' = IF emitted.frames = <<>> THEN status ELSE "live"
     /\ Skip(ToSet(all) \ ToSet(LastOf(all, MailboxHolds)))
     /\ UNCHANGED <<kind, up, written, pane, thread, attempt, first, closed, shown>>

\* An I/O error or a timeout of the socket, invalid JSON or a frame over
\* STREAM_FRAME_LIMIT.
ReadFails ==
  /\ live /\ thread = "reading" /\ Fails(<<first, mailbox>>)
  /\ UNCHANGED <<kind, up, written, pane, shown>>

\* FrameBuffer::finish: half a frame is left to the typed receiver, which
\* refuses it.
ReadEnd ==
  /\ live /\ thread = "reading" /\ closed /\ wire = <<>>
  /\ IF buffer = <<>>
     THEN /\ thread' = "waiting" /\ attempt' = 0 /\ closed' = FALSE
          /\ UNCHANGED <<first, wire, buffer, mailbox, status, skipped>>
     ELSE Fails(<<first, mailbox>>)
  /\ UNCHANGED <<kind, up, written, pane, shown>>

Wake ==
  /\ live /\ thread = "waiting" /\ thread' = "asking"
  /\ UNCHANGED <<kind, up, written, pane, attempt, first, wire, closed, buffer,
                 mailbox, status, shown, skipped>>

-----------------------------------------------------------------------------
(* The window                                                              *)

\* live_generation moves on and the session is dropped.
Drop(next, cleared) ==
  /\ generation' = generation + 1 /\ live' = FALSE /\ link' = next
  /\ Skip(OnTheWay \union cleared) /\ FreshSession

\* connect_mihomo, and an update of the kernel that takes the connection down.
BeginConnect == \E next \in {"connecting", "updating"} :
  /\ link \notin {"connecting", "updating"} /\ generation < 2 * MaxStarts
  /\ Drop(next, {})
  /\ live_status' = IF next = "connecting" THEN "connecting" ELSE live_status
  /\ UNCHANGED <<kind, up, written, timers, page>>

ConnectRefused ==
  /\ link \in {"connecting", "updating"}
  /\ link' = IF link = "connecting" THEN "failed" ELSE "disconnected"
  /\ UNCHANGED <<kind, up, written, live, generation, timers, reader, shown, skipped>>

\* apply_mihomo_snapshot, with the connections of the moment, and
\* start_live_runtime, whose first poll drains an empty mailbox.
Connected ==
  /\ link \in {"connecting", "updating"} /\ up
  /\ generation' = generation + 1 /\ live' = TRUE /\ link' = "connected"
  /\ FreshSession /\ timers' = timers \union {generation'} /\ live_status' = "waiting"
  /\ IF kind = "logs" THEN UNCHANGED <<page, written>>
     ELSE written < MaxFrames /\ written' = written + 1 /\ page' = <<written'>>
  /\ Skip(IF kind = "logs" THEN {} ELSE ToSet(page)) /\ UNCHANGED <<kind, up>>

\* fail_safe_stopped_managed_kernel, on some polls, if the kernel is gone.
FailSafe ==
  /\ ~up /\ Drop("failed", {}) /\ UNCHANGED shown

\* poll_live_runtime
Drain ==
  LET all == page \o mailbox
  IN /\ page' = LastOf(all, Shows) /\ live_status' = status /\ mailbox' = <<>>
     /\ Skip(ToSet(all) \ ToSet(LastOf(all, Shows)))
     /\ timers' = timers
     /\ UNCHANGED <<link, live, generation, thread, attempt, first, wire,
                    closed, buffer, status>>

PollLive == \E g \in timers :
  /\ UNCHANGED <<kind, up, written>>
  /\ \/ /\ g = generation /\ live /\ Drain
     \/ g = generation /\ live /\ FailSafe /\ timers' = timers \ {g}
     \/ /\ g # generation /\ timers' = timers \ {g}
        /\ UNCHANGED <<link, live, generation, reader, shown, skipped>>

\* finish_configuration_replacement, after the kernel was stopped.
Replaced ==
  /\ generation < 2 * MaxStarts /\ link \notin {"connecting", "updating"}
  /\ live_status' = "waiting"
  /\ IF kind = "logs" THEN Drop("disconnected", {}) /\ UNCHANGED page
                      ELSE Drop("disconnected", ToSet(page)) /\ page' = <<>>
  /\ UNCHANGED <<kind, up, written, timers>>

StreamNext ==
  \/ KernelWrites \/ KernelStops \/ KernelStarts \/ ResponseEnds
  \/ Ask \/ Read \/ ReadFails \/ ReadEnd \/ Wake
  \/ BeginConnect \/ ConnectRefused \/ Connected \/ PollLive \/ Replaced
StreamSpec == StreamInit /\ [][StreamNext]_streamVars

-----------------------------------------------------------------------------
\* What is on its way to the page, the oldest first.
Flow ==
  page \o mailbox \o Numbers(Filter(buffer \o wire, LastPieces))

\* What the kernel writes is shown once and in its order, whatever the chunks
\* of a response and however connections are lost, made and dropped; nothing is
\* lost but what no connection carried, what was cut off, what a full mailbox
\* or page pushed out and what a dropped session held.  A lost stream is handed
\* over as an issue, and a session has its timer (read_frames, LiveMailbox and
\* poll_live_runtime).
InOrder == \A i, j \in DOMAIN Flow : i < j => Flow[i] < Flow[j]
Accounted == 1..written \subseteq skipped \union ToSet(Flow)
TroubleIsShown == live /\ thread = "waiting" /\ attempt > 0 => status = "issue"
StreamIsFaithful ==
  InOrder /\ Accounted /\ TroubleIsShown /\ (live => generation \in timers)
=============================================================================
