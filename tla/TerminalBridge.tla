---------------------------- MODULE TerminalBridge ----------------------------
(***************************************************************************)
(* One terminal WebSocket of the manager, from its admission to its end:   *)
(* the handler of GET /api/docker/terminal in TerminalRoutes.              *)
(*                                                                         *)
(* The handler listens to the browser at once, awaits the shell of the     *)
(* task, replays what the browser sent meanwhile, and from then on copies  *)
(* bytes both ways, applies the latest window size, and ends everything    *)
(* when either side or a timer ends it.  An action is one event of the     *)
(* Node event loop; the code after the await up to the end of the handler  *)
(* is one event too.  Byte counts are in arbitrary units; a frame carries  *)
(* input bytes, a window size, or text that is not a valid resize.         *)
(*                                                                         *)
(* The shell of the task, and the network under the socket, are external.  *)
(* A browser that vanishes without closing sends nothing more, which every *)
(* behaviour may do.                                                       *)
(***************************************************************************)
EXTENDS Naturals, Sequences, Functions

CONSTANTS Frames,       \* frames the browser may send
          Sizes,        \* window sizes
          Chunks,       \* byte counts of the chunks a shell may write
          MaxInput,     \* MAX_INPUT_BYTES
          MaxPending,   \* how many frames are kept for the shell, 64
          MaxBuffered,  \* MAX_BUFFERED_OUTPUT_BYTES
          MaxReceived,  \* bound: frames of the browser
          MaxProduced,  \* bound: chunks of the shell
          None

FrameKinds == [kind : {"input"}, bytes : Nat \ {0}]
              \cup [kind : {"resize"}, bytes : Nat \ {0}, size : Sizes]
              \cup [kind : {"junk"}, bytes : Nat \ {0}]
ASSUME FramesAssumption == Frames \subseteq FrameKinds
ASSUME ChunksAssumption == Chunks \subseteq Nat \ {0}
ASSUME LimitsAssumption ==
    {MaxInput, MaxPending, MaxBuffered, MaxReceived, MaxProduced} \subseteq Nat
ASSUME NoneAssumption == None \notin Sizes

VARIABLES phase,         \* "opening" until the await is over, "open", "refused"
          socket,        \* the WebSocket: "open", "closing", "closed"
          disconnected,
          pendingInput,  \* frames that arrived before the shell, by their number
          pendingBytes,
          session,       \* what the code after the await keeps
          shell,         \* the shell in the task: "none", "alive", "dead"
          windowSize,    \* the size Docker applied last
          received,      \* history: frames the browser sent
          delivered,     \* history: frames the browser got
          produced       \* history: chunks the shell wrote while it lived

vars == <<phase, socket, disconnected, pendingInput, pendingBytes, session,
          shell, windowSize, received, delivered, produced>>

(* closed, the two timers, the size waiting and the size being applied, the *)
(* numbers of the frames written to the stream (history), its               *)
(* writableLength and socket.bufferedAmount.                                *)
NoSession == [closed |-> FALSE, idleTimer |-> FALSE, sessionTimer |-> FALSE,
              pendingResize |-> None, resizing |-> None,
              written |-> <<>>, writable |-> 0, buffered |-> 0]

Init ==
    /\ phase = "opening" /\ socket = "open" /\ disconnected = FALSE
    /\ pendingInput = <<>> /\ pendingBytes = 0
    /\ session = NoSession
    /\ shell = "none" /\ windowSize = None
    /\ received = <<>> /\ delivered = <<>> /\ produced = 0

------------------------------------------------------------------------------
(* What an event does to the session. *)

\* Defect: the timer of the whole session is left running.
ClosedIdleOnly(s) == [s EXCEPT !.closed = TRUE, !.idleTimer = FALSE]
\* closeTerminal; the shell and the socket follow `closed` in End below.
Closed(s) == [s EXCEPT !.closed = TRUE, !.idleTimer = FALSE,
                       !.sessionTimer = FALSE]

\* Defect: only input is watched for, not the whole session.
ArmedIdleOnly(s) == [s EXCEPT !.idleTimer = TRUE]
\* Both timers are set before anything is sent.
Armed(s) == [s EXCEPT !.idleTimer = TRUE, !.sessionTimer = TRUE]

\* Defect: a size that arrives while another is being applied is dropped.
ResizedIfFree(s, size) ==
    IF s.resizing # None THEN s ELSE [s EXCEPT !.resizing = size]
\* queueResize: one resize is in flight, the latest other one waits.
Resized(s, size) ==
    IF s.resizing # None THEN [s EXCEPT !.pendingResize = size]
    ELSE [s EXCEPT !.resizing = size]

\* receiveInput once the shell is there; m is the frame with number nr.
Handled(s, m, nr) ==
    IF s.closed THEN s
    ELSE IF m.kind = "input"
         THEN IF m.bytes > MaxInput \/ s.writable + m.bytes > MaxBuffered
              THEN Closed(s)
              ELSE [s EXCEPT !.idleTimer = TRUE,
                             !.written = Append(@, nr),
                             !.writable = @ + m.bytes]
         ELSE IF m.kind = "resize"
              THEN Resized([s EXCEPT !.idleTimer = TRUE], m.size)
              ELSE Closed(s)

\* closeTerminal also closes the shell and the socket.
End(s) ==
    /\ session' = s
    /\ shell' = IF s.closed THEN "dead" ELSE shell
    /\ socket' = IF s.closed /\ socket = "open" THEN "closing" ELSE socket

------------------------------------------------------------------------------
\* Defect: frames are kept without limit.
KeepUnbounded(m, nr) ==
    /\ pendingBytes' = pendingBytes + m.bytes
    /\ pendingInput' = Append(pendingInput, nr)
    /\ UNCHANGED <<disconnected, socket>>

\* Defect: a frame beyond the limits is skipped and the rest still kept.
KeepSkipping(m, nr) ==
    LET bytes == pendingBytes + m.bytes IN
    /\ pendingBytes' = bytes
    /\ pendingInput' = IF bytes > MaxInput \/ Len(pendingInput) >= MaxPending
                       THEN pendingInput ELSE Append(pendingInput, nr)
    /\ UNCHANGED <<disconnected, socket>>

\* receiveInput before the shell is there: keep the frame, or give up.
Keep(m, nr) ==
    LET bytes == pendingBytes + m.bytes IN
    /\ pendingBytes' = bytes
    /\ IF bytes > MaxInput \/ Len(pendingInput) >= MaxPending
       THEN /\ disconnected' = TRUE
            /\ socket' = IF socket = "open" THEN "closing" ELSE socket
            /\ UNCHANGED pendingInput
       ELSE /\ pendingInput' = IF disconnected THEN pendingInput
                               ELSE Append(pendingInput, nr)
            /\ UNCHANGED <<disconnected, socket>>

\* A frame arrives.  Frames still arrive while the socket is closing.
Receive(m) ==
    /\ socket # "closed" /\ Len(received) < MaxReceived
    /\ received' = Append(received, m)
    /\ \/ /\ phase # "open"
          /\ Keep(m, Len(received'))
          /\ UNCHANGED <<session, shell>>
       \/ /\ phase = "open"
          /\ End(Handled(session, m, Len(received')))
          /\ UNCHANGED <<disconnected, pendingInput, pendingBytes>>
    /\ UNCHANGED <<phase, windowSize, delivered, produced>>

\* The browser closes, or the close handshake the manager began goes on.
CloseBegins ==
    /\ socket = "open"
    /\ socket' = "closing"
    /\ UNCHANGED <<phase, disconnected, pendingInput, pendingBytes, session,
                   shell, windowSize, received, delivered, produced>>

\* The socket's close event, after an error too.
CloseEvent ==
    /\ socket # "closed"
    /\ socket' = "closed"
    /\ disconnected' = TRUE
    /\ session' = IF phase = "open" THEN Closed(session) ELSE session
    /\ shell' = IF phase = "open" THEN "dead" ELSE shell
    /\ UNCHANGED <<phase, pendingInput, pendingBytes, windowSize, received,
                   delivered, produced>>

\* Defect: nobody looks whether the browser is still there.
StillWantedAlways == TRUE
\* if (disconnected) { terminal.close(); return }
StillWanted == ~disconnected

\* for (const input of pendingInput) receiveInput(input)
Replayed(s) ==
    LET after[i \in 0..Len(pendingInput)] ==
            IF i = 0 THEN s
            ELSE Handled(after[i - 1], received[pendingInput[i]], pendingInput[i])
    IN  after[Len(pendingInput)]

\* The first frame the browser gets; the others are numbered by chunk.
Ready == 0

Sent(frame) == IF socket = "open" THEN Append(delivered, frame) ELSE delivered

\* openTaskTerminalConnection answers, and the handler runs to its end.
OpenSucceeds ==
    /\ phase = "opening"
    /\ IF StillWanted
       THEN LET s == Replayed(Armed(session))
            IN  /\ phase' = "open"
                /\ session' = s
                /\ shell' = IF s.closed THEN "dead" ELSE "alive"
                /\ socket' = IF s.closed /\ socket = "open" THEN "closing"
                             ELSE socket
                /\ pendingInput' = <<>>
                /\ delivered' = Sent(Ready)
       ELSE /\ phase' = "refused"
            /\ shell' = "dead"
            /\ UNCHANGED <<socket, session, pendingInput, delivered>>
    /\ UNCHANGED <<disconnected, pendingBytes, windowSize, received, produced>>

\* Defect: the browser is not told.
OpenFailsSilently ==
    /\ phase = "opening"
    /\ phase' = "refused"
    /\ UNCHANGED <<socket, disconnected, pendingInput, pendingBytes, session,
                   shell, windowSize, received, delivered, produced>>

\* The task does not run, its agent does not answer, or Docker refuses.
OpenFails ==
    /\ phase = "opening"
    /\ phase' = "refused"
    /\ socket' = IF socket = "open" THEN "closing" ELSE socket
    /\ UNCHANGED <<disconnected, pendingInput, pendingBytes, session, shell,
                   windowSize, received, delivered, produced>>

------------------------------------------------------------------------------
\* Defect: a chunk that does not fit is dropped and the session goes on.
TooMuchDropped(bytes) ==
    /\ UNCHANGED <<session, shell, socket, delivered>>
\* A chunk that does not fit ends the session.
TooMuch(bytes) == End(Closed(session)) /\ UNCHANGED delivered

\* The shell writes a chunk.
Output(bytes) ==
    /\ phase = "open" /\ shell = "alive" /\ produced < MaxProduced
    /\ produced' = produced + 1
    /\ IF session.buffered + bytes > MaxBuffered
       THEN TooMuch(bytes)
       ELSE /\ session' = [session EXCEPT !.buffered = @ + bytes]
            /\ delivered' = Sent(produced')
            /\ UNCHANGED <<shell, socket>>
    /\ UNCHANGED <<phase, disconnected, pendingInput, pendingBytes, windowSize,
                   received>>

EndsSession ==
    /\ phase = "open" /\ ~session.closed
    /\ End(Closed(session))
    /\ UNCHANGED <<phase, disconnected, pendingInput, pendingBytes, windowSize,
                   received, delivered, produced>>

\* The stream ends, closes or fails.
StreamEnds == shell = "alive" /\ EndsSession
IdleTimeout == session.idleTimer /\ EndsSession
SessionTimeout == session.sessionTimer /\ EndsSession

\* terminal.resize is answered; the size that waits is next.
ResizeDone ==
    /\ session.resizing # None
    /\ windowSize' = session.resizing
    /\ session' = [session EXCEPT
          !.resizing = IF session.closed THEN None ELSE session.pendingResize,
          !.pendingResize = None]
    /\ UNCHANGED <<phase, socket, disconnected, pendingInput, pendingBytes,
                   shell, received, delivered, produced>>

ResizeFails ==
    /\ session.resizing # None
    /\ End([Closed(session) EXCEPT !.resizing = None, !.pendingResize = None])
    /\ UNCHANGED <<phase, disconnected, pendingInput, pendingBytes, windowSize,
                   received, delivered, produced>>

\* The network and the shell take what was buffered for them.
Drain ==
    /\ session.buffered > 0
    /\ session' = [session EXCEPT !.buffered = 0]
    /\ UNCHANGED <<phase, socket, disconnected, pendingInput, pendingBytes,
                   shell, windowSize, received, delivered, produced>>
ShellReads ==
    /\ session.writable > 0
    /\ session' = [session EXCEPT !.writable = 0]
    /\ UNCHANGED <<phase, socket, disconnected, pendingInput, pendingBytes,
                   shell, windowSize, received, delivered, produced>>

Next ==
    \/ \E m \in Frames : Receive(m)
    \/ \E bytes \in Chunks : Output(bytes)
    \/ CloseBegins \/ CloseEvent
    \/ OpenSucceeds \/ OpenFails
    \/ StreamEnds \/ IdleTimeout \/ SessionTimeout
    \/ ResizeDone \/ ResizeFails
    \/ Drain \/ ShellReads

\* The await ends, timers fire, Docker answers a resize, and a close handshake
\* ends, by the timeout of the socket if need be.
Fairness ==
    /\ WF_vars(OpenSucceeds \/ OpenFails)
    /\ WF_vars(SessionTimeout)
    /\ WF_vars(ResizeDone \/ ResizeFails)
    /\ WF_vars(socket = "closing" /\ CloseEvent)

Spec == Init /\ [][Next]_vars /\ Fairness

------------------------------------------------------------------------------
SessionType ==
    [closed : BOOLEAN, idleTimer : BOOLEAN, sessionTimer : BOOLEAN,
     pendingResize : Sizes \cup {None}, resizing : Sizes \cup {None},
     written : Seq(Nat), writable : 0..MaxBuffered, buffered : 0..MaxBuffered]

\* The buffers towards browser and shell stay within their limits.
TypeOK ==
    /\ phase \in {"opening", "open", "refused"}
    /\ socket \in {"open", "closing", "closed"}
    /\ disconnected \in BOOLEAN
    /\ pendingInput \in Seq(Nat)
    /\ Len(pendingInput) <= MaxPending
    /\ pendingBytes \in Nat
    /\ session \in SessionType
    /\ shell \in {"none", "alive", "dead"}
    /\ windowSize \in Sizes \cup {None}
    /\ received \in Seq(Frames)
    /\ delivered \in Seq(0..MaxProduced)
    /\ produced \in 0..MaxProduced

Live == phase = "open" /\ ~session.closed

\* The numbers of the frames of a kind.
Those(kind, frames) == {i \in DOMAIN frames : frames[i].kind = kind}

\* The frames ask for this window size last, or for none.
AskedLast(size, frames) ==
    LET sizes == Those("resize", frames)
    IN  \/ sizes = {} /\ size = None
        \/ \E i \in sizes : (\A j \in sizes : j <= i) /\ frames[i].size = size

\* What the shell reads is what the browser typed, from the first key on, also
\* before there was a shell: nothing is lost, doubled or out of order.
InputIsComplete ==
    LET typed == Those("input", received)
        taken == Range(session.written)
    IN  /\ \A i, j \in DOMAIN session.written :
              i < j => session.written[i] < session.written[j]
        /\ \E n \in 0..Len(received) : taken = {i \in typed : i <= n}
        /\ Live => taken = typed

\* A shell lives only as long as a session that is still going to end it: its
\* browser is not known to be gone, and its lifetime is running.
NoOrphanShell ==
    shell = "alive" => /\ Live /\ socket # "closed"
                       /\ session.idleTimer /\ session.sessionTimer

\* Nothing of a session that is over can fire later.
OverIsOver ==
    session.closed => /\ ~session.idleTimer /\ ~session.sessionTimer
                      /\ shell = "dead" /\ socket # "open"

\* When no resize is under way the window has the size the browser asked for
\* last, and a size that waits has one before it to wait for.
ResizeSettles ==
    Live =>
        /\ session.resizing = None => AskedLast(windowSize, received)
        /\ session.pendingResize # None => session.resizing # None

\* The browser hears first that the terminal is ready and then every chunk of
\* the shell in order, without a gap while it listens.
OutputIsComplete ==
    /\ \A k \in DOMAIN delivered : delivered[k] = k - 1
    /\ Live /\ socket = "open" => Len(delivered) = produced + 1

\* No shell lives for ever.
ShellEnds == shell = "alive" ~> shell = "dead"

\* The browser always comes to know: its terminal opens or its socket closes.
BrowserIsAnswered == <>(delivered # <<>> \/ socket = "closed")

\* What one side sends reaches the other whole: keys, output and window sizes.
NothingIsLost == InputIsComplete /\ OutputIsComplete /\ ResizeSettles

\* A shell does not outlive its session, and a session leaves nothing behind.
EndsTogether == NoOrphanShell /\ OverIsOver

\* Every terminal ends, and the browser hears of it either way.
TerminalsSettle == ShellEnds /\ BrowserIsAnswered
==============================================================================
