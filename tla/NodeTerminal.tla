----------------------------- MODULE NodeTerminal -----------------------------
(***************************************************************************)
(* The terminal of a task that runs on another node: the manager's end,    *)
(* openAgentTerminalConnection in AgentTerminalClient, and the agent's,    *)
(* the WebSocket handler of terminalRoutes, with the connection between    *)
(* them.  TerminalBridge is who uses the manager's end.                    *)
(*                                                                         *)
(* Each end is a Node process and an action one event of its loop.  The    *)
(* agent asks Docker for the container, for an exec in it and for its      *)
(* stream; each is an await, after which it looks whether the connection   *)
(* is still there.  The connection delivers in order what it delivers; it  *)
(* can be lost without either end hearing of it.  What waits in a queue    *)
(* stands for the sender's bufferedAmount and the network together.        *)
(***************************************************************************)
EXTENDS Naturals, Sequences, SequencesExt

CONSTANTS Inputs,       \* byte counts of what the browser may type
          Chunks,       \* byte counts of what the shell may write
          Sizes,        \* window sizes within the 1..500 both ends accept
          Nodes,
          MaxInput,     \* MAX_INPUT_BYTES of the agent
          MaxBuffered,  \* MAX_BUFFERED_BYTES, 1024 * 1024 of the manager
          HighWater,    \* what a stream keeps before it asks to wait
          MaxTyped,     \* bound: inputs and sizes sent
          MaxProduced,  \* bound: chunks of the shell
          None

ASSUME NodeTerminalAssumption ==
    /\ Inputs \cup Chunks \subseteq Nat \ {0}
    /\ {MaxInput, MaxBuffered, HighWater, MaxTyped, MaxProduced} \subseteq Nat
    /\ None \notin Sizes

VARIABLES link,       \* "none", "up", "cut" when an end closed it, "lost"
          toAgent,    \* messages under way to the agent
          toManager,  \* and to the manager
          asked,      \* the node of the task, as the manager knows it
          place,      \* node: of the agent that answers; ours: its container
                      \* runs and carries the labels of the task and the node
          manager,    \* state of openAgentTerminalConnection
          agent,      \* state of the handler
          container,  \* shell: "none", "alive", "dead"; size; read (history)
          typed,      \* history: what the manager's stream accepted
          produced,   \* history: what the shell wrote
          taken       \* history: what the manager's stream gave

nodeVars == <<link, toAgent, toManager, asked, place, manager, agent,
              container, typed, produced, taken>>

\* Messages.  Controls are short, and counted as nothing.
Input(n) == [kind |-> "input", bytes |-> n]
Resize(s) == [kind |-> "resize", bytes |-> 0, size |-> s]
Chunk(k, n) == [kind |-> "chunk", nr |-> k, bytes |-> n]
ReadyOf(n) == [kind |-> "ready", bytes |-> 0, node |-> n]
CloseFrame == [kind |-> "close", bytes |-> 0]

\* Those of a kind, in order.
Only(kind, messages) ==
    LET chosen[i \in 0..Len(messages)] ==
            IF i = 0 THEN <<>>
            ELSE IF messages[i].kind = kind
                 THEN Append(chosen[i - 1], messages[i])
                 ELSE chosen[i - 1]
    IN  chosen[Len(messages)]

\* The window size the messages ask for last, or none.
LastSize(messages, none) ==
    LET sizes == Only("resize", messages)
    IN  IF sizes = <<>> THEN none ELSE sizes[Len(sizes)].size

\* What they all weigh together.
Bytes(messages) ==
    LET sum[i \in 0..Len(messages)] ==
            IF i = 0 THEN 0 ELSE sum[i - 1] + messages[i].bytes
    IN  sum[Len(messages)]

(* The promise is "waiting", "resolved" or "rejected".                      *)
NewManager == [promise |-> "waiting", readyTimer |-> TRUE, destroyed |-> FALSE,
               readable |-> <<>>, paused |-> FALSE]

\* Defect: a session may take for ever.
NewAgentEndless == [stage |-> "inspect", closed |-> FALSE, idleTimer |-> TRUE,
    sessionTimer |-> FALSE, startTimer |-> TRUE, resizing |-> None,
    pendingSize |-> None, writable |-> 0, paused |-> FALSE, sending |-> FALSE]
(* stage is the await the handler is at; "open" with a stream, "over" when   *)
(* it returned without one.  `sending` while the stream waits for a chunk.  *)
NewAgent == [stage |-> "inspect", closed |-> FALSE, idleTimer |-> TRUE,
    sessionTimer |-> TRUE, startTimer |-> TRUE, resizing |-> None,
    pendingSize |-> None, writable |-> 0, paused |-> FALSE, sending |-> FALSE]
NoAgent == [NewAgent EXCEPT !.stage = "none", !.idleTimer = FALSE,
                            !.sessionTimer = FALSE, !.startTimer = FALSE]

Init ==
    /\ link = "none" /\ toAgent = <<>> /\ toManager = <<>>
    /\ asked \in Nodes
    /\ place \in [node : Nodes, ours : BOOLEAN]
    /\ manager = NewManager /\ agent = NoAgent
    /\ container = [shell |-> "none", size |-> None, read |-> <<>>]
    /\ typed = <<>> /\ produced = <<>> /\ taken = <<>>

------------------------------------------------------------------------------
(* The manager's end. *)

\* fail, and destroy of the stream: the promise is rejected if it waits, and
\* socket.terminate() cuts the connection.
Failed(m) == [m EXCEPT !.promise = IF @ = "waiting" THEN "rejected" ELSE @,
                       !.readyTimer = FALSE, !.destroyed = TRUE,
                       !.readable = <<>>]
ManagerEnds ==
    /\ manager' = Failed(manager)
    /\ link' = IF link = "up" THEN "cut" ELSE link
    /\ toManager' = <<>>
    /\ UNCHANGED <<toAgent, asked, place, agent, container, typed, produced,
                   taken>>

\* preValidation of the agent: only its own tasks.
Admitted == place.node = asked

\* The WebSocket opens, and the agent's handler runs up to its first await.
Connect ==
    /\ link = "none" /\ ~manager.destroyed /\ Admitted
    /\ link' = "up" /\ agent' = NewAgent
    /\ UNCHANGED <<toAgent, toManager, asked, place, manager, container, typed,
                   produced, taken>>

\* The handshake is refused, or takes more than its 5 seconds.
ConnectFails == link = "none" /\ ~manager.destroyed /\ ManagerEnds
\* No message "ready" in 5 seconds.
ReadyTimeout == manager.readyTimer /\ ManagerEnds
\* close() of the terminal.
ConsumerCloses == manager.promise = "resolved" /\ ~manager.destroyed /\ ManagerEnds
\* The socket's error and close events of a connection that is gone.
ManagerLosesLink == link \in {"cut", "lost"} /\ ~manager.destroyed /\ ManagerEnds

\* The first message the manager waits for.
IsReady(msg) == msg.kind = "ready" /\ msg.node = asked

\* The stream has room, or more than it may keep.
Pushed(msg) ==
    [manager EXCEPT !.readable = Append(@, msg),
                    !.paused = Bytes(manager.readable) + msg.bytes >= HighWater]

\* Defect: the manager keeps whatever comes.
TakeChunkUnlimited(msg) ==
    /\ manager' = Pushed(msg) /\ toManager' = Tail(toManager)
    /\ UNCHANGED link
\* A message with output.
TakeChunk(msg) ==
    IF Bytes(manager.readable) + msg.bytes > MaxBuffered
    THEN /\ manager' = Failed(manager) /\ toManager' = <<>> /\ link' = "cut"
    ELSE /\ manager' = Pushed(msg) /\ toManager' = Tail(toManager)
         /\ UNCHANGED link

\* The manager's socket emits a message, or its close.
ManagerReceives ==
    /\ link \in {"up", "cut"} /\ toManager # <<>>
    /\ ~manager.destroyed /\ ~manager.paused
    /\ LET msg == Head(toManager) IN
       \/ /\ manager.promise = "waiting" /\ IsReady(msg)
          /\ manager' = [manager EXCEPT !.promise = "resolved",
                                        !.readyTimer = FALSE]
          /\ toManager' = Tail(toManager) /\ UNCHANGED link
       \/ /\ manager.promise = "waiting" => ~IsReady(msg)
          /\ manager.promise = "waiting" \/ msg.kind # "chunk"
          /\ manager' = Failed(manager) /\ toManager' = <<>> /\ link' = "cut"
       \/ /\ manager.promise = "resolved" /\ msg.kind = "chunk"
          /\ TakeChunk(msg)
    /\ UNCHANGED <<toAgent, asked, place, agent, container, typed, produced,
                   taken>>

\* The stream's consumer takes what there is; read() resumes the socket.
ConsumerReads ==
    /\ manager.readable # <<>>
    /\ taken' = taken \o manager.readable
    /\ manager' = [manager EXCEPT !.readable = <<>>, !.paused = FALSE]
    /\ UNCHANGED <<link, toAgent, toManager, asked, place, agent, container,
                   typed, produced>>

\* write() of the stream, and resize().  A write that finds no room fails the
\* stream; a size is then rejected, and the consumer closes the terminal.
ConsumerSends(msg) ==
    /\ manager.promise = "resolved" /\ ~manager.destroyed
    /\ Len(typed) < MaxTyped
    /\ IF Bytes(toAgent) + msg.bytes > MaxBuffered
       THEN ManagerEnds
       ELSE /\ typed' = Append(typed, msg)
            /\ toAgent' = IF link = "up" THEN Append(toAgent, msg) ELSE toAgent
            /\ UNCHANGED <<link, toManager, asked, place, manager, agent,
                           container, produced, taken>>

------------------------------------------------------------------------------
(* The agent's end. *)

\* close: once, with all three timers; the shell follows in AgentIs.
Closed(a) == [a EXCEPT !.closed = TRUE, !.idleTimer = FALSE,
                       !.sessionTimer = FALSE, !.startTimer = FALSE]

\* The agent's new state; its stream is destroyed and its socket closed with
\* it, which the manager hears behind what was sent before.
AgentIs(a, sent) ==
    /\ agent' = a
    /\ toManager' = IF link # "up" THEN toManager
                    ELSE IF a.closed /\ ~agent.closed
                         THEN Append(toManager \o sent, CloseFrame)
                         ELSE toManager \o sent
    /\ container' = IF a.closed /\ container.shell = "alive"
                    THEN [container EXCEPT !.shell = "dead"] ELSE container

AgentEnds ==
    /\ agent.stage # "none" /\ ~agent.closed
    /\ AgentIs(Closed(agent), <<>>)
    /\ UNCHANGED <<link, toAgent, asked, place, manager, typed, produced, taken>>

IdleTimeout == agent.idleTimer /\ AgentEnds
SessionTimeout == agent.sessionTimer /\ AgentEnds
StartTimeout == agent.startTimer /\ AgentEnds
\* The stream's end, close and error.
StreamEnds == container.shell = "alive" /\ AgentEnds
\* The socket's close and error.
AgentLosesLink == link \in {"cut", "lost"} /\ AgentEnds
\* Docker fails, or has no room to send.
DockerFails == agent.stage \in {"inspect", "exec", "start"} /\ AgentEnds

\* The container runs, and has the labels of this task and this node.
Ours == place.ours

Inspected ==
    /\ agent.stage = "inspect"
    /\ AgentIs(IF agent.closed THEN [agent EXCEPT !.stage = "over"]
               ELSE IF Ours THEN [agent EXCEPT !.stage = "exec"]
               ELSE [Closed(agent) EXCEPT !.stage = "over"], <<>>)
    /\ UNCHANGED <<link, toAgent, asked, place, manager, typed, produced, taken>>

ExecCreated ==
    /\ agent.stage = "exec"
    /\ agent' = [agent EXCEPT !.stage = IF agent.closed THEN "over" ELSE "start"]
    /\ UNCHANGED <<link, toAgent, toManager, asked, place, manager, container,
                   typed, produced, taken>>

\* Defect: nobody looks whether the manager is still there.
StillWantedAlways == TRUE
\* if (closed) { stream.destroy(); return }
StillWanted == ~agent.closed

\* The shell is there: "ready" goes out before anything it writes.
Started ==
    /\ agent.stage = "start"
    /\ IF StillWanted
       THEN /\ agent' = [agent EXCEPT !.stage = "open", !.startTimer = FALSE]
            /\ container' = [container EXCEPT !.shell = "alive"]
            /\ toManager' = IF link = "up"
                            THEN Append(toManager, ReadyOf(place.node))
                            ELSE toManager
       ELSE /\ agent' = [agent EXCEPT !.stage = "over"]
            /\ container' = [container EXCEPT !.shell = "dead"]
            /\ UNCHANGED toManager
    /\ UNCHANGED <<link, toAgent, asked, place, manager, typed, produced, taken>>

\* Input for the shell; a shell that reads slowly makes the socket wait.
Written(a, n) ==
    IF n > MaxInput \/ a.writable + n > MaxBuffered THEN Closed(a)
    ELSE [a EXCEPT !.writable = @ + n, !.paused = a.writable + n >= HighWater]

\* Defect: a size that comes while one is applied is not kept.
ResizedIfFree(a, s) ==
    IF a.resizing # None THEN a ELSE [a EXCEPT !.resizing = s]
Resized(a, s) ==
    IF a.resizing # None THEN [a EXCEPT !.pendingSize = s]
    ELSE [a EXCEPT !.resizing = s]

\* The agent's socket emits a message.
AgentReceives ==
    /\ link \in {"up", "cut"} /\ toAgent # <<>> /\ agent.stage # "none"
    /\ ~agent.paused
    /\ toAgent' = Tail(toAgent)
    /\ LET msg == Head(toAgent)
           awake == [agent EXCEPT !.idleTimer = TRUE]
           next == IF agent.closed THEN agent
                   ELSE IF agent.stage # "open" THEN Closed(agent)
                   ELSE IF msg.kind = "input" THEN Written(awake, msg.bytes)
                   ELSE Resized(awake, msg.size)
       IN  /\ agent' = next
           /\ toManager' = IF link = "up" /\ next.closed /\ ~agent.closed
                           THEN Append(toManager, CloseFrame) ELSE toManager
           /\ container' =
                IF next.closed
                THEN [container EXCEPT
                        !.shell = IF @ = "alive" THEN "dead" ELSE @]
                ELSE IF msg.kind = "input"
                     THEN [container EXCEPT !.read = Append(@, msg)]
                     ELSE container
    /\ UNCHANGED <<link, asked, place, manager, typed, produced, taken>>

\* The shell reads what was written for it.
ShellReads ==
    /\ agent.writable > 0
    /\ agent' = [agent EXCEPT !.writable = 0, !.paused = FALSE]
    /\ UNCHANGED <<link, toAgent, toManager, asked, place, manager, container,
                   typed, produced, taken>>

ResizeDone ==
    /\ agent.resizing # None
    /\ container' = [container EXCEPT !.size = agent.resizing]
    /\ agent' = [agent EXCEPT
          !.resizing = IF agent.closed THEN None ELSE agent.pendingSize,
          !.pendingSize = IF agent.closed THEN @ ELSE None]
    /\ UNCHANGED <<link, toAgent, toManager, asked, place, manager, typed,
                   produced, taken>>
ResizeFails ==
    /\ agent.resizing # None
    /\ AgentIs([Closed(agent) EXCEPT !.resizing = None], <<>>)
    /\ UNCHANGED <<link, toAgent, asked, place, manager, typed, produced, taken>>

\* Defect: the chunk is dropped and the session goes on.
TooMuchDropped == AgentIs(agent, <<>>)
\* A chunk the socket has no room for ends the session.
TooMuch == AgentIs(Closed(agent), <<>>)

\* The data listener: one chunk at a time, the next when it was sent.
Output(n) ==
    /\ container.shell = "alive" /\ ~agent.sending
    /\ Len(produced) < MaxProduced
    /\ LET chunk == Chunk(Len(produced) + 1, n) IN
       /\ produced' = Append(produced, chunk)
       /\ IF Bytes(toManager) + n > MaxBuffered
          THEN TooMuch
          ELSE AgentIs([agent EXCEPT !.sending = TRUE], <<chunk>>)
    /\ UNCHANGED <<link, toAgent, asked, place, manager, typed, taken>>
SendDone ==
    /\ agent.sending
    /\ agent' = [agent EXCEPT !.sending = FALSE]
    /\ UNCHANGED <<link, toAgent, toManager, asked, place, manager, container,
                   typed, produced, taken>>

\* One second after close: terminate, whatever the manager did.
Terminate ==
    /\ agent.closed /\ link = "up"
    /\ link' = "cut"
    /\ UNCHANGED <<toAgent, toManager, asked, place, manager, agent, container,
                   typed, produced, taken>>

\* The connection is lost, and neither end is told.
Vanish ==
    /\ link = "up"
    /\ link' = "lost" /\ toAgent' = <<>> /\ toManager' = <<>>
    /\ UNCHANGED <<asked, place, manager, agent, container, typed, produced,
                   taken>>

Next ==
    \/ Connect \/ ConnectFails \/ ReadyTimeout
    \/ ConsumerCloses \/ ManagerLosesLink \/ ManagerReceives \/ ConsumerReads
    \/ \E n \in Inputs : ConsumerSends(Input(n))
    \/ \E s \in Sizes : ConsumerSends(Resize(s))
    \/ IdleTimeout \/ SessionTimeout \/ StartTimeout
    \/ StreamEnds \/ AgentLosesLink \/ DockerFails
    \/ Inspected \/ ExecCreated \/ Started
    \/ AgentReceives \/ ShellReads \/ ResizeDone \/ ResizeFails
    \/ \E n \in Chunks : Output(n)
    \/ SendDone \/ Terminate \/ Vanish

\* Only timers: nothing is assumed of Docker, of the shell, of the browser, or
\* of the connection.
Fairness == WF_nodeVars(ReadyTimeout) /\ WF_nodeVars(SessionTimeout)

Spec == Init /\ [][Next]_nodeVars /\ Fairness

------------------------------------------------------------------------------
Messages == [kind : {"input"}, bytes : Inputs]
            \cup [kind : {"resize"}, bytes : {0}, size : Sizes]
Replies == [kind : {"chunk"}, nr : 1..MaxProduced, bytes : Chunks]
           \cup [kind : {"ready"}, bytes : {0}, node : Nodes] \cup {CloseFrame}

AgentType ==
    [stage : {"none", "inspect", "exec", "start", "open", "over"},
     closed : BOOLEAN, idleTimer : BOOLEAN, sessionTimer : BOOLEAN,
     startTimer : BOOLEAN, resizing : Sizes \cup {None},
     pendingSize : Sizes \cup {None}, writable : 0..MaxBuffered,
     paused : BOOLEAN, sending : BOOLEAN]

\* Both ends' buffers stay within their limits, and each end is in a state its
\* code knows.
TypeOK ==
    /\ link \in {"none", "up", "cut", "lost"}
    /\ toAgent \in Seq(Messages) /\ toManager \in Seq(Replies)
    /\ asked \in Nodes /\ place \in [node : Nodes, ours : BOOLEAN]
    /\ manager.promise \in {"waiting", "resolved", "rejected"}
    /\ manager.promise = "waiting" => manager.readyTimer
    /\ Bytes(manager.readable) <= MaxBuffered
    /\ agent \in AgentType
    /\ container.shell \in {"none", "alive", "dead"}

\* Across two processes and the limits of both, what the shell reads is what
\* was typed and what the browser gets is what the shell wrote: a terminal that
\* cannot go on ends, it never goes on with a gap.
BytesInOrder ==
    /\ IsPrefix(container.read, Only("input", typed))
    /\ IsPrefix(taken \o manager.readable, produced)

\* A shell on the node lives only while its handler has a session to end, and
\* it is a shell in the task that was asked for.
NoShellLeftBehind ==
    container.shell = "alive" =>
        /\ agent.stage = "open" /\ ~agent.closed
        /\ agent.idleTimer /\ agent.sessionTimer
        /\ place.ours /\ place.node = asked

\* A terminal the manager was promised has been started; and when everything
\* the manager sent has arrived and been applied, the window has the last size.
ReadyIsTrue ==
    manager.promise = "resolved" =>
        /\ container.shell # "none"
        /\ link = "up" /\ ~agent.closed /\ toAgent = <<>>
               /\ agent.resizing = None
           => container.size = LastSize(typed, None)

\* With nothing but the two ends' own timers, whatever Docker, the other end
\* and the connection do: the manager learns whether it has a terminal, and no
\* shell lives for ever.
BothEndsSettle ==
    /\ <>(manager.promise # "waiting")
    /\ container.shell = "alive" ~> container.shell = "dead"
==============================================================================
