----------------------------- MODULE PrivateStream -----------------------------
(***************************************************************************)
(* Private streams over one control connection: forward_private and        *)
(* agent_read_loop of the daemon (src/src/daemon.rs), the main loop and    *)
(* the bridging tasks of the agent (src/src/agent.rs), the two directions  *)
(* of the socket between them, and the clients and backends at the ends.   *)
(*                                                                         *)
(* Chunks of data are numbered per stream and direction.  Two locks are    *)
(* held across an await: the daemon's stream_tx while its reader waits for *)
(* room in a client's channel, and the agent's streams while its main loop *)
(* waits for room in a backend's channel.  The lock of a socket's write    *)
(* half is held only while the socket is full, when no other writer could  *)
(* go on either, so a write is one step that needs room, with two          *)
(* exceptions: the frame that from_up writes can be cut off in the middle, *)
(* and a failed OpenPrivateStream keeps the lock while it cleans up.       *)
(***************************************************************************)
EXTENDS Naturals, Sequences

CONSTANTS
    Stream,     \* stream ids, one per private request (next_stream_id)
    Cap,        \* capacity of the mpsc channels on both sides (32)
    SockCap,    \* messages the socket holds in one direction
    MaxUp,      \* bound: chunks a backend sends on a stream
    MaxDown,    \* bound: chunks a client sends on a stream
    MayCrash,   \* whether the agent process may die
    MayBreak    \* whether a client's connection may fail with an unusual error

ASSUME CapAssumption == Cap \in Nat \ {0} /\ SockCap \in Nat \ {0}
ASSUME BoundAssumption == MaxUp \in Nat /\ MaxDown \in Nat
ASSUME FaultAssumption == MayCrash \in BOOLEAN /\ MayBreak \in BOOLEAN

VARIABLES
    \* the daemon
    fwd,        \* fwd[s]: where forward_private is
    end,        \* end[s]: why it stopped bridging, "" before
    streamTx,   \* AgentConn.stream_tx: streams whose sender is in the map
    waiters,    \* AgentConn.open_waiters
    outcome,    \* outcome[s]: what the oneshot of s holds
    chan,       \* chan[s]: the channel from the reader to forward_private
    reader,     \* agent_read_loop: reading, or holding a chunk and the lock
    lost,       \* history: the reader has met a frame that was cut off
    \* the control socket
    toAgent, toDaemon,
    \* the agent process
    agentUp,
    loop,       \* its main loop: reading, or busy with one message
    streams,    \* streams whose sender is in the agent's map
    achan,      \* achan[s]: the channel from the main loop to the bridging task
    bridge,     \* bridge[s]: where the bridging task is
    aend,       \* aend[s]: which half ended it, "" before
    writing,    \* streams whose to_up is in the middle of a write to the backend
    half,       \* the stream, if any, whose from_up has written a part of its frame
    \* the two ends
    up, upSent, upRead, upGot,          \* backend of a stream
    cl, clSent, clRead, clGot           \* client of a stream

daemonVars == <<fwd, end, streamTx, waiters, outcome, chan, reader, lost>>
taskVars   == <<writing, half>>
agentVars  == <<agentUp, loop, streams, achan, bridge, aend, taskVars>>
upVars     == <<up, upSent, upRead, upGot>>
clVars     == <<cl, clSent, clRead, clGot>>
vars == <<daemonVars, toAgent, toDaemon, agentVars, upVars, clVars>>

Open(s)        == [type |-> "open", id |-> s]
Result(s, ok)  == [type |-> "result", id |-> s, ok |-> ok]
Data(s, n)     == [type |-> "data", id |-> s, n |-> n]
Close(s)       == [type |-> "close", id |-> s]

\* What is left on the socket of a frame of s whose writer was dropped half-way.
Cut(s)         == [type |-> "cut", id |-> s]

\* The reader of the daemon and the main loop of the agent, when they only read.
Idle == [pc |-> "read"]
Busy(pc, s) == [pc |-> pc, id |-> s]
Holding(s, n) == [pc |-> "send", id |-> s, n |-> n]

TxLocked == reader.pc = "send"
WriterHeld == \E s \in Stream : fwd[s] = "failed"
StreamsLocked == loop.pc = "send"

\* write_message by the daemon and by the agent, when the socket has room.
SendToAgent(m) ==
    /\ agentUp /\ ~WriterHeld /\ Len(toAgent) < SockCap
    /\ toAgent' = Append(toAgent, m)

SendToDaemon(m) ==
    /\ agentUp /\ half = {} /\ Len(toDaemon) < SockCap
    /\ toDaemon' = Append(toDaemon, m)

Init ==
    /\ fwd = [s \in Stream |-> "none"]
    /\ end = [s \in Stream |-> ""]
    /\ streamTx = {} /\ waiters = {}
    /\ outcome = [s \in Stream |-> "none"]
    /\ chan = [s \in Stream |-> <<>>]
    /\ reader = Idle /\ lost = FALSE
    /\ toAgent = <<>> /\ toDaemon = <<>>
    /\ agentUp = TRUE
    /\ loop = Idle
    /\ streams = {}
    /\ achan = [s \in Stream |-> <<>>]
    /\ bridge = [s \in Stream |-> "none"]
    /\ aend = [s \in Stream |-> ""]
    /\ writing = {} /\ half = {}
    /\ up = [s \in Stream |-> "none"]
    /\ upSent = [s \in Stream |-> 0] /\ upRead = [s \in Stream |-> 0]
    /\ upGot = [s \in Stream |-> 0]
    /\ cl = [s \in Stream |-> "open"]
    /\ clSent = [s \in Stream |-> 0] /\ clRead = [s \in Stream |-> 0]
    /\ clGot = [s \in Stream |-> 0]

-----------------------------------------------------------------------------
(***************************************************************************)
(* forward_private                                                         *)
(***************************************************************************)

\* The sender and the waiter are registered before OpenPrivateStream is written.
Begin(s) ==
    /\ fwd[s] = "none" /\ ~TxLocked
    /\ streamTx' = streamTx \cup {s}
    /\ waiters' = waiters \cup {s}
    /\ fwd' = [fwd EXCEPT ![s] = "opening"]
    /\ UNCHANGED <<end, outcome, chan, reader, lost, toAgent, toDaemon, agentVars, upVars,
                   clVars>>

WriteOpen(s) ==
    /\ fwd[s] = "opening"
    /\ SendToAgent(Open(s))
    /\ fwd' = [fwd EXCEPT ![s] = "waiting"]
    /\ UNCHANGED <<end, streamTx, waiters, outcome, chan, reader, lost, toDaemon, agentVars,
                   upVars, clVars>>

\* The write fails: the waiter is removed and, because the guard is a temporary of the
\* condition, the lock of the write half is kept until the handler returns.
WriteFailed(s) ==
    /\ fwd[s] = "opening" /\ ~agentUp /\ ~WriterHeld
    /\ waiters' = waiters \ {s}
    /\ end' = [end EXCEPT ![s] = "gave_up"]
    /\ fwd' = [fwd EXCEPT ![s] = "failed"]
    /\ UNCHANGED <<streamTx, outcome, chan, reader, lost, toAgent, toDaemon, agentVars, upVars,
                   clVars>>

\* Nothing answers for ten seconds: the waiter is removed first.
TimedOut(s) ==
    /\ fwd[s] = "waiting" /\ outcome[s] = "none"
    /\ waiters' = waiters \ {s}
    /\ end' = [end EXCEPT ![s] = "gave_up"]
    /\ fwd' = [fwd EXCEPT ![s] = "abort"]
    /\ UNCHANGED <<streamTx, outcome, chan, reader, lost, toAgent, toDaemon, agentVars, upVars,
                   clVars>>

\* The sender is removed and the handler returns; StreamClose is not sent.
Abort(s) ==
    /\ fwd[s] \in {"abort", "failed"} /\ ~TxLocked
    /\ streamTx' = streamTx \ {s}
    /\ fwd' = [fwd EXCEPT ![s] = "done"]
    /\ UNCHANGED <<end, waiters, outcome, chan, reader, lost, toAgent, toDaemon, agentVars,
                   upVars, clVars>>

\* Mutant: a refused request leaves its sender in the map.
OpenRefusedKeepsTx(s) ==
    /\ fwd[s] = "waiting" /\ outcome[s] = "fail" /\ ~TxLocked
    /\ end' = [end EXCEPT ![s] = "refused"]
    /\ fwd' = [fwd EXCEPT ![s] = "done"]
    /\ UNCHANGED <<streamTx, waiters, outcome, chan, reader, lost, toAgent, toDaemon, agentVars,
                   upVars, clVars>>

OpenRefused(s) ==
    /\ fwd[s] = "waiting" /\ outcome[s] = "fail" /\ ~TxLocked
    /\ streamTx' = streamTx \ {s}
    /\ end' = [end EXCEPT ![s] = "refused"]
    /\ fwd' = [fwd EXCEPT ![s] = "done"]
    /\ UNCHANGED <<waiters, outcome, chan, reader, lost, toAgent, toDaemon, agentVars, upVars,
                   clVars>>

OpenGranted(s) ==
    /\ fwd[s] = "waiting" /\ outcome[s] = "ok"
    /\ fwd' = [fwd EXCEPT ![s] = "bridge"]
    /\ UNCHANGED <<end, streamTx, waiters, outcome, chan, reader, lost, toAgent, toDaemon,
                   agentVars, upVars, clVars>>

\* The select loop picked the client: a chunk is read, and nothing is received from
\* the channel until it has been written to the agent.
ReadClient(s) ==
    /\ fwd[s] = "bridge" /\ cl[s] # "broken" /\ clRead[s] < clSent[s]
    /\ clRead' = [clRead EXCEPT ![s] = @ + 1]
    /\ fwd' = [fwd EXCEPT ![s] = "write"]
    /\ UNCHANGED <<end, streamTx, waiters, outcome, chan, reader, lost, toAgent, toDaemon,
                   agentVars, upVars, cl, clSent, clGot>>

WriteData(s) ==
    /\ fwd[s] = "write"
    /\ SendToAgent(Data(s, clRead[s]))
    /\ fwd' = [fwd EXCEPT ![s] = "bridge"]
    /\ UNCHANGED <<end, streamTx, waiters, outcome, chan, reader, lost, toDaemon, agentVars,
                   upVars, clVars>>

\* Returned errors: the agent is gone, or the client failed in a way that is not
\* benign.  The handler returns at once and leaves its sender in the map.
ReturnError(s) ==
    /\ \/ fwd[s] = "write" /\ ~agentUp /\ ~WriterHeld
       \/ fwd[s] \in {"bridge", "deliver"} /\ cl[s] = "broken"
    /\ end' = [end EXCEPT ![s] = "error"]
    /\ fwd' = [fwd EXCEPT ![s] = "done"]
    /\ UNCHANGED <<streamTx, waiters, outcome, chan, reader, lost, toAgent, toDaemon, agentVars,
                   upVars, clVars>>

ClientEof(s) ==
    /\ fwd[s] = "bridge" /\ cl[s] = "closed" /\ clRead[s] = clSent[s]
    /\ end' = [end EXCEPT ![s] = "client_eof"]
    /\ fwd' = [fwd EXCEPT ![s] = "remove"]
    /\ UNCHANGED <<streamTx, waiters, outcome, chan, reader, lost, toAgent, toDaemon, agentVars,
                   upVars, clVars>>

\* The select loop picked the channel: the chunk is being written to the client, and
\* neither the client nor the channel is read until the write returns.
Deliver(s) ==
    /\ fwd[s] = "bridge" /\ chan[s] # <<>>
    /\ chan' = [chan EXCEPT ![s] = Tail(@)]
    /\ clGot' = [clGot EXCEPT ![s] = IF cl[s] = "open" THEN Head(chan[s]) ELSE @]
    /\ fwd' = [fwd EXCEPT ![s] = "deliver"]
    /\ UNCHANGED <<end, streamTx, waiters, outcome, reader, lost, toAgent, toDaemon, agentVars,
                   upVars, cl, clSent, clRead>>

\* The client, or the buffer of its connection, has taken the chunk.
Delivered(s) ==
    /\ fwd[s] = "deliver"
    /\ fwd' = [fwd EXCEPT ![s] = "bridge"]
    /\ UNCHANGED <<end, streamTx, waiters, outcome, chan, reader, lost, toAgent, toDaemon,
                   agentVars, upVars, clVars>>

\* The client has closed and the write to it fails.
ClientGone(s) ==
    /\ fwd[s] = "deliver" /\ cl[s] = "closed"
    /\ end' = [end EXCEPT ![s] = "client_gone"]
    /\ fwd' = [fwd EXCEPT ![s] = "remove"]
    /\ UNCHANGED <<streamTx, waiters, outcome, chan, reader, lost, toAgent, toDaemon, agentVars,
                   upVars, clVars>>

\* recv() returns None: the sender was dropped and the channel is drained.
ChannelClosed(s) ==
    /\ fwd[s] = "bridge" /\ chan[s] = <<>> /\ s \notin streamTx
    /\ end' = [end EXCEPT ![s] = "stream_closed"]
    /\ fwd' = [fwd EXCEPT ![s] = "remove"]
    /\ UNCHANGED <<streamTx, waiters, outcome, chan, reader, lost, toAgent, toDaemon, agentVars,
                   upVars, clVars>>

\* The receiver is still alive, and no longer read, while the lock is awaited.
RemoveTx(s) ==
    /\ fwd[s] = "remove" /\ ~TxLocked
    /\ streamTx' = streamTx \ {s}
    /\ fwd' = [fwd EXCEPT ![s] = "close"]
    /\ UNCHANGED <<end, waiters, outcome, chan, reader, lost, toAgent, toDaemon, agentVars,
                   upVars, clVars>>

\* Mutant: the handler returns without StreamClose.
WriteNoClose(s) ==
    /\ fwd[s] = "close"
    /\ fwd' = [fwd EXCEPT ![s] = "done"]
    /\ UNCHANGED <<end, streamTx, waiters, outcome, chan, reader, lost, toAgent, toDaemon,
                   agentVars, upVars, clVars>>

WriteClose(s) ==
    /\ fwd[s] = "close"
    /\ \/ SendToAgent(Close(s))
       \/ ~agentUp /\ ~WriterHeld /\ UNCHANGED toAgent
    /\ fwd' = [fwd EXCEPT ![s] = "done"]
    /\ UNCHANGED <<end, streamTx, waiters, outcome, chan, reader, lost, toDaemon, agentVars,
                   upVars, clVars>>

-----------------------------------------------------------------------------
(***************************************************************************)
(* agent_read_loop, the stream messages                                    *)
(***************************************************************************)

Received(type) == reader = Idle /\ toDaemon # <<>> /\ Head(toDaemon).type = type

\* Mutant: the answer is stored although nobody waits for it any more.
ReadResultUnchecked ==
    LET m == Head(toDaemon)
    IN  /\ Received("result")
        /\ toDaemon' = Tail(toDaemon)
        /\ waiters' = waiters \ {m.id}
        /\ outcome' = [outcome EXCEPT ![m.id] = IF m.ok THEN "ok" ELSE "fail"]
        /\ UNCHANGED <<fwd, end, streamTx, chan, reader, lost, toAgent, agentVars, upVars,
                       clVars>>

ReadResult ==
    LET m == Head(toDaemon)
    IN  /\ Received("result")
        /\ toDaemon' = Tail(toDaemon)
        /\ waiters' = waiters \ {m.id}
        /\ outcome' = IF m.id \in waiters
                      THEN [outcome EXCEPT ![m.id] = IF m.ok THEN "ok" ELSE "fail"]
                      ELSE outcome
        /\ UNCHANGED <<fwd, end, streamTx, chan, reader, lost, toAgent, agentVars, upVars,
                       clVars>>

\* The chunk goes to the channel of the stream, with the lock of stream_tx held.
ReadData ==
    LET m == Head(toDaemon)
    IN  /\ Received("data")
        /\ toDaemon' = Tail(toDaemon)
        /\ reader' = IF m.id \in streamTx THEN Holding(m.id, m.n) ELSE Idle
        /\ UNCHANGED <<fwd, end, streamTx, waiters, outcome, chan, lost, toAgent, agentVars,
                       upVars, clVars>>

\* Mutant: the channel has no bound.
PushDataUnbounded ==
    /\ TxLocked
    /\ chan' = [chan EXCEPT ![reader.id] = Append(@, reader.n)]
    /\ reader' = Idle
    /\ UNCHANGED <<fwd, end, streamTx, waiters, outcome, lost, toAgent, toDaemon, agentVars,
                   upVars, clVars>>

\* Mutant: the chunk is dropped when the channel is full (try_send).
PushDataOrDrop ==
    /\ TxLocked
    /\ chan' = [chan EXCEPT ![reader.id] = IF Len(@) < Cap THEN Append(@, reader.n) ELSE @]
    /\ reader' = Idle
    /\ UNCHANGED <<fwd, end, streamTx, waiters, outcome, lost, toAgent, toDaemon, agentVars,
                   upVars, clVars>>

\* Mutant: the receiver outlives forward_private, so that send() never fails.
PushDataWaits ==
    /\ TxLocked /\ Len(chan[reader.id]) < Cap
    /\ chan' = [chan EXCEPT ![reader.id] = Append(@, reader.n)]
    /\ reader' = Idle
    /\ UNCHANGED <<fwd, end, streamTx, waiters, outcome, lost, toAgent, toDaemon, agentVars,
                   upVars, clVars>>

\* send() waits for room, and fails once forward_private has returned.
PushData ==
    LET s == reader.id
    IN  /\ TxLocked
        /\ \/ /\ fwd[s] # "done" /\ Len(chan[s]) < Cap
              /\ chan' = [chan EXCEPT ![s] = Append(@, reader.n)]
           \/ /\ fwd[s] = "done"
              /\ UNCHANGED chan
        /\ reader' = Idle
        /\ UNCHANGED <<fwd, end, streamTx, waiters, outcome, lost, toAgent, toDaemon, agentVars,
                       upVars, clVars>>

\* Mutant: what is still in the channel is thrown away with the sender.
ReadCloseDropsData ==
    LET m == Head(toDaemon)
    IN  /\ Received("close")
        /\ toDaemon' = Tail(toDaemon)
        /\ streamTx' = streamTx \ {m.id}
        /\ chan' = [chan EXCEPT ![m.id] = <<>>]
        /\ UNCHANGED <<fwd, end, waiters, outcome, reader, lost, toAgent, agentVars, upVars,
                       clVars>>

ReadClose ==
    LET m == Head(toDaemon)
    IN  /\ Received("close")
        /\ toDaemon' = Tail(toDaemon)
        /\ streamTx' = streamTx \ {m.id}
        /\ waiters' = waiters \ {m.id}
        /\ outcome' = IF m.id \in waiters THEN [outcome EXCEPT ![m.id] = "fail"] ELSE outcome
        /\ UNCHANGED <<fwd, end, chan, reader, lost, toAgent, agentVars, upVars, clVars>>

\* read_message on what a cut frame left: the length it was promised is filled from the
\* frame that follows, so that one is lost, and what comes out is anything at all: bytes
\* for some stream that its backend never sent, another message, or an error.  The next
\* read may begin in the middle of a frame again.
Garbage == {Data(s, 0) : s \in Stream} \cup {Close(s) : s \in Stream}
           \cup {Result(s, ok) : s \in Stream, ok \in BOOLEAN}

ReadTorn ==
    /\ Received("cut")
    /\ lost' = TRUE
    /\ \/ /\ Len(toDaemon) > 1
          /\ \E m \in {<<>>} \cup {<<g>> : g \in Garbage}, torn \in {<<>>, <<Head(toDaemon)>>} :
                toDaemon' = m \o torn \o Tail(Tail(toDaemon))
          /\ UNCHANGED reader
       \/ /\ Len(toDaemon) > 1 \/ ~agentUp
          /\ reader' = [pc |-> "ended"]
          /\ UNCHANGED toDaemon
    /\ UNCHANGED <<fwd, end, streamTx, waiters, outcome, chan, toAgent, agentVars, upVars,
                   clVars>>

\* End of file: handle_agent goes on to remove the user's devices.
ReaderEof ==
    /\ reader = Idle /\ toDaemon = <<>> /\ ~agentUp
    /\ reader' = [pc |-> "ended"]
    /\ UNCHANGED <<fwd, end, streamTx, waiters, outcome, chan, lost, toAgent, toDaemon, agentVars,
                   upVars, clVars>>

-----------------------------------------------------------------------------
(***************************************************************************)
(* The agent: the main loop handles one message at a time.                 *)
(***************************************************************************)

Arrived(type) == agentUp /\ loop = Idle /\ toAgent # <<>> /\ Head(toAgent).type = type

\* open_private_stream: the route is looked up; an unknown one is refused.
HandleOpen ==
    /\ Arrived("open")
    /\ toAgent' = Tail(toAgent)
    /\ \E pc \in {"connect", "refuse"} : loop' = Busy(pc, Head(toAgent).id)
    /\ UNCHANGED <<daemonVars, toDaemon, agentUp, streams, achan, bridge, aend, taskVars, upVars,
                   clVars>>

\* Connecting and authenticating succeed, fail, or take as long as the backend likes.
Connected ==
    /\ agentUp /\ loop.pc = "connect"
    /\ loop' = Busy("accept", loop.id)
    /\ up' = [up EXCEPT ![loop.id] = "open"]
    /\ UNCHANGED <<daemonVars, toAgent, toDaemon, agentUp, streams, achan, bridge, aend, taskVars,
                   upSent, upRead, upGot, clVars>>

ConnectFailed ==
    /\ agentUp /\ loop.pc = "connect"
    /\ loop' = Busy("refuse", loop.id)
    /\ UNCHANGED <<daemonVars, toAgent, toDaemon, agentUp, streams, achan, bridge, aend, taskVars,
                   upVars, clVars>>

\* write_service fails: the error is logged and nothing is answered.
ServiceWriteFailed ==
    /\ agentUp /\ loop.pc = "connect"
    /\ loop' = Idle
    /\ UNCHANGED <<daemonVars, toAgent, toDaemon, agentUp, streams, achan, bridge, aend, taskVars,
                   upVars, clVars>>

Refuse ==
    /\ loop.pc = "refuse"
    /\ SendToDaemon(Result(loop.id, FALSE))
    /\ loop' = Idle
    /\ UNCHANGED <<daemonVars, toAgent, agentUp, streams, achan, bridge, aend, taskVars, upVars,
                   clVars>>

\* The answer is written first; the sender is in the map before the next message is read.
Grant ==
    /\ loop.pc = "accept"
    /\ SendToDaemon(Result(loop.id, TRUE))
    /\ streams' = streams \cup {loop.id}
    /\ bridge' = [bridge EXCEPT ![loop.id] = "run"]
    /\ loop' = Idle
    /\ UNCHANGED <<daemonVars, toAgent, agentUp, achan, aend, taskVars, upVars, clVars>>

HandleData ==
    LET m == Head(toAgent)
    IN  /\ Arrived("data")
        /\ toAgent' = Tail(toAgent)
        /\ loop' = IF m.id \in streams THEN Holding(m.id, m.n) ELSE Idle
        /\ UNCHANGED <<daemonVars, toDaemon, agentUp, streams, achan, bridge, aend, taskVars,
                       upVars, clVars>>

\* send() waits for room with the lock of streams held.
PushUp ==
    LET s == loop.id
    IN  /\ agentUp /\ StreamsLocked
        /\ \/ /\ bridge[s] # "done" /\ Len(achan[s]) < Cap
              /\ achan' = [achan EXCEPT ![s] = Append(@, loop.n)]
           \/ /\ bridge[s] = "done"
              /\ UNCHANGED achan
        /\ loop' = Idle
        /\ UNCHANGED <<daemonVars, toAgent, toDaemon, agentUp, streams, bridge, aend, taskVars,
                       upVars, clVars>>

HandleClose ==
    /\ Arrived("close")
    /\ toAgent' = Tail(toAgent)
    /\ streams' = streams \ {Head(toAgent).id}
    /\ UNCHANGED <<daemonVars, toDaemon, agentUp, loop, achan, bridge, aend, taskVars, upVars,
                   clVars>>

-----------------------------------------------------------------------------
(***************************************************************************)
(* The bridging task of a stream: to_up and from_up, until one of them     *)
(* ends; then the sender is removed and StreamClose written.               *)
(***************************************************************************)

\* The chunk is being written to the backend.
ToUp(s) ==
    /\ agentUp /\ bridge[s] = "run" /\ s \notin writing /\ achan[s] # <<>>
    /\ achan' = [achan EXCEPT ![s] = Tail(@)]
    /\ upGot' = [upGot EXCEPT ![s] = IF up[s] = "open" THEN Head(achan[s]) ELSE @]
    /\ writing' = writing \cup {s}
    /\ UNCHANGED <<daemonVars, toAgent, toDaemon, agentUp, loop, streams, bridge, aend, half, up,
                   upSent, upRead, clVars>>

\* The backend, or the buffer of its connection, has taken the chunk.
ToUpWritten(s) ==
    /\ agentUp /\ bridge[s] = "run" /\ s \in writing
    /\ writing' = writing \ {s}
    /\ UNCHANGED <<daemonVars, toAgent, toDaemon, agentUp, loop, streams, achan, bridge, aend,
                   half, upVars, clVars>>

\* The select drops from_up where it is.  In the middle of write_message a part of the
\* frame stays on the socket, and the lock of the write half is released.
DropFromUp(s) ==
    /\ toDaemon' = IF s \in half THEN Append(toDaemon, Cut(s)) ELSE toDaemon
    /\ half' = half \ {s}

\* The backend has closed and the write to it fails.
ToUpFailed(s) ==
    /\ agentUp /\ bridge[s] = "run" /\ s \in writing /\ up[s] = "closed"
    /\ DropFromUp(s)
    /\ writing' = writing \ {s}
    /\ aend' = [aend EXCEPT ![s] = "write_failed"]
    /\ bridge' = [bridge EXCEPT ![s] = "remove"]
    /\ UNCHANGED <<daemonVars, toAgent, agentUp, loop, streams, achan, upVars, clVars>>

ToUpDone(s) ==
    /\ agentUp /\ bridge[s] = "run" /\ s \notin writing /\ achan[s] = <<>> /\ s \notin streams
    /\ DropFromUp(s)
    /\ aend' = [aend EXCEPT ![s] = "to_up"]
    /\ bridge' = [bridge EXCEPT ![s] = "remove"]
    /\ UNCHANGED <<daemonVars, toAgent, agentUp, loop, streams, achan, writing, upVars, clVars>>

\* A chunk is read and its frame written with several write_alls: a part of it may be on
\* the socket, which keeps room for the rest, while the lock of the write half is held.
FromUpPart(s) ==
    /\ agentUp /\ half = {} /\ Len(toDaemon) < SockCap
    /\ bridge[s] = "run" /\ upRead[s] < upSent[s]
    /\ half' = {s}
    /\ UNCHANGED <<daemonVars, toAgent, toDaemon, agentUp, loop, streams, achan, bridge, aend,
                   writing, upVars, clVars>>

FromUp(s) ==
    /\ agentUp /\ half \subseteq {s} /\ Len(toDaemon) < SockCap
    /\ bridge[s] = "run" /\ upRead[s] < upSent[s]
    /\ toDaemon' = Append(toDaemon, Data(s, upRead[s] + 1))
    /\ upRead' = [upRead EXCEPT ![s] = @ + 1]
    /\ half' = {}
    /\ UNCHANGED <<daemonVars, toAgent, agentUp, loop, streams, achan, bridge, aend, writing, up,
                   upSent, upGot, clVars>>

FromUpDone(s) ==
    /\ agentUp /\ bridge[s] = "run" /\ up[s] = "closed" /\ upRead[s] = upSent[s]
    /\ aend' = [aend EXCEPT ![s] = "from_up"]
    /\ bridge' = [bridge EXCEPT ![s] = "remove"]
    /\ writing' = writing \ {s}
    /\ UNCHANGED <<daemonVars, toAgent, toDaemon, agentUp, loop, streams, achan, half, upVars,
                   clVars>>

BridgeRemove(s) ==
    /\ agentUp /\ bridge[s] = "remove" /\ ~StreamsLocked
    /\ streams' = streams \ {s}
    /\ bridge' = [bridge EXCEPT ![s] = "close"]
    /\ UNCHANGED <<daemonVars, toAgent, toDaemon, agentUp, loop, achan, aend, taskVars, upVars,
                   clVars>>

BridgeClose(s) ==
    /\ bridge[s] = "close"
    /\ SendToDaemon(Close(s))
    /\ bridge' = [bridge EXCEPT ![s] = "done"]
    /\ UNCHANGED <<daemonVars, toAgent, agentUp, loop, streams, achan, aend, taskVars, upVars,
                   clVars>>

-----------------------------------------------------------------------------
(***************************************************************************)
(* The ends of the streams, and the death of the agent process.            *)
(***************************************************************************)

UpSend(s) ==
    /\ up[s] = "open" /\ upSent[s] < MaxUp
    /\ upSent' = [upSent EXCEPT ![s] = @ + 1]
    /\ UNCHANGED <<daemonVars, toAgent, toDaemon, agentVars, up, upRead, upGot, clVars>>

UpClose(s) ==
    /\ up[s] = "open"
    /\ up' = [up EXCEPT ![s] = "closed"]
    /\ UNCHANGED <<daemonVars, toAgent, toDaemon, agentVars, upSent, upRead, upGot, clVars>>

ClientSend(s) ==
    /\ cl[s] = "open" /\ clSent[s] < MaxDown
    /\ clSent' = [clSent EXCEPT ![s] = @ + 1]
    /\ UNCHANGED <<daemonVars, toAgent, toDaemon, agentVars, upVars, cl, clRead, clGot>>

ClientLeave(s) ==
    /\ cl[s] = "open"
    /\ \E how \in {"closed"} \cup (IF MayBreak THEN {"broken"} ELSE {}) :
          cl' = [cl EXCEPT ![s] = how]
    /\ UNCHANGED <<daemonVars, toAgent, toDaemon, agentVars, upVars, clSent, clRead, clGot>>

\* What the agent sent stays readable; what it has not read is lost.
AgentCrash ==
    /\ MayCrash /\ agentUp
    /\ agentUp' = FALSE
    /\ toAgent' = <<>>
    /\ writing' = {} /\ half' = {}
    /\ UNCHANGED <<daemonVars, toDaemon, loop, streams, achan, bridge, aend, upVars, clVars>>

\* When the reader has stopped with an error, the connection is closed once no handler
\* holds its other half; the agent reads the end of file and ends.
ControlClosed ==
    /\ agentUp /\ loop = Idle /\ toAgent = <<>>
    /\ reader.pc = "ended" /\ \A s \in Stream : fwd[s] \in {"none", "done"}
    /\ agentUp' = FALSE
    /\ writing' = {} /\ half' = {}
    /\ UNCHANGED <<daemonVars, toAgent, toDaemon, loop, streams, achan, bridge, aend, upVars,
                   clVars>>

-----------------------------------------------------------------------------
ForwardStep(s) ==
    \/ Begin(s) \/ WriteOpen(s) \/ WriteFailed(s) \/ TimedOut(s) \/ Abort(s) \/ OpenRefused(s)
    \/ OpenGranted(s) \/ ReadClient(s) \/ WriteData(s) \/ ReturnError(s) \/ ClientEof(s)
    \/ Deliver(s) \/ ChannelClosed(s) \/ RemoveTx(s) \/ WriteClose(s)

ReaderStep == ReadResult \/ ReadData \/ PushData \/ ReadClose \/ ReadTorn \/ ReaderEof

LoopStep == HandleOpen \/ Refuse \/ Grant \/ HandleData \/ PushUp \/ HandleClose \/ ControlClosed

ConnectStep == Connected \/ ConnectFailed \/ ServiceWriteFailed

ToUpStep(s)   == ToUp(s) \/ ToUpDone(s)
FromUpStep(s) == FromUpPart(s) \/ FromUp(s) \/ FromUpDone(s)
BridgeEnd(s)  == BridgeRemove(s) \/ BridgeClose(s)

\* The end of a write is up to the client or the backend written to.
PeerStep(s) == Delivered(s) \/ ClientGone(s) \/ ToUpWritten(s) \/ ToUpFailed(s)

EndStep(s) == UpSend(s) \/ UpClose(s) \/ ClientSend(s) \/ ClientLeave(s)

Next ==
    \/ \E s \in Stream : \/ ForwardStep(s) \/ ToUpStep(s) \/ FromUpStep(s) \/ BridgeEnd(s)
                         \/ PeerStep(s) \/ EndStep(s)
    \/ ReaderStep \/ LoopStep \/ ConnectStep \/ AgentCrash

\* The runtimes of the two processes run every task that can go on; the select loop of
\* forward_private polls its branches in random order, so none is passed over for ever.
\* Nothing obliges a client or a backend to send, to close or to read what is written to
\* it, or a backend to answer while the agent connects to it: the code sets no time limit.
Fairness ==
    /\ \A s \in Stream : /\ WF_vars(ForwardStep(s))
                         /\ SF_vars(Deliver(s)) /\ SF_vars(ReadClient(s))
                         /\ WF_vars(ToUpStep(s)) /\ WF_vars(FromUpStep(s)) /\ WF_vars(BridgeEnd(s))
    /\ WF_vars(ReaderStep) /\ WF_vars(LoopStep)

Spec == Init /\ [][Next]_vars
FairSpec == Spec /\ Fairness

-----------------------------------------------------------------------------
(***************************************************************************)
(* Properties.                                                             *)
(***************************************************************************)

Message == [type : {"open", "close", "cut"}, id : Stream]
           \cup [type : {"result"}, id : Stream, ok : BOOLEAN]
           \cup [type : {"data"}, id : Stream, n : Nat]

\* Every variable has its type, and no channel or socket holds more than its capacity.
TypeOK ==
    /\ fwd \in [Stream -> {"none", "opening", "waiting", "abort", "failed", "bridge",
                           "deliver", "write", "remove", "close", "done"}]
    /\ end \in [Stream -> {"", "gave_up", "refused", "error", "client_eof", "client_gone",
                           "stream_closed"}]
    /\ streamTx \in SUBSET Stream /\ waiters \in SUBSET Stream /\ streams \in SUBSET Stream
    /\ outcome \in [Stream -> {"none", "ok", "fail"}]
    /\ chan \in [Stream -> Seq(Nat)] /\ achan \in [Stream -> Seq(Nat)]
    /\ \A s \in Stream : Len(chan[s]) <= Cap /\ Len(achan[s]) <= Cap
    /\ reader \in {Idle, [pc |-> "ended"]} \cup [pc : {"send"}, id : Stream, n : Nat]
    /\ loop \in {Idle} \cup [pc : {"connect", "accept", "refuse"}, id : Stream]
                \cup [pc : {"send"}, id : Stream, n : Nat]
    /\ toAgent \in Seq(Message) /\ Len(toAgent) <= SockCap
    /\ toDaemon \in Seq(Message) /\ Len(toDaemon) <= SockCap
    /\ half \in SUBSET Stream /\ (half # {} => Len(toDaemon) < SockCap)
    /\ writing \in SUBSET Stream /\ lost \in BOOLEAN
    /\ agentUp \in BOOLEAN
    /\ bridge \in [Stream -> {"none", "run", "remove", "close", "done"}]
    /\ aend \in [Stream -> {"", "to_up", "from_up", "write_failed"}]
    /\ up \in [Stream -> {"none", "open", "closed"}]
    /\ upSent \in [Stream -> 0..MaxUp] /\ upRead \in [Stream -> 0..MaxUp]
    /\ cl \in [Stream -> {"open", "closed", "broken"}]
    /\ clSent \in [Stream -> 0..MaxDown] /\ clRead \in [Stream -> 0..MaxDown]
    /\ upGot \in [Stream -> 0..MaxDown] /\ clGot \in [Stream -> 0..MaxUp]

\* No byte is skipped, repeated or reordered on its way through two tasks, a socket and a
\* bounded channel: each chunk a client or a backend is given is the one after the last (an
\* end that has closed is given nothing).  Nothing is promised once the daemon has read what
\* a dropped from_up left on the socket: the boundaries of the frames are lost then.
DataInOrder ==
    [][lost \/ \A s \in Stream : /\ clGot'[s] # clGot[s] => clGot'[s] = clGot[s] + 1
                                 /\ upGot'[s] # upGot[s] => upGot'[s] = upGot[s] + 1]_vars

\* A transfer is not cut short by the end of the session: when the backend ended it, a
\* client that stayed has everything the backend sent, because StreamClose follows the data
\* and the channel is drained after the sender is gone; and the same the other way round,
\* as long as no cut frame has been read from the socket all streams share.
NothingTruncated ==
    \A s \in Stream :
        /\ end[s] = "stream_closed" /\ aend[s] = "from_up" /\ cl[s] = "open" =>
               clGot[s] = upSent[s] \/ lost
        /\ end[s] = "client_eof" /\ aend[s] = "to_up" /\ up[s] = "open" =>
               upGot[s] = clSent[s] \/ lost

\* A handler that has returned without an error leaves nothing behind in the maps of
\* the connection, whichever of timeout, answer and close came first.
NothingLeftBehind ==
    \A s \in Stream : fwd[s] = "done" /\ end[s] # "error" => s \notin streamTx \cup waiters

\* An answer is applied once, and only to a request that is being opened: a late one,
\* after the ten seconds, reaches nobody.  Even what a cut frame turns into, which may
\* come before the request is written, changes no answer and reaches no other phase.
AnswerReachesWaiter ==
    [][\A s \in Stream : outcome'[s] # outcome[s] =>
           outcome[s] = "none" /\ fwd[s] \in {"waiting"} \cup (IF lost THEN {"opening"} ELSE {})]_vars

\* The waits nobody ends: a lock held for room in a channel whose receiver waits for that
\* lock before it goes away, in the daemon and in the agent; in the daemon also by way of
\* the write half, which a failed request holds while it waits for the lock.
Stuck ==
    \/ /\ TxLocked /\ Len(chan[reader.id]) = Cap
       /\ \/ fwd[reader.id] \in {"abort", "failed", "remove"}
          \/ fwd[reader.id] \in {"opening", "write"} /\ WriterHeld
    \/ StreamsLocked /\ bridge[loop.id] = "remove" /\ Len(achan[loop.id]) = Cap

\* Every client and every backend goes on reading what is written to it, or leaves in a
\* way that ends the write.
PeersRead == \A s \in Stream : []<>(fwd[s] # "deliver") /\ []<>(s \notin writing)

\* When a session is over on the daemon's side, the agent's bridging task ends too, and
\* with it the backend connection, unless one of those waits has begun or the frames'
\* boundaries are lost; a request that was given up or failed is not told to the agent.
SessionTornDown ==
    PeersRead =>
        \A s \in Stream :
            end[s] \in {"client_eof", "client_gone", "stream_closed"} ~>
                bridge[s] \in {"none", "done"} \/ ~agentUp \/ Stuck \/ lost

\* The end of the control connection is noticed, and the user's devices removed, whatever
\* the reader holds in its hands when the agent goes, unless one of those waits has begun
\* or a client stays and does not read.
DisconnectNoticedUnlessStuck == PeersRead => (~agentUp ~> reader.pc = "ended" \/ Stuck)

\* What docs/multi-user-design.md says of a disconnect presupposes that it is noticed, at
\* least as long as every client reads.
DisconnectNoticed == PeersRead => (~agentUp ~> reader.pc = "ended")
=============================================================================
