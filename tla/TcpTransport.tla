---------------------------- MODULE TcpTransport ----------------------------
(***************************************************************************)
(* One connection of the TCP transport: TcpClientTransport                 *)
(* (transport/src/tcp_client_transport.cpp) with its event loop, the       *)
(* threads that call send and the thread that calls stop, the kernel's     *)
(* byte pipe, and TcpServerTransport (transport/src/tcp_server_transport   *)
(* .cpp) at the other end, which only receives.                            *)
(*                                                                         *)
(* Atomic accesses, system calls and critical sections of write_mutex_ are *)
(* steps of their own; a loop iteration is split where another thread can  *)
(* come between: after epoll_wait, between the handlers, and between the   *)
(* two effects of handle_connect_complete.  The server is one connection   *)
(* wide: its listening socket, and the connection it accepts.              *)
(***************************************************************************)
EXTENDS FrameCodec

CONSTANTS
  Senders,      \* threads that call send
  Payloads,     \* payloads they send
  MaxSends,     \* bound: frames appended
  PipeSize      \* bytes the kernel buffers between the two ends

ASSUME TcpAssumption ==
  /\ Payloads \subseteq Seq(0..(Base - 1))
  /\ PipeSize \in Nat

VARIABLES
  state,        \* ConnectionState
  running,      \* running_ of the client
  stopped,      \* stopped_ of the client
  fd,           \* the client's socket and epoll descriptors
  interest,     \* events the socket is registered for
  loop,         \* where the client's event loop stands
  events,       \* what epoll_wait returned and is not yet handled
  write_buffer, \* bytes to be written
  stopper,      \* where stop() stands
  sender,       \* payload of each send() past its first check, or none
  link,         \* the connection, as the kernel knows it
  pipe,         \* bytes written and not yet read by the server
  srv_running,  \* running_ of the server
  srv_loop,     \* where the server's event loop stands
  srv_events,   \* what its epoll_wait returned and is not yet handled
  srv_stopper,  \* where the server's stop() stands
  srv_conn,     \* the accepted connection at the server
  srv_buffer,   \* its entry in connection_buffers_
  accepted,     \* history: payloads for which send returned true
  delivered,    \* history: payloads handed to the server's callback
  killed        \* the client's process was ended by SIGPIPE

clientVars == <<state, running, stopped, fd, interest, loop, events, write_buffer, stopper>>
srvLoopVars == <<srv_running, srv_loop, srv_events, srv_stopper>>
serverVars == <<srvLoopVars, srv_conn, srv_buffer, delivered>>
vars == <<clientVars, sender, link, pipe, serverVars, accepted, killed>>

\* No payload: Base is not a byte.
None == <<Base>>

Init ==
  /\ state = "DISCONNECTED" /\ running = FALSE /\ stopped = FALSE
  /\ fd = "none" /\ interest = {} /\ loop = "none" /\ events = {}
  /\ write_buffer = <<>> /\ stopper = "none"
  /\ sender = [t \in Senders |-> None]
  /\ link = "none" /\ pipe = <<>>
  /\ srv_running = FALSE /\ srv_loop = "none" /\ srv_events = {} /\ srv_stopper = "none"
  /\ srv_conn = "none" /\ srv_buffer = <<>>
  /\ accepted = <<>> /\ delivered = <<>>
  /\ killed = FALSE

\* The listening socket is open.
Listening == srv_loop # "none" /\ srv_stopper \in {"none", "listen"}

-----------------------------------------------------------------------------
(***************************************************************************)
(* start, stop and send                                                    *)
(***************************************************************************)

\* connect succeeds at once or is in progress; the socket is registered for
\* EPOLLIN or EPOLLOUT accordingly, and the loop is started.
start ==
  /\ fd = "none" /\ ~stopped /\ stopper = "none"
  /\ \/ state' = "CONNECTED" /\ interest' = {"IN"} /\ Listening /\ link' = "up"
     \/ state' = "CONNECTING" /\ interest' = {"OUT"} /\ link' = "syn"
  /\ fd' = "open" /\ running' = TRUE /\ loop' = "wait"
  /\ UNCHANGED <<stopped, events, write_buffer, stopper, sender, pipe, serverVars,
                 accepted, killed>>

\* epoll_create1 fails: the socket is closed again, and state_ stays as connect
\* has left it.  (The earlier failures of start change nothing.)
start_fails ==
  /\ fd = "none" /\ ~stopped /\ stopper = "none"
  /\ state' \in {"CONNECTED", "CONNECTING"}
  /\ fd' = "failed"
  /\ UNCHANGED <<running, stopped, interest, loop, events, write_buffer, stopper, sender, link,
                 pipe, serverVars, accepted, killed>>

\* Mutant of Shutdown: running_ is not cleared and the socket not shut down.
ShutdownNothing == UNCHANGED <<running, fd>>

Shutdown == running' = FALSE /\ fd' = IF fd = "open" THEN "shut" ELSE fd

\* stop: the guard, running_, then shutdown of the socket.
StopBegin ==
  /\ ~stopped
  /\ stopped' = TRUE
  /\ Shutdown
  /\ stopper' = "join"
  /\ UNCHANGED <<state, interest, loop, events, write_buffer, sender, link, pipe,
                 serverVars, accepted, killed>>

\* The loop was joined; the descriptors are closed under write_mutex_.
StopEnd ==
  /\ stopper = "join"
  /\ loop \in {"none", "exited"}
  /\ fd' = IF fd \in {"none", "failed"} THEN fd ELSE "closed"
  /\ state' = "DISCONNECTED"
  /\ stopper' = "done"
  /\ UNCHANGED <<running, stopped, interest, loop, events, write_buffer, sender, link, pipe,
                 serverVars, accepted, killed>>

\* send: the check of state_, outside the lock.
SendCheck(t, payload) ==
  /\ sender[t] = None
  /\ Len(accepted) < MaxSends
  /\ state = "CONNECTED"
  /\ sender' = [sender EXCEPT ![t] = payload]
  /\ UNCHANGED <<clientVars, link, pipe, serverVars, accepted, killed>>

\* Mutant of Refuses: stopped_ is not looked at again.
RefusesNever == FALSE

\* send looks at stopped_ once more under the lock.
Refuses == stopped

\* send: the critical section.  Without descriptors epoll_ctl fails unnoticed.
send(t) ==
  /\ sender[t] # None
  /\ sender' = [sender EXCEPT ![t] = None]
  /\ IF Refuses THEN UNCHANGED <<write_buffer, interest, accepted>>
     ELSE /\ write_buffer' = write_buffer \o encode(sender[t])
          /\ interest' = IF fd = "failed" THEN interest ELSE {"IN", "OUT"}
          /\ accepted' = Append(accepted, sender[t])
  /\ UNCHANGED <<state, running, stopped, fd, loop, events, stopper, link, pipe, serverVars,
                 killed>>

-----------------------------------------------------------------------------
(***************************************************************************)
(* The client's event loop                                                 *)
(***************************************************************************)

\* What epoll reports for the socket.
Ready ==
  (IF fd = "shut" \/ link \in {"refused", "reset", "broken"} THEN {"HUP"} ELSE {})
    \cup {e \in interest :
            \/ e = "IN" /\ link \in {"fin", "reset", "broken"}
            \/ e = "OUT" /\ link \in {"up", "fin"} /\ Len(pipe) < PipeSize}

\* epoll_wait returns; an error or hang-up ends the loop, a completed connect
\* is taken note of, anything else goes to the handlers.
Wait ==
  /\ loop = "wait" /\ running
  /\ Ready # {}
  /\ \/ /\ "HUP" \in Ready
        /\ running' = FALSE
        /\ UNCHANGED <<state, loop, events>>
     \/ /\ "HUP" \notin Ready /\ state = "CONNECTING"
        /\ state' = "CONNECTED" /\ loop' = "complete"
        /\ UNCHANGED <<running, events>>
     \/ /\ "HUP" \notin Ready /\ state = "CONNECTED"
        /\ events' = Ready /\ loop' = "handle"
        /\ UNCHANGED <<state, running>>
  /\ UNCHANGED <<stopped, fd, interest, write_buffer, stopper, sender, link, pipe,
                 serverVars, accepted, killed>>

\* handle_connect_complete, after state_ was set: register for EPOLLIN.
handle_connect_complete ==
  /\ loop = "complete"
  /\ interest' = {"IN"}
  /\ loop' = "wait"
  /\ UNCHANGED <<state, running, stopped, fd, events, write_buffer, stopper, sender, link, pipe,
                 serverVars, accepted, killed>>

\* The server never writes: all there is to read is the end of the stream.
handle_read ==
  /\ loop = "handle" /\ "IN" \in events
  /\ events' = events \ {"IN"}
  /\ running' = FALSE
  /\ UNCHANGED <<state, stopped, fd, interest, loop, write_buffer, stopper, sender, link, pipe,
                 serverVars, accepted, killed>>

\* How many bytes write takes until it would block.
Room ==
  LET room == PipeSize - Len(pipe)
  IN IF room < Len(write_buffer) THEN room ELSE Len(write_buffer)

\* Mutant of Written: the bytes are erased although the pipe took fewer.
WrittenAll(n) == write_buffer' = <<>>

\* write returned n.
Written(n) == write_buffer' = SubSeq(write_buffer, n + 1, Len(write_buffer))

\* The loop of handle_write, under write_mutex_: write until the buffer is
\* empty, and then take EPOLLOUT back, or the pipe is full.
handle_write ==
  /\ loop = "handle" /\ events = {"OUT"}
  /\ (fd = "open" /\ link = "up") \/ write_buffer = <<>>
  /\ pipe' = pipe \o SubSeq(write_buffer, 1, Room)
  /\ Written(Room)
  /\ interest' = IF write_buffer' = <<>> THEN {"IN"} ELSE interest
  /\ events' = {} /\ loop' = "wait"
  /\ UNCHANGED <<state, running, stopped, fd, stopper, sender, link, serverVars, accepted, killed>>

\* handle_write on a connection that broke after epoll_wait: what the peer's
\* close lets through is lost, and answered by a reset; after a reset of an
\* established connection write fails; on a socket that stop has shut down, or
\* once the peer's close was followed by its reset, write raises SIGPIPE, which
\* nobody handles.
WriteBroken ==
  /\ loop = "handle" /\ events = {"OUT"} /\ write_buffer # <<>>
  /\ \/ /\ fd = "open" /\ link = "fin"
        /\ Written(Room)
        /\ link' = "broken"
        /\ killed' \in {FALSE, write_buffer' # <<>>}
        /\ interest' = IF write_buffer' = <<>> THEN {"IN"} ELSE interest
        /\ UNCHANGED running
     \/ /\ fd = "open" /\ link = "reset"
        /\ running' = FALSE
        /\ UNCHANGED <<interest, write_buffer, link, killed>>
     \/ /\ fd = "shut"
        /\ killed' = TRUE
        /\ UNCHANGED <<running, interest, write_buffer, link>>
  /\ events' = {} /\ loop' = "wait"
  /\ UNCHANGED <<state, stopped, fd, stopper, sender, pipe, serverVars, accepted>>

\* Both handlers are done.
Handled ==
  /\ loop = "handle" /\ events = {}
  /\ loop' = "wait"
  /\ UNCHANGED <<state, running, stopped, fd, interest, events, write_buffer, stopper, sender,
                 link, pipe, serverVars, accepted, killed>>

\* The loop sees running_ cleared.
LoopExit ==
  /\ loop = "wait" /\ ~running
  /\ loop' = "exited"
  /\ UNCHANGED <<state, running, stopped, fd, interest, events, write_buffer, stopper, sender,
                 link, pipe, serverVars, accepted, killed>>

-----------------------------------------------------------------------------
(***************************************************************************)
(* The kernel and the server                                               *)
(***************************************************************************)

\* start of the server.  (Its failures change nothing.)
srv_start ==
  /\ srv_loop = "none"
  /\ srv_running' = TRUE /\ srv_loop' = "wait"
  /\ UNCHANGED <<clientVars, sender, link, pipe, srv_events, srv_stopper, srv_conn, srv_buffer,
                 delivered, accepted, killed>>

\* The handshake completes with a listening server, or is refused.
Handshake ==
  /\ link = "syn" /\ fd = "open"
  /\ link' \in IF Listening THEN {"up", "refused"} ELSE {"refused"}
  /\ UNCHANGED <<clientVars, sender, pipe, serverVars, accepted, killed>>

ClientGone == fd \in {"shut", "closed"} \/ killed

\* A connection in the backlog, and a connection with data or the end of it.
SrvReady ==
  (IF Listening /\ link = "up" /\ srv_conn = "none" THEN {"accept"} ELSE {})
    \cup (IF srv_conn = "open" /\ (pipe # <<>> \/ ClientGone) THEN {"read"} ELSE {})

\* epoll_wait returns with events, also when running_ was cleared meanwhile.
SrvWait ==
  /\ srv_loop = "wait" /\ SrvReady # {}
  /\ srv_events' = SrvReady /\ srv_loop' = "handle"
  /\ UNCHANGED <<clientVars, sender, link, pipe, srv_running, srv_stopper, srv_conn, srv_buffer,
                 delivered, accepted, killed>>

\* handle_accept.  Once stop has closed the listening socket the event is taken
\* for one of an unknown connection, or accept fails: nothing happens.
handle_accept ==
  /\ srv_loop = "handle" /\ "accept" \in srv_events
  /\ srv_events' = srv_events \ {"accept"}
  /\ srv_conn' = IF Listening /\ link = "up" THEN "open" ELSE srv_conn
  /\ UNCHANGED <<clientVars, sender, link, pipe, srv_running, srv_loop, srv_stopper, srv_buffer,
                 delivered, accepted, killed>>

\* handle_read(fd): read all there is, decode, hand the payloads to the
\* callback, and close the connection at the end of the stream.
srv_handle_read ==
  LET d == decode(srv_buffer \o pipe)
  IN /\ srv_loop = "handle" /\ "read" \in srv_events
     /\ srv_events' = srv_events \ {"read"}
     /\ pipe' = <<>>
     /\ delivered' = delivered \o d.messages
     /\ srv_buffer' = IF ClientGone THEN <<>> ELSE d.buffer
     /\ srv_conn' = IF ClientGone THEN "closed" ELSE "open"
     /\ UNCHANGED <<clientVars, sender, link, srv_running, srv_loop, srv_stopper, accepted, killed>>

\* The events are handled, or epoll_wait times out: the loop looks at running_.
SrvCheck ==
  /\ srv_loop \in {"wait", "handle"} /\ srv_events = {}
  /\ srv_loop' = IF srv_running THEN "wait" ELSE "exited"
  /\ UNCHANGED <<clientVars, sender, link, pipe, srv_running, srv_events, srv_stopper, srv_conn,
                 srv_buffer, delivered, accepted, killed>>

\* stop of the server: running_ is exchanged.
SrvStopBegin ==
  /\ srv_running
  /\ srv_running' = FALSE /\ srv_stopper' = "listen"
  /\ UNCHANGED <<clientVars, sender, link, pipe, srv_loop, srv_events, srv_conn, srv_buffer,
                 delivered, accepted, killed>>

\* The listening socket is closed; a connection in the backlog is reset.
SrvStopListen ==
  /\ srv_stopper = "listen"
  /\ srv_stopper' = "join"
  /\ IF link = "up" /\ srv_conn = "none"
     THEN link' = "reset" /\ srv_conn' = "closed" /\ pipe' = <<>>
     ELSE UNCHANGED <<link, srv_conn, pipe>>
  /\ UNCHANGED <<clientVars, sender, srv_running, srv_loop, srv_events, srv_buffer, delivered,
                 accepted, killed>>

\* Mutant of SrvJoined: stop does not wait for the loop.
SrvJoinedNot == TRUE

\* The join of the event loop returns.
SrvJoined == srv_loop = "exited"

\* Every connection is closed; unread bytes turn the close into a reset.
SrvStopEnd ==
  /\ srv_stopper = "join" /\ SrvJoined
  /\ srv_stopper' = "done"
  /\ srv_conn' = "closed" /\ srv_buffer' = <<>>
  /\ link' = IF link = "up" /\ srv_conn # "closed"
             THEN IF pipe # <<>> THEN "reset" ELSE "fin"
             ELSE link
  /\ pipe' = <<>>
  /\ UNCHANGED <<clientVars, sender, srv_running, srv_loop, srv_events, delivered, accepted,
                 killed>>

-----------------------------------------------------------------------------
Loop ==
  /\ ~killed
  /\ \/ Wait \/ handle_connect_complete \/ handle_read \/ handle_write
     \/ WriteBroken \/ Handled \/ LoopExit

Send(t) == ~killed /\ send(t)
Stop == ~killed /\ StopEnd

SrvLoop == SrvWait \/ handle_accept \/ srv_handle_read \/ SrvCheck
SrvStop == SrvStopListen \/ SrvStopEnd

Next ==
  \/ Loop \/ Stop \/ Handshake
  \/ SrvLoop \/ SrvStop \/ srv_start \/ SrvStopBegin
  \/ ~killed /\ (start \/ start_fails \/ StopBegin)
  \/ \E t \in Senders : Send(t) \/ (~killed /\ \E payload \in Payloads : SendCheck(t, payload))

Spec == Init /\ [][Next]_vars

\* Threads that are in the middle of a call go on, the event loops turn, and a
\* handshake ends.  Nobody has to send or to stop.
Fairness ==
  /\ WF_vars(Loop) /\ WF_vars(Stop) /\ WF_vars(Handshake)
  /\ WF_vars(SrvLoop) /\ WF_vars(SrvStop)
  /\ \A t \in Senders : WF_vars(Send(t))

FairSpec == Spec /\ Fairness

-----------------------------------------------------------------------------
(***************************************************************************)
(* Properties                                                              *)
(***************************************************************************)

\* The payloads that encode to a frame,
Encodable(payloads) ==
  Joined([i \in DOMAIN payloads |->
            IF Len(payloads[i]) <= MAX_PAYLOAD_SIZE THEN <<payloads[i]>> ELSE <<>>])

\* and those of them that were accepted.
Sent == Encodable(accepted)

\* The stream is conserved: as long as the server has not closed its end, what
\* the callback got, what waits at the server, in the pipe and in write_buffer_
\* is, in this order and to the byte, the encoding of the accepted payloads.
\* Whatever broke, the callback got the first of those payloads, in order,
\* nothing twice and nothing made up.
Conserved ==
  /\ srv_conn # "closed" =>
       Stream(delivered) \o srv_buffer \o pipe \o write_buffer = Stream(accepted)
  /\ \E n \in 0..Len(Sent) : delivered = SubSeq(Sent, 1, n)

\* The comments in stop and send, at both ends: once the client has closed its
\* descriptors no thread touches them; its event loop was joined before, and a
\* send that gets the lock later sees stopped_ and neither buffers nor registers
\* anything.  Once stop of the server has returned, its loop, which may still have
\* had events at hand when running_ was cleared, calls no callback any more, and
\* no connection is left open.
QuietAfterStop ==
  [][/\ fd = "closed" => /\ loop \in {"none", "exited"}
                         /\ UNCHANGED <<loop, interest, write_buffer>>
     /\ srv_stopper = "done" => /\ srv_conn = "closed"
                                /\ UNCHANGED <<delivered, srv_conn, srv_events>>]_vars

\* stop returns, at both ends: the loop it joins does not outlive it by more
\* than the step it is in.
StopReturns ==
  /\ stopper = "join" ~> stopper = "done" \/ killed
  /\ srv_stopper = "listen" ~> srv_stopper = "done"

\* What has left the client and was not cut off by a close of the server is
\* delivered, whole, without waiting for more to come.
Arrives ==
  \A n \in 1..MaxSends :
    Len(Sent) >= n /\ write_buffer = <<>> ~> Len(delivered) >= n \/ ~srv_running

\* Qos: RELIABLE delivery, over TCP, is in order and without loss.  A payload
\* accepted on a connection that stays up is delivered in the end.
ReliableDelivers ==
  \A n \in 1..MaxSends :
    Len(Sent) >= n ~>
      Len(delivered) >= n \/ ~running \/ ~srv_running \/ link # "up"

\* The comment in RemoteSink: without a connection send returns false.  Once
\* the event loop has exited nothing accepted can leave any more.
RefusedWithoutConnection ==
  [][loop = "exited" => UNCHANGED accepted]_vars

\* Transport::stop is graceful and joins the thread: it does not end the
\* process.
GracefulStop == stopper = "join" => ~killed
=============================================================================
