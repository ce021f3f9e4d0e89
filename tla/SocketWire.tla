----------------------------- MODULE SocketWire -----------------------------
(***************************************************************************)
(* Two wires, SocketWire::Client and SocketWire::Server, that send each    *)
(* other packages over sockets.  A connection breaks and is made again;    *)
(* each wire has a thread that opens or accepts a connection, resumes the  *)
(* send buffer, receives until the connection is gone, pauses the buffer   *)
(* and shuts the socket down.  The buffers are ByteBufferAsyncProcessor's; *)
(* its processor is send0, which writes to the socket of the moment.       *)
(*                                                                         *)
(* A wire has two lifetimes, nested in the same one: that of Base, which   *)
(* receiverProc looks at, and that of Client or Server, which was nested   *)
(* later and so ends first.  The thread is joined when it ends, so that    *)
(* for as long as there is a thread Base's is alive: its tests say nothing *)
(* and `lifetime' is the Client's or Server's own.                         *)
(*                                                                         *)
(* The k-th connection the client opens is number k, and the server        *)
(* accepts them in that order.  A frame is a package, which carries its    *)
(* number and the number of the put it stems from, or an acknowledgement.  *)
(***************************************************************************)
EXTENDS ByteBufferAsyncProcessor, FiniteSets

CONSTANTS
  Client, Server,
  MaxConnections, \* Bound: connections the client opens; the last one lasts.
  Capacity,       \* Frames that the two sockets of a connection buffer, each way.
  MayTerminate    \* The ends whose lifetime may be terminated.

ASSUME WireAssumption ==
  /\ Client # Server
  /\ Ends = {Client, Server}
  /\ MaxConnections \in Nat \ {0}
  /\ Capacity \in Nat \ {0}
  /\ MayTerminate \subseteq Ends

VARIABLES
  socket,    \* The number of the connection of socket_provider; 0 is none yet.
  conn,      \* Where the thread of the connection is with that socket.
  net,       \* The frames each end has sent on each connection and nobody read.
  dead,      \* The connections that are broken or shut down.
  received,  \* max_received_seqn.
  accepted,  \* The packages read_package has accepted, in order.
  inFrame,   \* Whether the stream of messages is where a message begins.
  early,     \* Whether an end has sent a new package before its resume.
  lifetime   \* How far the termination of each Client's or Server's lifetime is.

wireVars == <<socket, conn, net, dead, received, accepted, inFrame, early, lifetime>>
vars == <<bufferVars, wireVars>>

Peer(e) == CHOOSE f \in Ends : f # e

Connections == 1 .. MaxConnections

Package(seqn, msg) == [kind |-> "package", seqn |-> seqn, msg |-> msg]
Ack(seqn) == [kind |-> "ack", seqn |-> seqn]

\* The constructor pauses the buffer and starts it.
WireInit ==
  /\ buffer = [e \in Ends |-> [PausedBuffer EXCEPT !.state = "AsyncProcessing"]]
  /\ puts = [e \in Ends |-> 0]
  /\ sender = [e \in Ends |-> "top"]
  /\ caller = [e \in Ends |-> "paused"]
  /\ resent = [e \in Ends |-> 0]
  /\ closer = [e \in Ends |-> "idle"]
  /\ socket = [e \in Ends |-> 0]
  /\ conn = [e \in Ends |-> "closed"]
  /\ net = [k \in Connections |-> [e \in Ends |-> <<>>]]
  /\ dead = {}
  /\ received = [e \in Ends |-> 0]
  /\ accepted = [e \in Ends |-> <<>>]
  /\ inFrame = [e \in Ends |-> TRUE]
  /\ early = [e \in Ends |-> FALSE]
  /\ lifetime = [e \in Ends |-> "alive"]

-----------------------------------------------------------------------------
(***************************************************************************)
(* Sending.  A frame sent on a dead connection is lost, and whether Send   *)
(* reports it is up to the system; a connection that lives takes a frame   *)
(* when it has room, and the sender waits until it has.                    *)
(***************************************************************************)
HasRoom(e) == socket[e] \in dead \/ Len(net[socket[e]][e]) < Capacity

Sent(e, frame) ==
  IF socket[e] \in dead THEN net
  ELSE [net EXCEPT ![socket[e]][e] = Append(@, frame)]

CanAnswer(e, ok) == HasRoom(e) /\ (ok \/ socket[e] \in dead)

\* send0, called by the sender thread.
SendNew(e) ==
  \E ok \in BOOLEAN :
    /\ Process(e, ok)
    /\ CanAnswer(e, ok)
    /\ net' = IF ok THEN Sent(e, Package(buffer[e].max_sent_seqn + 1, Head(buffer[e].queue)))
              ELSE net
    /\ early' = [early EXCEPT ![e] =
         @ \/ (ok /\ caller[e] \in {"paused", "resuming"} /\ socket[e] \notin dead)]
    /\ UNCHANGED <<socket, conn, dead, received, accepted, inFrame, lifetime>>

\* send0, called by resume.
Resend(e) ==
  \E ok \in BOOLEAN :
    /\ Reprocess(e, ok)
    /\ CanAnswer(e, ok)
    /\ net' = IF ok THEN Sent(e, Package(ResentSeqn(e), buffer[e].pending_queue[resent[e] + 1]))
              ELSE net
    /\ UNCHANGED <<socket, conn, dead, received, accepted, inFrame, early, lifetime>>

-----------------------------------------------------------------------------
(***************************************************************************)
(* The thread of the connection.  "closed": the head of its loop;          *)
(* "connecting": it opens or accepts a connection; "open":                 *)
(* set_socket_provider has the socket; "hungup": receiverProc has ended;   *)
(* "expired": the thread is over.                                          *)
(***************************************************************************)
GoOn(e) ==
  /\ conn[e] = "closed"
  /\ lifetime[e] = "alive"
  /\ conn' = [conn EXCEPT ![e] = "connecting"]
  /\ UNCHANGED <<bufferVars, socket, net, dead, received, accepted, inFrame, early, lifetime>>

Expire(e) ==
  /\ conn[e] = "closed"
  /\ lifetime[e] # "alive"
  /\ conn' = [conn EXCEPT ![e] = "expired"]
  /\ UNCHANGED <<bufferVars, socket, net, dead, received, accepted, inFrame, early, lifetime>>

\* Until the termination of the server closes its listening socket.
Listening == lifetime[Server] \notin {"joining", "terminated"}

CanConnect(e) ==
  /\ Listening
  /\ socket[e] < (IF e = Client THEN MaxConnections ELSE socket[Client])

(***************************************************************************)
(* A connection that is there after the lifetime has ended is closed       *)
(* again.  The thread of the client then returns; the one of the server    *)
(* uses the closed socket.                                                 *)
(***************************************************************************)
Connect(e) ==
  /\ conn[e] = "connecting"
  /\ CanConnect(e)
  /\ socket' = [socket EXCEPT ![e] = @ + 1]
  /\ dead' = IF lifetime[e] = "alive" THEN dead ELSE dead \cup {socket[e] + 1}
  /\ conn' = [conn EXCEPT ![e] =
                IF e = Client /\ lifetime[e] # "alive" THEN "expired" ELSE "open"]
  /\ UNCHANGED <<bufferVars, net, received, accepted, inFrame, early, lifetime>>

\* Nobody listens, the bound is reached, or the termination has closed the client's socket.
FailToConnect(e) ==
  /\ conn[e] = "connecting"
  /\ \/ ~Listening
     \/ e = Client /\ (socket[e] = MaxConnections \/ lifetime[e] \in {"joining", "terminated"})
  /\ conn' = [conn EXCEPT ![e] = "closed"]
  /\ UNCHANGED <<bufferVars, socket, net, dead, received, accepted, inFrame, early, lifetime>>

Resume(e) ==
  /\ conn[e] = "open"
  /\ BeginResume(e)
  /\ UNCHANGED wireVars

\* What resume and pause do by themselves.
ResumeOrPause(e) ==
  /\ BeginReprocess(e) \/ EndResume(e) \/ EndPause(e)
  /\ UNCHANGED wireVars

Receiving(e) ==
  /\ conn[e] = "open"
  /\ caller[e] = "resumed"

\* What e reads next from its socket.
Arrived(e) == net[socket[e]][Peer(e)]

IsNext(e, kind) == Arrived(e) # <<>> /\ Head(Arrived(e)).kind = kind

\* A mutant: the last package that was received counts as new.
ReceivePackageAgain(e) ==
  /\ Receiving(e)
  /\ IsNext(e, "package")
  /\ HasRoom(e)
  /\ LET package == Head(Arrived(e))
         rest == [net EXCEPT ![socket[e]][Peer(e)] = Tail(@)]
     IN  /\ net' = IF socket[e] \in dead THEN rest
                   ELSE [rest EXCEPT ![socket[e]][e] = Append(@, Ack(package.seqn))]
         /\ IF package.seqn < received[e] /\ package.seqn # 1
            THEN /\ inFrame' = [inFrame EXCEPT ![e] = FALSE]
                 /\ UNCHANGED <<received, accepted>>
            ELSE /\ received' = [received EXCEPT ![e] = package.seqn]
                 /\ accepted' = [accepted EXCEPT ![e] = Append(@, package.msg)]
                 /\ UNCHANGED inFrame
  /\ UNCHANGED <<bufferVars, socket, conn, dead, early, lifetime>>

(***************************************************************************)
(* read_package, and the dispatch of its message.  The package is          *)
(* acknowledged first.  One that is not new is left out, except for number *)
(* 1, with which a restarted peer would begin; but what read_package then  *)
(* answers, true, is to its caller the length of a package, of one byte:   *)
(* the stream of messages is out of frame from there on.                   *)
(***************************************************************************)
ReceivePackage(e) ==
  /\ Receiving(e)
  /\ IsNext(e, "package")
  /\ HasRoom(e)
  /\ LET package == Head(Arrived(e))
         rest == [net EXCEPT ![socket[e]][Peer(e)] = Tail(@)]
     IN  /\ net' = IF socket[e] \in dead THEN rest
                   ELSE [rest EXCEPT ![socket[e]][e] = Append(@, Ack(package.seqn))]
         /\ IF package.seqn <= received[e] /\ package.seqn # 1
            THEN /\ inFrame' = [inFrame EXCEPT ![e] = FALSE]
                 /\ UNCHANGED <<received, accepted>>
            ELSE /\ received' = [received EXCEPT ![e] = package.seqn]
                 /\ accepted' = [accepted EXCEPT ![e] = Append(@, package.msg)]
                 /\ UNCHANGED inFrame
  /\ UNCHANGED <<bufferVars, socket, conn, dead, early, lifetime>>

\* read_header passes an acknowledgement on to the buffer.
ReceiveAck(e) ==
  /\ Receiving(e)
  /\ IsNext(e, "ack")
  /\ Acknowledge(e, Head(Arrived(e)).seqn)
  /\ net' = [net EXCEPT ![socket[e]][Peer(e)] = Tail(@)]
  /\ UNCHANGED <<socket, conn, dead, received, accepted, inFrame, early, lifetime>>

\* A mutant: the thread goes back for a new socket without pausing the buffer.
HangUpAtOnce(e) ==
  /\ Receiving(e)
  /\ socket[e] \in dead
  /\ conn' = [conn EXCEPT ![e] = "closed"]
  /\ UNCHANGED <<bufferVars, socket, net, dead, received, accepted, inFrame, early, lifetime>>

\* receiverProc ends, and can end only so: the socket answers no more.
HangUp(e) ==
  /\ Receiving(e)
  /\ socket[e] \in dead
  /\ conn' = [conn EXCEPT ![e] = "hungup"]
  /\ UNCHANGED <<bufferVars, socket, net, dead, received, accepted, inFrame, early, lifetime>>

PauseDisconnected(e) ==
  /\ conn[e] = "hungup"
  /\ BeginPause(e)
  /\ UNCHANGED wireVars

Shutdown(e) ==
  /\ conn[e] = "hungup"
  /\ caller[e] = "paused"
  /\ conn' = [conn EXCEPT ![e] = "closed"]
  /\ dead' = dead \cup {socket[e]}
  /\ UNCHANGED <<bufferVars, socket, net, received, accepted, inFrame, early, lifetime>>

\* The network breaks a connection, but for the last that the bound allows.
Break(k) ==
  /\ k <= socket[Client]
  /\ k < MaxConnections
  /\ k \notin dead
  /\ dead' = dead \cup {k}
  /\ UNCHANGED <<bufferVars, socket, conn, net, received, accepted, inFrame, early, lifetime>>

-----------------------------------------------------------------------------
(***************************************************************************)
(* The lifetime of a Client or Server is terminated: it is marked, the     *)
(* send buffer is stopped, the socket is closed, and the thread of the     *)
(* connection joined.                                                      *)
(***************************************************************************)
BeginTermination(e) ==
  /\ e \in MayTerminate
  /\ lifetime[e] = "alive"
  /\ lifetime' = [lifetime EXCEPT ![e] = "stopping"]
  /\ UNCHANGED <<bufferVars, socket, conn, net, dead, received, accepted, inFrame, early>>

StopBuffer(e) ==
  /\ lifetime[e] = "stopping"
  /\ Terminate0(e, "Stopping")
  /\ lifetime' = [lifetime EXCEPT ![e] = "stopped"]
  /\ UNCHANGED <<socket, conn, net, dead, received, accepted, inFrame, early>>

BufferStopped(e) ==
  /\ lifetime[e] = "stopped"
  /\ Cleanup0(e)
  /\ UNCHANGED wireVars

\* A mutant: the thread is joined with its socket still open.
JoinWithoutClosing(e) ==
  /\ lifetime[e] = "stopped"
  /\ closer[e] = "idle"
  /\ lifetime' = [lifetime EXCEPT ![e] = "joining"]
  /\ UNCHANGED <<bufferVars, socket, conn, net, dead, received, accepted, inFrame, early>>

\* The server closes its listening socket as well, with what is not accepted.
CloseSocket(e) ==
  /\ lifetime[e] = "stopped"
  /\ closer[e] = "idle"
  /\ lifetime' = [lifetime EXCEPT ![e] = "joining"]
  /\ dead' = dead \cup {k \in Connections :
                         k = socket[e] \/ (e = Server /\ k > socket[e])}
  /\ UNCHANGED <<bufferVars, socket, conn, net, received, accepted, inFrame, early>>

Join(e) ==
  /\ lifetime[e] = "joining"
  /\ conn[e] = "expired"
  /\ lifetime' = [lifetime EXCEPT ![e] = "terminated"]
  /\ UNCHANGED <<bufferVars, socket, conn, net, dead, received, accepted, inFrame, early>>

-----------------------------------------------------------------------------
\* The three threads at an end.
SenderThread(e) == SendNew(e) \/ (ThreadProc(e) /\ UNCHANGED wireVars)

ConnectionThread(e) ==
  \/ GoOn(e) \/ Expire(e) \/ Connect(e) \/ FailToConnect(e)
  \/ Resume(e) \/ ResumeOrPause(e) \/ Resend(e)
  \/ ReceivePackage(e) \/ ReceiveAck(e)
  \/ HangUp(e) \/ PauseDisconnected(e) \/ Shutdown(e)

TerminatingThread(e) == StopBuffer(e) \/ BufferStopped(e) \/ CloseSocket(e) \/ Join(e)

WireNext ==
  \/ \E e \in Ends :
       \/ (Put(e) \/ WakeUp(e)) /\ UNCHANGED wireVars
       \/ SenderThread(e)
       \/ ConnectionThread(e)
       \/ BeginTermination(e) \/ TerminatingThread(e)
  \/ \E k \in Connections : Break(k)

(***************************************************************************)
(* Every thread goes on when it can; packages are put, connections broken  *)
(* and lifetimes terminated by others, who need not, and no wait ends by   *)
(* itself.  Weak fairness is enough, also for what waits for `lock' or for *)
(* room in a socket: with the number of connections these are taken from   *)
(* it only so many times.                                                  *)
(***************************************************************************)
WireFairness ==
  /\ \A e \in Ends : WF_vars(SenderThread(e)) /\ WF_vars(ConnectionThread(e))
  /\ \A e \in MayTerminate : WF_vars(TerminatingThread(e))

WireSpec == WireInit /\ [][WireNext]_vars /\ WireFairness

-----------------------------------------------------------------------------
\* The variables have their types, no connection has more frames than it buffers, and an
\* end that is not paused has its socket open or has just hung up.
WireTypeOK ==
  /\ TypeOK
  /\ socket \in [Ends -> 0 .. MaxConnections]
  /\ conn \in [Ends -> {"closed", "connecting", "open", "hungup", "expired"}]
  /\ dead \subseteq Connections
  /\ \A k \in Connections, e \in Ends :
       /\ Len(net[k][e]) <= Capacity
       /\ socket[e] < k => net[k][e] = <<>>
  /\ received \in [Ends -> Nat]
  /\ inFrame \in [Ends -> BOOLEAN]
  /\ early \in [Ends -> BOOLEAN]
  /\ lifetime \in [Ends -> {"alive", "stopping", "stopped", "joining", "terminated"}]
  /\ \A e \in Ends :
       \/ caller[e] = "paused"
       \/ conn[e] = "open" /\ caller[e] # "pausing"
       \/ conn[e] = "hungup" /\ caller[e] \in {"resumed", "pausing"}

\* The packages that e has got from its peer.
Got(e) == {accepted[e][i] : i \in 1 .. Len(accepted[e])}

(***************************************************************************)
(* A number means one package: whatever was resent, acknowledged or lost,  *)
(* on whichever connection, number n carries what was put n-th.            *)
(***************************************************************************)
NumberNamesPackage ==
  \A k \in Connections, e \in Ends :
    \A i \in 1 .. Len(net[k][e]) :
      net[k][e][i].kind = "package" => net[k][e][i].msg = net[k][e][i].seqn

(***************************************************************************)
(* A package is let go by its sender only when the other end has it; the   *)
(* exception is a sender thread that has sent a new package on a new       *)
(* connection before resume has sent the old ones again.                   *)
(***************************************************************************)
NothingForgotten ==
  \A e \in Ends : ~early[e] =>
    \A n \in 1 .. buffer[e].acknowledged_seqn : n \in Got(Peer(e))

(***************************************************************************)
(* With the same exception no package is accepted before those that were   *)
(* put before it have been.                                                *)
(***************************************************************************)
NothingSkipped ==
  \A e \in Ends : ~early[Peer(e)] => \A n \in Got(e) : 1 .. n \subseteq Got(e)

(***************************************************************************)
(* As long as an end is on its first connection it gets no package twice   *)
(* and its stream of messages stays in frame.                              *)
(***************************************************************************)
FirstConnectionIsInFrame ==
  \A e \in Ends : (socket[Client] = 1) =>
    /\ inFrame[e]
    /\ Cardinality(Got(e)) = Len(accepted[e])

\* Over any number of connections a number means one package and none is lost; on the first
\* none is doubled.
NothingLost ==
  NumberNamesPackage /\ NothingForgotten /\ NothingSkipped /\ FirstConnectionIsInFrame

\* Every acknowledgement that arrives is of a higher number than the last.
AcknowledgementsGrow ==
  [][\A e \in Ends :
       ReceiveAck(e) => Head(Arrived(e)).seqn > buffer[e].acknowledged_seqn]_vars

\* The socket has no room for what an end has to send before it reads on.
Stuck(e) ==
  /\ \/ caller[e] = "resending" /\ resent[e] < Len(buffer[e].pending_queue)
     \/ caller[e] = "resuming" /\ sender[e] = "processing" /\ buffer[e].queue # <<>>
     \/ Receiving(e) /\ IsNext(e, "package")
  /\ ~HasRoom(e)

\* Both ends wait for the other to read.
Clogged == \A e \in Ends : Stuck(e)

(***************************************************************************)
(* Resending comes to its end and the connection to where it receives or   *)
(* is found broken, although the other end may be resending too and not    *)
(* receiving; the exception is a connection that is clogged for good.      *)
(***************************************************************************)
ConnectionReceives ==
  <>[]Clogged \/ \A e \in Ends : []<>(caller[e] \notin {"resuming", "resending"})

\* What a failed sending has left in the queue of e is all that e has to send.
Left(e) ==
  /\ sender[e] \in {"waiting", "woken"}
  /\ buffer[e].data = <<>>
  /\ buffer[e].queue # <<>>

(***************************************************************************)
(* All that was put arrives in the end, however often the connection       *)
(* breaks before it lasts and whatever is resent, with three exceptions: a *)
(* connection that is clogged for good; packages that are left in the      *)
(* queue for good, since resume does not look there and no other put makes *)
(* the sender thread do so; and what an early package has made the other   *)
(* end take for a duplicate.                                               *)
(***************************************************************************)
EveryPackageArrives ==
  \/ <>[]Clogged
  \/ \A e \in Ends :
       \/ <>[]Left(e)
       \/ []<>(\/ 1 .. puts[e] \subseteq Got(Peer(e))
              \/ early[e]
              \/ \E f \in Ends : lifetime[f] # "alive")

\* A connection gets to receiving and what is put arrives.
WireServes == ConnectionReceives /\ EveryPackageArrives

(***************************************************************************)
(* The termination of a wire's lifetime ends, wherever it finds the sender *)
(* thread and the thread of the connection, which it joins, and also if    *)
(* the other end terminates too.  The exception is the clogged connection  *)
(* again: stop waits for `lock', which a resume that is stuck holds.       *)
(***************************************************************************)
TerminationEnds ==
  \/ <>[]Clogged
  \/ \A e \in MayTerminate :
       []<>(lifetime[e] = "alive" \/ (lifetime[e] = "terminated" /\ sender[e] = "ended"))

\* What an end has got since package 1 arrived last.
SinceOne(e) ==
  LET ones == {i \in 1 .. Len(accepted[e]) : accepted[e][i] = 1}
      last == CHOOSE i \in ones : \A j \in ones : j <= i
  IN  IF ones = {} THEN accepted[e] ELSE SubSeq(accepted[e], last, Len(accepted[e]))

Delivered == [e \in Ends |-> SinceOne(e)]

\* The channel the two wires make up.
Channel == INSTANCE OrderedChannel WITH accepted <- Delivered

BeginsAgain == \E e \in Ends : Delivered' = [Delivered EXCEPT ![e] = <<1>>]

(***************************************************************************)
(* Over all connections together the wires still do the steps of the       *)
(* channel, up to the first package that is sent early.  They neither      *)
(* repeat nor reorder nor leave out anything, except that with package 1,  *)
(* which is taken for the first of a restarted peer, all begins again.     *)
(***************************************************************************)
IsChannelUntilEarly ==
  [][Channel!Next \/ BeginsAgain \/ \E e \in Ends : early'[e]]_<<puts, accepted>>
=============================================================================
