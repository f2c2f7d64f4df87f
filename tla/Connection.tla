------------------------------ MODULE Connection ------------------------------
(***************************************************************************)
(* One Connection from TcpServer::newConnection to its destructor: its io  *)
(* loop, on whose thread every handler runs; worker threads that hold a    *)
(* ConnectionPtr and call send() or shutdown(); the main loop, which       *)
(* removes the connection from TcpServer::connections_; the peer.          *)
(*                                                                         *)
(* The io loop is used as SerialExecutor promises: functors run in the     *)
(* order they were queued, one at a time, none while a channel is handled. *)
(* The swap into a batch is kept, for the batch holds the references its   *)
(* functors are bound to until all of it has run.                          *)
(*                                                                         *)
(* A functor bound to shared_from_this() keeps the connection alive;       *)
(* sendInLoop and shutdownInloop are bound to the bare `this` and, from    *)
(* another thread, sendInLoop to the address of the caller's text.         *)
(*                                                                         *)
(* Data: a message is MessageSize units that go out one after the other.   *)
(* Input is reduced to its arrival.  A handler's steps that no other       *)
(* thread can see between are one action; the user's callbacks are phases  *)
(* of their own, in which user code may call the connection.               *)
(***************************************************************************)
EXTENDS Channel, Naturals, Sequences, FiniteSets, Functions

CONSTANTS
  Workers,           \* threads other than the loops'
  WorkerCalls,       \* what user code on them calls ...
  IoCalls,           \* ... and on the io thread: subsets of Call
  ServerEnds,        \* the TcpServer may be destroyed
  Messages,          \* each passed to send() at most once
  MessageSize,       \* units of a message
  Garbage,           \* what freed memory reads as
  HighWaterMark,     \* highWaterMark_, in units
  CallbacksSet,      \* write-complete and high-water callbacks are set
  NoMessage          \* in place of a message

ASSUME MessageAssumption ==
  /\ MessageSize \in Nat \ {0}
  /\ HighWaterMark \in Nat \ {0}
  /\ Garbage \notin Messages /\ NoMessage \notin Messages \cup {Garbage}

Call == {"send", "shutdown"}

ASSUME CallAssumption ==
  /\ WorkerCalls \subseteq Call /\ IoCalls \subseteq Call
  /\ CallbacksSet \in BOOLEAN /\ ServerEnds \in BOOLEAN

VARIABLES
  state,      \* state_
  ch,         \* channel_, see Channel
  output,     \* OutputBuffer_
  io,         \* the io thread: in its loop, in user code, or in a fault
  revents,    \* revents_ still to be handled by handleEvent
  pending,    \* pendingFunctors_ of the io loop
  functors,   \* the batch doPendingFunctors runs, less what it ran
  spent,      \* a functor already run in this batch holds a reference
  worker,     \* worker[w]: the task the thread executes
  inMap,      \* TcpServer::connections_ has the connection
  removals,   \* removeConnectionInLoop functors queued on the main loop
  server,     \* the TcpServer runs, or its destructor was entered
  wire,       \* units the kernel took, in order
  sock,       \* the rest of the socket: a record of
              \*   fin   our write side was shut down
              \*   peer  the peer's end: open, closed (FIN) or reset (RST)
              \*   input input waits to be read
              \*   err   SO_ERROR
  unsent,     \* messages not yet passed to send()
  told        \* history: what connectionCallback_ told the user

connVars   == <<state, ch, output>>
loopVars   == <<pending, functors, spent>>
ioVars     == <<io, revents>>
serverVars == <<inMap, removals, server>>
netVars    == <<wire, sock>>
userVars   == <<worker, unsent>>
vars == <<connVars, loopVars, ioVars, serverVars, netVars, userVars, told>>

UserPhase == {"up", "message", "closing", "destroying", "notified"}

(* Faulty variant: the terminating NUL of c_str() is sent too. *)
Unit_WithNul(m) == [i \in 1 .. MessageSize + 1 |-> <<m, i>>]

Unit(m) == [i \in 1 .. MessageSize |-> <<m, i>>]

(* Functors of the io loop. *)
Fn(name)     == [fn |-> name, msg |-> NoMessage, by |-> NoMessage]
SendFn(m, w) == [fn |-> "sendInLoop", msg |-> m, by |-> w]

HoldsRef(f) == f.fn \notin {"sendInLoop", "shutdownInloop"}

Idle == [at |-> "none", call |-> "none", msg |-> NoMessage]

(* Init: newConnection has made the connection, put it into connections_   *)
(* and called runInLoop(connectEstablished) on a loop not its own.         *)
Init ==
  /\ state = "kConnecting"
  /\ ch = NewChannel
  /\ output = <<>>
  /\ io = "loop"
  /\ revents = {}
  /\ pending = <<Fn("connectEstablished")>>
  /\ functors = <<>>
  /\ spent = FALSE
  /\ worker = [w \in Workers |-> Idle]
  /\ inMap = TRUE
  /\ removals = 0
  /\ server = "running"
  /\ wire = <<>>
  /\ sock = [fin |-> FALSE, peer |-> "open", input |-> FALSE, err |-> "none"]
  /\ unsent = Messages
  /\ told = "new"

(* Somebody holds a ConnectionPtr: the map, a functor, a task, or the      *)
(* guard of handleEvent.  tie_ is locked with the epoll_wait that reports  *)
(* the channel: what may be freed between the two is TcpServer's question. *)
Alive ==
  \/ inMap \/ removals > 0 \/ spent
  \/ \E f \in Range(pending) \cup Range(functors) : HoldsRef(f)
  \/ \E w \in Workers : worker[w].at # "none"
  \/ revents # {} \/ io \in UserPhase

-----------------------------------------------------------------------------
(* Parts of the handlers.                                                  *)

(* The kernel takes data; it takes none after a reset or our own FIN.      *)
CanWrite == ~sock.fin /\ sock.peer # "reset"

(* write() fails: ECONNRESET is reported once, anything after it is EPIPE, *)
(* and SIGPIPE, which the program leaves at its default, ends the process. *)
WriteFails ==
  /\ ~CanWrite
  /\ sock' = [sock EXCEPT !.err = "none"]
  /\ io' = IF sock.err = "ECONNRESET" THEN io ELSE "fault"

(* shutdown(SHUT_WR), which fails with ENOTCONN after a reset. *)
ShutdownWrite == sock' = [sock EXCEPT !.fin = sock.fin \/ sock.peer # "reset"]

(* Faulty variant: the write side is shut down whatever waits. *)
ShutdownInloop_NoDrain == ShutdownWrite

ShutdownInloop == IF IsWriting(ch) THEN UNCHANGED sock ELSE ShutdownWrite

Callback(name) == IF CallbacksSet THEN <<Fn(name)>> ELSE <<>>

(* Faulty variant: what remains of a direct write is not watched. *)
Buffer_NoWriteInterest(rest) ==
  /\ output' = output \o rest
  /\ pending' = pending \o (IF rest = <<>> THEN Callback("writeComplete") ELSE <<>>)
  /\ UNCHANGED ch

(* The rest of sendInLoop once write() took what it could: buffer what     *)
(* remains and ask for EPOLLOUT.                                           *)
Buffer(rest) ==
  LET crosses == /\ Len(output) < HighWaterMark
                 /\ Len(output) + Len(rest) >= HighWaterMark
  IN /\ output' = output \o rest
     /\ ch' = IF rest # <<>> /\ ~IsWriting(ch) THEN EnableWriting(ch) ELSE ch
     /\ pending' = pending
          \o (IF rest = <<>> THEN Callback("writeComplete") ELSE <<>>)
          \o (IF rest # <<>> /\ crosses THEN Callback("highWaterMark") ELSE <<>>)

(* Nothing waits before u: write() takes some of u, none on EWOULDBLOCK. *)
WriteDirect(u) ==
  \/ /\ CanWrite
     /\ \E n \in 0 .. Len(u) :
          wire' = wire \o SubSeq(u, 1, n) /\ Buffer(SubSeq(u, n + 1, Len(u)))
     /\ UNCHANGED <<sock, io>>
  \/ WriteFails /\ UNCHANGED <<ch, output, pending, wire>>

GiveUp == UNCHANGED <<ch, output, pending, netVars, io>>

(* Faulty variant: the text is written although earlier text waits. *)
SendInLoop_Overtakes(u) == IF state = "kDisconnected" THEN GiveUp ELSE WriteDirect(u)

(* Faulty variant: state_ is not tested. *)
SendInLoop_AfterClose(u) ==
  IF IsWriting(ch) \/ output # <<>>
  THEN Buffer(u) /\ UNCHANGED <<netVars, io>>
  ELSE WriteDirect(u)

(* sendInLoop of the units u, on the io thread. *)
SendInLoop(u) ==
  CASE state = "kDisconnected" -> GiveUp
    [] state # "kDisconnected" /\ (IsWriting(ch) \/ output # <<>>) ->
         Buffer(u) /\ UNCHANGED <<netVars, io>>
    [] OTHER -> WriteDirect(u)

TellDown ==
  told' = IF told \in {"down", "down again"} THEN "down again" ELSE "down"

(* handleClose up to the user's callback; what follows is ClosingReturns. *)
HandleClose ==
  /\ state' = "kDisconnected"
  /\ ch' = DisableAll(ch)
  /\ TellDown
  /\ io' = "closing"

-----------------------------------------------------------------------------
(* The io thread: events.                                                  *)

(* epoll_wait reports the channel, level-triggered: HUP and ERR whatever   *)
(* the interest; whether the socket is writable depends on the peer.       *)
Poll(writable) ==
  LET ready ==
        (IF sock.peer = "reset" \/ (sock.peer = "closed" /\ sock.fin) THEN {"HUP"} ELSE {})
        \cup (IF sock.err # "none" THEN {"ERR"} ELSE {})
        \cup (IF "read" \in ch.events /\ (sock.input \/ sock.peer # "open") THEN {"IN"} ELSE {})
        \cup (IF IsWriting(ch) /\ (writable \/ ~CanWrite) THEN {"OUT"} ELSE {})
  IN /\ io = "loop" /\ revents = {} /\ functors = <<>> /\ ~spent
     /\ Alive /\ ch.inEpoll
     /\ ready # {}
     /\ revents' = ready
     /\ UNCHANGED <<connVars, loopVars, serverVars, netVars, userVars, io, told>>

(* handleEventWithGuard looks at HUP, ERR, IN and OUT in this order. *)
Dispatch(event, before) ==
  /\ io = "loop"
  /\ event \in revents /\ revents \cap before = {}
  /\ revents' = revents \ {event}

EventHup ==
  /\ Dispatch("HUP", {})
  /\ IF "IN" \notin revents THEN HandleClose ELSE UNCHANGED <<state, ch, told, io>>
  /\ UNCHANGED <<output, loopVars, serverVars, netVars, userVars>>

(* handleError: getsockopt(SO_ERROR) clears the error. *)
EventErr ==
  /\ Dispatch("ERR", {"HUP"})
  /\ sock' = [sock EXCEPT !.err = "none"]
  /\ UNCHANGED <<connVars, loopVars, serverVars, io, userVars, told, wire>>

(* handleRead: input goes to messageCallback_, an error to handleError,    *)
(* the end of the stream to handleClose.                                   *)
EventIn ==
  /\ Dispatch("IN", {"HUP", "ERR"})
  /\ \/ /\ sock.input
        /\ sock' = [sock EXCEPT !.input = FALSE]
        /\ io' = "message"
        /\ UNCHANGED <<state, ch, told>>
     \/ /\ ~sock.input /\ sock.err # "none"
        /\ sock' = [sock EXCEPT !.err = "none"]
        /\ UNCHANGED <<state, ch, told, io>>
     \/ /\ ~sock.input /\ sock.err = "none"
        /\ HandleClose
        /\ UNCHANGED sock
  /\ UNCHANGED <<output, loopVars, serverVars, userVars, wire>>

(* handleWrite: send from the buffer; when it is empty stop watching for   *)
(* EPOLLOUT, and shut down if that was waiting for it.                     *)
EventOut ==
  /\ Dispatch("OUT", {"HUP", "ERR", "IN"})
  /\ \/ /\ ~IsWriting(ch)
        /\ UNCHANGED <<ch, output, pending, netVars, io>>
     \/ /\ IsWriting(ch) /\ CanWrite
        /\ \E n \in 1 .. Len(output) :
             /\ wire' = wire \o SubSeq(output, 1, n)
             /\ output' = SubSeq(output, n + 1, Len(output))
        /\ IF output' = <<>>
           THEN /\ ch' = DisableWriting(ch)
                /\ pending' = pending \o Callback("writeComplete")
                /\ IF state = "kDisconnecting" THEN ShutdownWrite ELSE UNCHANGED sock
           ELSE UNCHANGED <<ch, pending, sock>>
        /\ UNCHANGED io
     \/ /\ IsWriting(ch) /\ WriteFails
        /\ UNCHANGED <<ch, output, pending, wire>>
  /\ UNCHANGED <<state, functors, spent, serverVars, userVars, told>>

-----------------------------------------------------------------------------
(* The io thread: functors.                                                *)

Swap ==
  /\ io = "loop" /\ revents = {} /\ functors = <<>> /\ ~spent
  /\ pending # <<>>
  /\ functors' = pending
  /\ pending' = <<>>
  /\ UNCHANGED <<connVars, spent, ioVars, serverVars, netVars, userVars, told>>

(* The vector of the batch goes out of scope, and its references with it. *)
EndBatch ==
  /\ io = "loop" /\ functors = <<>> /\ spent
  /\ spent' = FALSE
  /\ UNCHANGED <<connVars, pending, functors, ioVars, serverVars, netVars, userVars, told>>

(* The next functor of the batch is a call of `name`. *)
Runs(name) ==
  /\ io = "loop" /\ functors # <<>>
  /\ Head(functors).fn = name
  /\ functors' = Tail(functors)
  /\ spent' = (spent \/ HoldsRef(Head(functors)))

RunEstablished ==
  /\ Runs("connectEstablished")
  /\ state' = "kConnected"
  /\ ch' = EnableReading(ch)
  /\ told' = "up"
  /\ io' = "up"
  /\ UNCHANGED <<output, pending, revents, serverVars, netVars, userVars>>

(* Faulty variant: connectDestroyed leaves the report to handleClose. *)
RunDestroyed_Silent ==
  /\ Runs("connectDestroyed")
  /\ state' = "kDisconnected"
  /\ ch' = RemoveChannel(ch)
  /\ UNCHANGED <<output, pending, ioVars, serverVars, netVars, userVars, told>>

(* connectDestroyed: down the tree and to the user only when nothing else  *)
(* did it; the channel leaves the poller last (DestroyingReturns).         *)
RunDestroyed ==
  /\ Runs("connectDestroyed")
  /\ IF state = "kConnected"
     THEN /\ state' = "kDisconnected"
          /\ ch' = DisableAll(ch)
          /\ TellDown
          /\ io' = "destroying"
     ELSE /\ ch' = RemoveChannel(ch)
          /\ UNCHANGED <<state, told, io>>
  /\ UNCHANGED <<output, pending, revents, serverVars, netVars, userVars>>

(* sendInLoop queued by another thread.  The text is read through the      *)
(* caller's pointer, the connection through a bare one.                    *)
RunSend ==
  LET f == Head(functors)
  IN /\ Runs("sendInLoop")
     /\ IF Alive
        THEN \E m \in {f.msg, Garbage} :
               /\ worker[f.by].msg = f.msg => m = f.msg
               /\ SendInLoop(Unit(m))
        ELSE io' = "fault" /\ UNCHANGED <<ch, output, pending, netVars>>
     /\ UNCHANGED <<state, revents, serverVars, userVars, told>>

RunShutdown ==
  /\ Runs("shutdownInloop")
  /\ IF Alive
     THEN ShutdownInloop /\ UNCHANGED io
     ELSE io' = "fault" /\ UNCHANGED sock
  /\ UNCHANGED <<connVars, pending, revents, serverVars, userVars, told, wire>>

RunCallback ==
  /\ Runs("writeComplete") \/ Runs("highWaterMark")
  /\ io' = "notified"
  /\ UNCHANGED <<connVars, pending, revents, serverVars, netVars, userVars, told>>

-----------------------------------------------------------------------------
(* The io thread: user code and what follows it.                           *)

(* send() on the io thread. *)
UserSend(m) ==
  /\ io \in UserPhase /\ "send" \in IoCalls
  /\ m \in unsent
  /\ unsent' = unsent \ {m}
  /\ IF state = "kConnected"
     THEN SendInLoop(Unit(m))
     ELSE UNCHANGED <<ch, output, pending, io, netVars>>
  /\ UNCHANGED <<state, functors, spent, revents, serverVars, worker, told>>

(* shutdown() on the io thread. *)
UserShutdown ==
  /\ io \in UserPhase /\ "shutdown" \in IoCalls
  /\ state = "kConnected"
  /\ state' = "kDisconnecting"
  /\ ShutdownInloop
  /\ UNCHANGED <<ch, output, loopVars, ioVars, serverVars, userVars, told, wire>>

UserReturns ==
  /\ io \in {"up", "message", "notified"}
  /\ io' = "loop"
  /\ UNCHANGED <<connVars, loopVars, revents, serverVars, netVars, userVars, told>>

(* Faulty variant: no closeCallback_. *)
ClosingReturns_NoRemove ==
  /\ io = "closing"
  /\ io' = "loop"
  /\ UNCHANGED <<connVars, loopVars, revents, serverVars, netVars, userVars, told>>

(* handleClose goes on: closeCallback_, which is removeConnection, which   *)
(* queues removeConnectionInLoop on the main loop.                         *)
ClosingReturns ==
  /\ io = "closing"
  /\ io' = "loop"
  /\ removals' = removals + 1
  /\ UNCHANGED <<connVars, loopVars, revents, inMap, server, netVars, userVars, told>>

(* connectDestroyed goes on: channel_->remove(). *)
DestroyingReturns ==
  /\ io = "destroying"
  /\ io' = "loop"
  /\ ch' = RemoveChannel(ch)
  /\ UNCHANGED <<state, output, loopVars, revents, serverVars, netVars, userVars, told>>

-----------------------------------------------------------------------------
(* Worker threads.                                                         *)

GoesTo(w, at) == worker' = [worker EXCEPT ![w].at = at]

(* User code gives a task with a ConnectionPtr to a worker, or the task    *)
(* goes on with another call.                                              *)
StartCall(w, call, m) ==
  /\ worker[w].at = "done" \/ (worker[w].at = "none" /\ io \in UserPhase)
  /\ IF call = "send" THEN m \in unsent ELSE m = NoMessage
  /\ unsent' = unsent \ {m}
  /\ worker' = [worker EXCEPT ![w] = [at |-> "call", call |-> call, msg |-> m]]
  /\ UNCHANGED <<connVars, loopVars, ioVars, serverVars, netVars, told>>

(* Both calls begin by testing state_ == kConnected. *)
CheckState(w) ==
  /\ worker[w].at = "call"
  /\ GoesTo(w, IF state = "kConnected" THEN "checked" ELSE "done")
  /\ UNCHANGED <<connVars, loopVars, ioVars, serverVars, netVars, unsent, told>>

(* send goes on: runInLoop(sendInLoop(this, buf.c_str(), buf.size())). *)
QueueSend(w) ==
  /\ worker[w].at = "checked" /\ worker[w].call = "send"
  /\ pending' = Append(pending, SendFn(worker[w].msg, w))
  /\ GoesTo(w, "done")
  /\ UNCHANGED <<connVars, functors, spent, ioVars, serverVars, netVars, unsent, told>>

(* shutdown goes on: setState(kDisconnecting), whatever state_ is by now. *)
SetDisconnecting(w) ==
  /\ worker[w].at = "checked" /\ worker[w].call = "shutdown"
  /\ state' = "kDisconnecting"
  /\ GoesTo(w, "set")
  /\ UNCHANGED <<ch, output, loopVars, ioVars, serverVars, netVars, unsent, told>>

(* ... and runInLoop(shutdownInloop). *)
QueueShutdown(w) ==
  /\ worker[w].at = "set"
  /\ pending' = Append(pending, Fn("shutdownInloop"))
  /\ GoesTo(w, "done")
  /\ UNCHANGED <<connVars, functors, spent, ioVars, serverVars, netVars, unsent, told>>

(* The task is destroyed, with the ConnectionPtr and the text it captured. *)
EndTask(w) ==
  /\ worker[w].at = "done"
  /\ worker' = [worker EXCEPT ![w] = Idle]
  /\ UNCHANGED <<connVars, loopVars, ioVars, serverVars, netVars, unsent, told>>

-----------------------------------------------------------------------------
(* The main loop.                                                          *)

(* Faulty variant: the connection is dropped and not destroyed. *)
RemoveConnectionInLoop_NoDestroy ==
  /\ server = "running" /\ removals > 0
  /\ removals' = removals - 1
  /\ inMap' = FALSE
  /\ UNCHANGED <<connVars, loopVars, ioVars, server, netVars, userVars, told>>

(* removeConnectionInLoop *)
RemoveConnectionInLoop ==
  /\ server = "running" /\ removals > 0
  /\ removals' = removals - 1
  /\ inMap' = FALSE
  /\ pending' = Append(pending, Fn("connectDestroyed"))
  /\ UNCHANGED <<connVars, functors, spent, ioVars, server, netVars, userVars, told>>

(* ~TcpServer, after the main loop has ended: what is queued there stays. *)
DestroyServer ==
  /\ server = "running" /\ ServerEnds
  /\ server' = "destroyed"
  /\ inMap' = FALSE
  /\ pending' = IF inMap THEN Append(pending, Fn("connectDestroyed")) ELSE pending
  /\ UNCHANGED <<connVars, functors, spent, ioVars, removals, netVars, userVars, told>>

-----------------------------------------------------------------------------
(* The peer and the network.                                               *)

PeerSends ==
  /\ sock.peer = "open" /\ ~sock.input
  /\ sock' = [sock EXCEPT !.input = TRUE]

PeerCloses ==
  /\ sock.peer = "open"
  /\ sock' = [sock EXCEPT !.peer = "closed"]

(* A reset leaves ECONNRESET, or EPIPE when the peer had closed before. *)
PeerResets ==
  /\ sock.peer # "reset"
  /\ sock' = [sock EXCEPT !.peer = "reset",
                         !.err = IF sock.peer = "open" THEN "ECONNRESET" ELSE "EPIPE"]

-----------------------------------------------------------------------------
(* Steps of the io thread that wait for nothing. *)
IoStep ==
  \/ EventHup \/ EventErr \/ EventIn \/ EventOut
  \/ Swap \/ EndBatch
  \/ RunEstablished \/ RunDestroyed \/ RunSend \/ RunShutdown \/ RunCallback
  \/ UserReturns \/ ClosingReturns \/ DestroyingReturns

WorkerStep(w) ==
  CheckState(w) \/ QueueSend(w) \/ SetDisconnecting(w) \/ QueueShutdown(w) \/ EndTask(w)

UserCall ==
  \/ UserShutdown
  \/ \E m \in Messages : UserSend(m)
  \/ \E w \in Workers, call \in WorkerCalls, m \in Messages \cup {NoMessage} :
       StartCall(w, call, m)

PeerStep ==
  /\ PeerSends \/ PeerCloses \/ PeerResets
  /\ UNCHANGED <<connVars, loopVars, ioVars, serverVars, userVars, told, wire>>

(* Nothing happens after a fault: the process is gone, or its behaviour is *)
(* undefined.                                                              *)
Next ==
  /\ io # "fault"
  /\ \/ IoStep \/ UserCall \/ PeerStep
     \/ \E writable \in BOOLEAN : Poll(writable)
     \/ \E w \in Workers : WorkerStep(w)
     \/ RemoveConnectionInLoop \/ DestroyServer

Spec == Init /\ [][Next]_vars

(* The loops and the workers run: what was queued is executed              *)
(* (EventLoop!QueuedFunctorRuns), callbacks and tasks return (a task does *)
(* not call for ever), epoll_wait reports a hang-up, an error or readable  *)
(* input.  The peer, the user and the owner of the server do as they       *)
(* please, and no socket need ever become writable.                        *)
Fairness ==
  /\ WF_vars(io # "fault" /\ IoStep)
  /\ SF_vars(io # "fault" /\ Poll(FALSE))
  /\ \A w \in Workers :
       WF_vars(io # "fault" /\ WorkerStep(w)) /\ SF_vars(io # "fault" /\ EndTask(w))
  /\ WF_vars(io # "fault" /\ RemoveConnectionInLoop)

FairSpec == Spec /\ Fairness

-----------------------------------------------------------------------------
(* Properties.                                                             *)

FunctorRecord ==
  [fn : {"connectEstablished", "connectDestroyed", "sendInLoop", "shutdownInloop",
         "writeComplete", "highWaterMark"},
   msg : Messages \cup {NoMessage}, by : Workers \cup {NoMessage}]

TypeOK ==
  /\ state \in {"kConnecting", "kConnected", "kDisconnecting", "kDisconnected"}
  /\ ch \in ChannelRecord
  /\ output \in Seq((Messages \cup {Garbage}) \X (1 .. MessageSize))
  /\ io \in UserPhase \cup {"loop", "fault"}
  /\ revents \subseteq {"HUP", "ERR", "IN", "OUT"}
  /\ pending \in Seq(FunctorRecord) /\ functors \in Seq(FunctorRecord)
  /\ spent \in BOOLEAN
  /\ worker \in [Workers -> [at : {"none", "call", "checked", "set", "done"},
                             call : Call \cup {"none"},
                             msg : Messages \cup {NoMessage}]]
  /\ inMap \in BOOLEAN /\ removals \in Nat /\ server \in {"running", "destroyed"}
  /\ wire \in Seq((Messages \cup {Garbage}) \X (1 .. MessageSize))
  /\ sock \in [fin : BOOLEAN, peer : {"open", "closed", "reset"},
               input : BOOLEAN, err : {"none", "ECONNRESET", "EPIPE"}]
  /\ unsent \subseteq Messages
  /\ told \in {"new", "up", "down", "down again"}

(* A channel is in the epoll set exactly while it has an interest, through *)
(* any sequence of enable, disable and remove.  About the detour           *)
(* removeChannel takes with a channel that is already deleted.             *)
Registered == ch.inEpoll <=> ch.events # {}

Removed == ch.index = "kDeleted" /\ ~ch.listed

(* The server's end found the connection in the middle of a shutdown():    *)
(* connectDestroyed looks for kConnected only and leaves state_ as it is,  *)
(* so that a sendInLoop that is queued behind it still buffers its text    *)
(* and puts the removed channel back into the epoll set.                   *)
EndedInShutdown == server = "destroyed" /\ state = "kDisconnecting"

(* Once connectDestroyed has taken the channel out of the poller nothing   *)
(* registers it again, unless the server ended in a shutdown().            *)
RemovalIsFinal == [][Removed /\ ~EndedInShutdown => UNCHANGED ch]_vars

(* When the last ConnectionPtr is gone, and the Channel with it, neither   *)
(* the epoll set nor channels_ still points to the Channel; after an end   *)
(* in a shutdown() only closing the descriptor takes it out of the former. *)
GoneIsUnregistered == ~Alive => ~ch.listed /\ (ch.inEpoll => EndedInShutdown)

(* Every connection that was up and is taken out of the poller has been    *)
(* reported down, whoever began: the peer, through handleClose, or the     *)
(* destructor of the server, through connectDestroyed, but for an end in a *)
(* shutdown().                                                             *)
RemovedWasReported == Removed => told # "up" \/ EndedInShutdown

(* While the connection is open and its channel has not been removed, data *)
(* waits in OutputBuffer_ exactly when EPOLLOUT is asked for: data is not  *)
(* forgotten, and the loop does not spin on a writable socket.             *)
WaitingIsWatched ==
  ch.listed /\ told = "up" => (output # <<>> <=> IsWriting(ch))

(* On an open connection the write side is shut down only when everything  *)
(* accepted before has gone out.                                           *)
FinAfterData ==
  [][sock'.fin # sock.fin /\ told = "up" /\ ch.listed => output' = <<>>]_vars

(* The connection is a ByteStream: up once, down at most once, units in    *)
(* order, none after down.                                                 *)
Stream ==
  INSTANCE ByteStream
  WITH phase <- told, accepted <- wire \o output, sent <- wire,
       Payload <- {Unit(m) : m \in Messages \cup {Garbage}}
StreamRefined == Stream!Spec

Ended == io = "fault" \/ server = "destroyed"

(* The end of the peer is reported to the user.                            *)
PeerEndReported == sock.peer # "open" /\ told = "up" ~> told # "up" \/ Ended

(* A connection that went down is freed: out of the map, out of the        *)
(* poller, and no reference is left in a loop or a worker.                 *)
DownIsFreed == told = "down" ~> ~Alive \/ Ended

(* What the comment in sendInLoop says: the data that remains is saved in  *)
(* the buffer, that is, the data that was passed to send().                *)
TextIntact ==
  \A i \in DOMAIN output : output[i][1] # Garbage

(* What sendInLoop reports when it gives up: nothing is written once the   *)
(* connection is disconnected.                                             *)
NoWriteAfterDown ==
  [][UNCHANGED <<wire, output>> \/ told \in {"new", "up"}]_vars

===============================================================================
