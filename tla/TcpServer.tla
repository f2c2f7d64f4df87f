------------------------------- MODULE TcpServer -------------------------------
(***************************************************************************)
(* A TcpServer with its Acceptor, its EventLoopThreadPool and all its      *)
(* connections, from the constructor to the end of the destructor.  The    *)
(* main thread runs the base loop, on which connections are accepted and   *)
(* removed, and calls the destructor when that loop has ended; every       *)
(* worker thread runs a loop for the connections dealt to it.              *)
(*                                                                         *)
(* A loop goes through poll, events and functors, and looks at quit_ at    *)
(* the end.  That it wakes up for a functor or a quit is what EventLoop    *)
(* shows.  A batch of functors keeps the references of those already run   *)
(* until it is exhausted; activeChannels_ holds bare pointers.             *)
(*                                                                         *)
(* Of a connection only its life is kept, for what its handlers do with    *)
(* data is Connection's; user code neither keeps a ConnectionPtr nor       *)
(* calls shutdown().  Its descriptor is closed with the last ConnectionPtr.*)
(***************************************************************************)
EXTENDS Channel, Naturals, Sequences, FiniteSets, Functions

CONSTANTS
  ThreadNums,     \* what setThreadNum may be called with
  MaxThreads,     \* bound on it
  MaxConns,       \* bound on the number of peers that connect
  Fds             \* descriptors the process may have beside its own

ASSUME ThreadAssumption == MaxThreads \in Nat /\ ThreadNums \subseteq 0 .. MaxThreads
ASSUME FdAssumption == Fds \subseteq Nat /\ IsFiniteSet(Fds)
ASSUME ConnAssumption == MaxConns \in Nat

Base     == 0                 \* the base loop; the others are 1, 2, ...
Loops    == 0 .. MaxThreads
Ids      == 1 .. MaxConns     \* connections, by their nextConnId_
Listener == 0                 \* acceptChannel_, among the active channels

VARIABLES
  numThreads,  \* numThreads_
  started,     \* started_ is not zero
  next,        \* next_ of the pool
  nextConnId,  \* nextConnId_
  conns,       \* connections_
  acc,         \* acceptChannel_
  server,      \* the server runs; its destructor is at the connections or
               \* the threads, joins a thread, has returned
  joined,      \* worker threads the destructor has joined
  phase,       \* phase[l]: where the thread of the loop is
  quit,        \* quit[l]: quit_
  active,      \* active[l]: activeChannels_, less those handled
  pending,     \* pending[l]: pendingFunctors_
  batch,       \* batch[l]: functors doPendingFunctors has yet to run
  spent,       \* spent[l]: connections the batch's other functors hold
  state,       \* state[c]: state_ of a connection, "none" before it is made
  place,       \* place[c]: its loop
  fd,          \* fd[c]: its descriptor
  ch,          \* ch[c]: its channel
  others,      \* open descriptors that belong to no connection
  arrived,     \* peers that have connected ...
  waiting,     \* ... and wait to be accepted
  late         \* history: connections whose connectDestroyed the destructor
               \* queued when their loop was past its swap

poolVars == <<numThreads, started, next>>
mainVars == <<nextConnId, conns, server, joined, late>>
netVars  == <<others, arrived, waiting>>
loopVars == <<phase, quit, active, pending, batch, spent>>
connVars == <<state, place, fd, ch>>
vars == <<poolVars, mainVars, acc, netVars, loopVars, connVars>>

Fn(name, c) == [fn |-> name, conn |-> c]

(* loops_ of the pool. *)
Workers == IF started THEN 1 .. numThreads ELSE {}

(* The constructor, and setThreadNum.  Descriptor 0 is open unless the     *)
(* program was started without standard input.                             *)
Init ==
  /\ numThreads \in ThreadNums /\ started = FALSE /\ next = 0
  /\ nextConnId = 1 /\ conns = {}
  /\ acc = NewChannel
  /\ server = "running" /\ joined = 0
  /\ phase = [l \in Loops |-> IF l = Base THEN "begin" ELSE "none"]
  /\ quit = [l \in Loops |-> FALSE]
  /\ active = [l \in Loops |-> {}]
  /\ pending = [l \in Loops |-> <<>>]
  /\ batch = [l \in Loops |-> <<>>]
  /\ spent = [l \in Loops |-> {}]
  /\ state = [c \in Ids |-> "none"]
  /\ place = [c \in Ids |-> Base]
  /\ fd = [c \in Ids |-> 0]
  /\ ch = [c \in Ids |-> NewChannel]
  /\ others \in SUBSET (Fds \cap {0})
  /\ arrived = 0 /\ waiting = 0
  /\ late = {}

(* Somebody holds a ConnectionPtr. *)
Alive(c) ==
  \/ c \in conns
  \/ \E l \in Loops :
       \/ c \in spent[l]
       \/ \E f \in Range(pending[l]) \cup Range(batch[l]) : f.conn = c

Free == Fds \ (others \cup {fd[c] : c \in {d \in Ids : Alive(d)}})

-----------------------------------------------------------------------------
(* Calls.                                                                  *)

(* queueInLoop, which is runInLoop from another thread. *)
Post(l, f) == pending' = [pending EXCEPT ![l] = Append(@, f)]

(* connectEstablished, and connectDestroyed, on the connection's thread. *)
Establish(c) ==
  /\ state' = [state EXCEPT ![c] = "kConnected"]
  /\ ch' = [ch EXCEPT ![c] = EnableReading(@)]

(* Faulty variant: a connection that is down already is left alone. *)
Destroy_OnlyConnected(c) ==
  IF state[c] = "kConnected"
  THEN /\ state' = [state EXCEPT ![c] = "kDisconnected"]
       /\ ch' = [ch EXCEPT ![c] = RemoveChannel(DisableAll(@))]
  ELSE UNCHANGED <<state, ch>>

Destroy(c) ==
  IF state[c] = "kConnected"
  THEN /\ state' = [state EXCEPT ![c] = "kDisconnected"]
       /\ ch' = [ch EXCEPT ![c] = RemoveChannel(DisableAll(@))]
  ELSE /\ ch' = [ch EXCEPT ![c] = RemoveChannel(@)]
       /\ UNCHANGED state

(* removeConnectionInLoop: the map drops its reference, a functor takes it. *)
RemoveInLoop(c) == conns' = conns \ {c} /\ Post(place[c], Fn("connectDestroyed", c))

(* Faulty variant: >, not >=. *)
NextOf_OffByOne(n) == IF n + 1 > numThreads THEN 0 ELSE n + 1

(* next_ after loops_[n] was handed out. *)
NextOf(n) == IF n + 1 >= numThreads THEN 0 ELSE n + 1

(* getNextLoop. *)
NextLoop == IF Workers = {} THEN Base ELSE next + 1

-----------------------------------------------------------------------------
(* The user: start(), the base loop, its end.  The peers.                  *)

(* start(), called as main does before the base loop runs: the pool starts *)
(* its threads, which publish their loops, and the acceptor listens.       *)
(* Another call does nothing.                                              *)
Start ==
  /\ ~started /\ server = "running" /\ phase[Base] = "begin"
  /\ started' = TRUE
  /\ phase' = [l \in Loops |-> IF l \in 1 .. numThreads THEN "begin" ELSE phase[l]]
  /\ acc' = EnableReading(acc)
  /\ UNCHANGED <<numThreads, next, mainVars, netVars, quit, active, pending,
                 batch, spent, connVars>>

(* Somebody calls quit() on the base loop. *)
QuitBase ==
  /\ phase[Base] # "ended"
  /\ quit' = [quit EXCEPT ![Base] = TRUE]
  /\ UNCHANGED <<poolVars, mainVars, acc, netVars, phase, active, pending,
                 batch, spent, connVars>>

PeerConnects ==
  /\ acc.listed /\ arrived < MaxConns
  /\ arrived' = arrived + 1
  /\ waiting' = waiting + 1
  /\ UNCHANGED <<poolVars, mainVars, acc, others, loopVars, connVars>>

-----------------------------------------------------------------------------
(* The loops.                                                              *)

Goes(l, from, to) == phase[l] = from /\ phase' = [phase EXCEPT ![l] = to]

(* loop() begins, and forgets a quit() that came before. *)
BeginLoop(l) ==
  /\ Goes(l, "begin", "poll")
  /\ l = Base => server = "running"
  /\ quit' = [quit EXCEPT ![l] = FALSE]
  /\ UNCHANGED <<poolVars, mainVars, acc, netVars, active, pending, batch,
                 spent, connVars>>

Registered(l) == {c \in Ids : place[c] = l /\ ch[c].inEpoll}

(* What epoll_wait must report: the listening socket is level-triggered. *)
Listening(l) ==
  IF l = Base /\ acc.inEpoll /\ waiting > 0 THEN {Listener} ELSE {}

(* epoll_wait returns, with the connections their peers have woken. *)
Poll(l) ==
  /\ Goes(l, "poll", "events")
  /\ \E woken \in SUBSET Registered(l) :
       active' = [active EXCEPT ![l] = woken \cup Listening(l)]
  /\ UNCHANGED <<poolVars, mainVars, acc, netVars, quit, pending, batch,
                 spent, connVars>>

Handles(l, channel) ==
  /\ phase[l] = "events" /\ channel \in active[l]
  /\ active' = [active EXCEPT ![l] = @ \ {channel}]

(* handleClose: down, and removeConnection, which on the base loop's       *)
(* thread is removeConnectionInLoop at once.                               *)
HandleClose(l, c) ==
  /\ state' = [state EXCEPT ![c] = "kDisconnected"]
  /\ ch' = [ch EXCEPT ![c] = DisableAll(@)]
  /\ IF l = Base
     THEN RemoveInLoop(c)
     ELSE Post(Base, Fn("removeConnectionInLoop", c)) /\ UNCHANGED conns

(* A connection's channel: tie_ is locked, then there is input for the     *)
(* user, or the end of the stream.                                         *)
HandleEvent(l, c) ==
  /\ Handles(l, c)
  /\ \/ UNCHANGED <<state, ch, conns, pending>>
     \/ Alive(c) /\ HandleClose(l, c)
  /\ UNCHANGED <<poolVars, acc, nextConnId, server, joined, late, netVars,
                 phase, quit, batch, spent, place, fd>>

(* Faulty variant: the connection is not put into connections_. *)
NewConnection_NotListed(c, l, d) ==
  /\ nextConnId' = c + 1 /\ conns' = conns
  /\ place' = [place EXCEPT ![c] = l] /\ fd' = [fd EXCEPT ![c] = d]
  /\ IF l = Base
     THEN Establish(c) /\ UNCHANGED pending
     ELSE /\ state' = [state EXCEPT ![c] = "kConnecting"]
          /\ Post(l, Fn("connectEstablished", c)) /\ UNCHANGED ch

(* newConnection with descriptor d, for the loop l. *)
NewConnection(c, l, d) ==
  /\ nextConnId' = c + 1
  /\ conns' = conns \cup {c}
  /\ place' = [place EXCEPT ![c] = l]
  /\ fd' = [fd EXCEPT ![c] = d]
  /\ IF l = Base
     THEN Establish(c) /\ UNCHANGED pending
     ELSE /\ state' = [state EXCEPT ![c] = "kConnecting"]
          /\ Post(l, Fn("connectEstablished", c))
          /\ UNCHANGED ch

(* Acceptor::handleRead: accept4 takes the lowest free descriptor.  0 is   *)
(* taken for an error, and stays open.                                     *)
Accept ==
  /\ Handles(Base, Listener)
  /\ waiting' = waiting - 1
  /\ \E d \in Free :
       /\ \A e \in Free : d <= e
       /\ IF d > 0
          THEN /\ NewConnection(nextConnId, NextLoop, d)
               /\ next' = IF Workers = {} THEN next ELSE NextOf(next)
               /\ UNCHANGED others
          ELSE /\ others' = others \cup {d}
               /\ UNCHANGED <<nextConnId, conns, next, connVars, pending>>
  /\ UNCHANGED <<numThreads, started, acc, server, joined, late, arrived,
                 phase, quit, batch, spent>>

(* Faulty variant: out of descriptors, the acceptor stops listening. *)
AcceptFails_Disable ==
  /\ Handles(Base, Listener) /\ Free = {}
  /\ acc' = DisableAll(acc)
  /\ UNCHANGED <<poolVars, mainVars, netVars, phase, quit, pending, batch,
                 spent, connVars>>

(* EMFILE: the error is logged, the peer waits on. *)
AcceptFails ==
  /\ Handles(Base, Listener) /\ Free = {}
  /\ UNCHANGED <<poolVars, mainVars, acc, netVars, phase, quit, pending,
                 batch, spent, connVars>>

(* The events are handled; doPendingFunctors swaps. *)
SwapPending(l) ==
  /\ active[l] = {} /\ Goes(l, "events", "functors")
  /\ batch' = [batch EXCEPT ![l] = pending[l]]
  /\ pending' = [pending EXCEPT ![l] = <<>>]
  /\ UNCHANGED <<poolVars, mainVars, acc, netVars, quit, active, spent, connVars>>

(* The next functor of the batch. *)
RunFunctor(l) ==
  LET f == Head(batch[l])
      c == f.conn
  IN /\ phase[l] = "functors" /\ batch[l] # <<>>
     /\ batch' = [batch EXCEPT ![l] = Tail(@)]
     /\ spent' = [spent EXCEPT ![l] = @ \cup {c}]
     /\ CASE f.fn = "connectEstablished" -> Establish(c) /\ UNCHANGED <<conns, pending>>
          [] f.fn = "connectDestroyed"   -> Destroy(c) /\ UNCHANGED <<conns, pending>>
          [] OTHER                       -> RemoveInLoop(c) /\ UNCHANGED <<state, ch>>
     /\ UNCHANGED <<poolVars, acc, nextConnId, server, joined, late, netVars,
                    phase, quit, active, place, fd>>

(* The batch is destroyed; while (!quit_).  A worker's loop is on the      *)
(* stack of its thread and goes with it, functors that wait and all.       *)
EndFunctors(l) ==
  /\ batch[l] = <<>> /\ Goes(l, "functors", IF quit[l] THEN "ended" ELSE "poll")
  /\ spent' = [spent EXCEPT ![l] = {}]
  /\ pending' = IF quit[l] /\ l # Base THEN [pending EXCEPT ![l] = <<>>] ELSE pending
  /\ UNCHANGED <<poolVars, mainVars, acc, netVars, quit, active, batch, connVars>>

-----------------------------------------------------------------------------
(* ~TcpServer, on the main thread, outside the base loop.                  *)

BeginDestructor ==
  /\ server = "running" /\ phase[Base] \in {"begin", "ended"}
  /\ server' = "closing"
  /\ UNCHANGED <<poolVars, nextConnId, conns, joined, late, acc, netVars,
                 loopVars, connVars>>

(* Faulty variant: the map is cleared and nothing queued. *)
DropConnection_Silently(c) ==
  /\ server = "closing" /\ c \in conns
  /\ conns' = conns \ {c}
  /\ UNCHANGED <<poolVars, nextConnId, server, joined, late, acc, netVars,
                 loopVars, connVars>>

(* The body: runInLoop(connectDestroyed) for a connection of the map. *)
DropConnection(c) ==
  LET l == place[c]
  IN /\ server = "closing" /\ c \in conns
     /\ conns' = conns \ {c}
     /\ IF l = Base
        THEN Destroy(c) /\ UNCHANGED <<pending, late>>
        ELSE /\ Post(l, Fn("connectDestroyed", c))
             /\ late' = IF phase[l] = "functors" THEN late \cup {c} ELSE late
             /\ UNCHANGED <<state, ch>>
     /\ UNCHANGED <<poolVars, nextConnId, server, joined, acc, netVars, phase,
                    quit, active, batch, spent, place, fd>>

(* Faulty variant: the destructor joins without a quit(). *)
QuitWorker_NoQuit ==
  /\ server = "closing" /\ conns = {}
  /\ joined + 1 \in Workers
  /\ server' = "joining"
  /\ UNCHANGED <<poolVars, nextConnId, conns, joined, late, acc, netVars,
                 loopVars, connVars>>

(* The members: threadpool_ destroys its threads in turn, each with a      *)
(* quit() ...                                                              *)
QuitWorker ==
  /\ server = "closing" /\ conns = {}
  /\ joined + 1 \in Workers
  /\ server' = "joining"
  /\ quit' = [quit EXCEPT ![joined + 1] = TRUE]
  /\ UNCHANGED <<poolVars, nextConnId, conns, joined, late, acc, netVars,
                 phase, active, pending, batch, spent, connVars>>

(* ... and a join(); *)
JoinWorker ==
  /\ server = "joining" /\ phase[joined + 1] = "ended"
  /\ server' = "closing"
  /\ joined' = joined + 1
  /\ UNCHANGED <<poolVars, nextConnId, conns, late, acc, netVars, loopVars, connVars>>

(* and last acceptor_: disableAll and remove, though it may never have     *)
(* been listening.  The peers that wait go with the socket.                *)
EndDestructor ==
  /\ server = "closing" /\ conns = {}
  /\ joined + 1 \notin Workers
  /\ server' = "destroyed"
  /\ acc' = RemoveChannel(DisableAll(acc))
  /\ waiting' = 0
  /\ UNCHANGED <<poolVars, nextConnId, conns, joined, late, others, arrived,
                 loopVars, connVars>>

-----------------------------------------------------------------------------
(* What a loop's thread does without waiting. *)
LoopStep(l) ==
  \/ \E c \in Ids : HandleEvent(l, c)
  \/ l = Base /\ (Accept \/ AcceptFails)
  \/ SwapPending(l) \/ RunFunctor(l) \/ EndFunctors(l)

Destructor ==
  (\E c \in Ids : DropConnection(c)) \/ QuitWorker \/ JoinWorker \/ EndDestructor

Next ==
  \/ Start \/ QuitBase \/ PeerConnects
  \/ \E l \in Loops : BeginLoop(l) \/ Poll(l) \/ LoopStep(l)
  \/ BeginDestructor \/ Destructor

Spec == Init /\ [][Next]_vars

(* Work for which a loop wakes up. *)
WorkWaits(l) == pending[l] # <<>> \/ quit[l] \/ Listening(l) # {}

(* Threads run, a loop in epoll_wait wakes up for work, the destructor     *)
(* goes on once it was called.  No peer need come or go, nobody need quit. *)
Fairness ==
  /\ \A l \in Loops :
       /\ WF_vars(LoopStep(l))
       /\ WF_vars(WorkWaits(l) /\ Poll(l))
       /\ WF_vars(l # Base /\ BeginLoop(l))
  /\ WF_vars(Destructor)

FairSpec == Spec /\ Fairness

-----------------------------------------------------------------------------
(* Properties.                                                             *)

Functor ==
  [fn : {"connectEstablished", "connectDestroyed", "removeConnectionInLoop"}, conn : Ids]

TypeOK ==
  /\ numThreads \in 0 .. MaxThreads /\ started \in BOOLEAN /\ next \in Nat
  /\ nextConnId \in 1 .. MaxConns + 1 /\ conns \subseteq Ids
  /\ acc \in ChannelRecord
  /\ server \in {"running", "closing", "joining", "destroyed"}
  /\ joined \in 0 .. MaxThreads
  /\ phase \in [Loops -> {"none", "begin", "poll", "events", "functors", "ended"}]
  /\ quit \in [Loops -> BOOLEAN]
  /\ active \in [Loops -> SUBSET (Ids \cup {Listener})]
  /\ pending \in [Loops -> Seq(Functor)] /\ batch \in [Loops -> Seq(Functor)]
  /\ spent \in [Loops -> SUBSET Ids]
  /\ state \in [Ids -> {"none", "kConnecting", "kConnected", "kDisconnected"}]
  /\ place \in [Ids -> Workers \cup {Base}]
  /\ fd \in [Ids -> Fds \cup {0}]
  /\ ch \in [Ids -> ChannelRecord]
  /\ others \subseteq Fds
  /\ arrived \in 0 .. MaxConns /\ waiting \in 0 .. arrived
  /\ late \subseteq Ids

(* While a thread goes through the bare pointers of activeChannels_, no    *)
(* connection they belong to is freed: not by its own handler, nor by the  *)
(* main thread, in removeConnectionInLoop or in the destructor.            *)
ActiveIsLive == \A l \in Loops : \A c \in active[l] \ {Listener} : Alive(c)

(* No poller, save one whose loop is gone, knows a channel that is gone:   *)
(* a connection's, or the acceptor's after the destructor, also of a       *)
(* server that was never started.                                          *)
NoDanglingChannel ==
  /\ \A c \in Ids :
       ch[c].inEpoll \/ ch[c].listed => Alive(c) \/ phase[place[c]] = "ended"
  /\ server = "destroyed" => ~acc.inEpoll /\ ~acc.listed

(* When the destructor has returned every connection that was up has been  *)
(* reported down, but for those whose loop was past its swap when          *)
(* connectDestroyed was queued: it may see the quit() before it swaps      *)
(* again.  About ~TcpServer's two queues to one loop, functor and quit_.   *)
ReportedAtEnd ==
  server = "destroyed" => \A c \in Ids : state[c] = "kConnected" => c \in late

(* Every connection lives as ConnectionLives says.                         *)
Lives ==
  INSTANCE ConnectionLives
  WITH phase <- state, open <- {c \in Ids : Alive(c)}, ending <- (server # "running")
LivesRefined == Lives!Spec

(* A peer that waits is accepted once a descriptor is free, even when it   *)
(* was refused for want of one: nothing is forgotten by a failed accept.   *)
AcceptsWhenFree ==
  waiting > 0 /\ Free # {}
    ~> waiting = 0 \/ Free = {} \/ quit[Base] \/ phase[Base] = "begin"

(* The destructor returns, if every worker was in loop() when it began.    *)
DestructorReturns ==
  server = "closing" /\ (\A l \in Workers : phase[l] # "begin") ~> server = "destroyed"

===============================================================================
