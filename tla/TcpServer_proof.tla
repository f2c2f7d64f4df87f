---------------------------- MODULE TcpServer_proof ----------------------------
(***************************************************************************)
(* Proofs about TcpServer, for any number of threads, connections and      *)
(* descriptors.                                                            *)
(***************************************************************************)
EXTENDS TcpServer, SequenceTheorems, TLAPS

(* The values a connection's channel takes: up, after handleClose, and     *)
(* after connectDestroyed.                                                 *)
UpChannel   == [events |-> {"read"}, index |-> "kAdded", listed |-> TRUE, inEpoll |-> TRUE]
DownChannel == [events |-> {}, index |-> "kDeleted", listed |-> TRUE, inEpoll |-> FALSE]
GoneChannel == [events |-> {}, index |-> "kDeleted", listed |-> FALSE, inEpoll |-> FALSE]

ChannelValues == {NewChannel, UpChannel, DownChannel, GoneChannel}

LEMMA ChannelSteps ==
  /\ EnableReading(NewChannel) = UpChannel
  /\ DisableAll(UpChannel) = DownChannel
  /\ RemoveChannel(DownChannel) = GoneChannel
  /\ RemoveChannel(GoneChannel) = GoneChannel
<1> USE DEF NewChannel, UpChannel, DownChannel, GoneChannel
<1>1. EnableReading(NewChannel) = UpChannel
  <2>1. {} \cup {"read"} = {"read"}
    OBVIOUS
  <2>2. QED BY <2>1 DEF EnableReading, SetEvents, UpdateChannel
<1>2. DisableAll(UpChannel) = DownChannel
  BY DEF DisableAll, SetEvents, UpdateChannel
<1>3. RemoveChannel(DownChannel) = GoneChannel
  BY DEF RemoveChannel, DisableAll, SetEvents, UpdateChannel
<1>4. RemoveChannel(GoneChannel) = GoneChannel
  BY DEF RemoveChannel, DisableAll, SetEvents, UpdateChannel
<1>5. QED BY <1>1, <1>2, <1>3, <1>4

(* ~Acceptor leaves nothing behind, whether or not it was listening.       *)
LEMMA AcceptorRemoved ==
  ASSUME NEW c \in {NewChannel, UpChannel}
  PROVE  RemoveChannel(DisableAll(c)) = GoneChannel
<1>1. CASE c = NewChannel
  BY <1>1 DEF NewChannel, GoneChannel, RemoveChannel, DisableAll, SetEvents, UpdateChannel
<1>2. CASE c = UpChannel
  BY <1>2, ChannelSteps
<1>3. QED BY <1>1, <1>2

LEMMA ChannelFacts ==
  /\ ChannelValues \subseteq ChannelRecord
  /\ ~NewChannel.listed /\ UpChannel.listed /\ DownChannel.listed /\ ~GoneChannel.listed
  /\ ~NewChannel.inEpoll /\ UpChannel.inEpoll /\ ~DownChannel.inEpoll /\ ~GoneChannel.inEpoll
  BY DEF ChannelValues, NewChannel, UpChannel, DownChannel, GoneChannel, ChannelRecord, Event

-----------------------------------------------------------------------------
(* Functors and queues.                                                    *)

Est(c) == Fn("connectEstablished", c)
Des(c) == Fn("connectDestroyed", c)
Rem(c) == Fn("removeConnectionInLoop", c)

LEMMA FunctorFacts ==
  /\ \A c \in Ids : /\ Est(c) \in Functor /\ Des(c) \in Functor /\ Rem(c) \in Functor
                    /\ Est(c).conn = c /\ Des(c).conn = c /\ Rem(c).conn = c
                    /\ Est(c).fn = "connectEstablished" /\ Des(c).fn = "connectDestroyed"
                    /\ Rem(c).fn = "removeConnectionInLoop"
  /\ \A f \in Functor :
       /\ f.conn \in Ids
       /\ f.fn = "connectEstablished" => f = Est(f.conn)
       /\ f.fn = "connectDestroyed" => f = Des(f.conn)
       /\ f.fn \notin {"connectEstablished", "connectDestroyed"} =>
            f = Rem(f.conn) /\ f.fn = "removeConnectionInLoop"
  BY DEF Est, Des, Rem, Fn, Functor

(* A functor of c is in the queue s. *)
Holds(s, c) == \E f \in Range(s) : f.conn = c

(* connectEstablished is the first functor of its connection, and once. *)
Ordered(s) ==
  \A i, j \in DOMAIN s :
    s[j].fn = "connectEstablished" /\ s[i].conn = s[j].conn => j <= i

LEMMA EmptyQueue == Range(<<>>) = {} /\ Ordered(<<>>) /\ <<>> \in Seq(Functor)
  BY DEF Range, Ordered

LEMMA QueueAppend ==
  ASSUME NEW s \in Seq(Functor), NEW f \in Functor
  PROVE  /\ Append(s, f) \in Seq(Functor)
         /\ Range(Append(s, f)) = Range(s) \cup {f}
         /\ Ordered(s) /\ (f.fn = "connectEstablished" => ~Holds(s, f.conn))
              => Ordered(Append(s, f))
<1>1. /\ Append(s, f) \in Seq(Functor) /\ Len(s) \in Nat /\ DOMAIN s = 1 .. Len(s)
      /\ DOMAIN Append(s, f) = 1 .. Len(s) + 1
      /\ \A i \in 1 .. Len(s) : Append(s, f)[i] = s[i]
      /\ Append(s, f)[Len(s) + 1] = f
  BY AppendProperties, LenProperties
<1> DEFINE t == Append(s, f)
<1> HIDE DEF t
<1>2. Range(t) = Range(s) \cup {f}
  <2>1. \A i \in 1 .. Len(s) + 1 : i \in 1 .. Len(s) \/ i = Len(s) + 1
    BY <1>1
  <2>2. 1 .. Len(s) \subseteq 1 .. Len(s) + 1 /\ Len(s) + 1 \in 1 .. Len(s) + 1
    BY <1>1
  <2>3. QED BY <1>1, <2>1, <2>2 DEF Range, t
<1>3. ASSUME Ordered(s), f.fn = "connectEstablished" => ~Holds(s, f.conn)
      PROVE  Ordered(t)
  <2>1. SUFFICES ASSUME NEW i \in 1 .. Len(s) + 1, NEW j \in 1 .. Len(s) + 1,
                        t[j].fn = "connectEstablished", t[i].conn = t[j].conn
                 PROVE  j <= i
    BY <1>1 DEF Ordered, t
  <2>2. CASE i = Len(s) + 1
    BY <1>1, <2>2
  <2>3. CASE i # Len(s) + 1 /\ j = Len(s) + 1
    <3>1. i \in 1 .. Len(s) /\ t[i] = s[i] /\ t[j] = f
      BY <1>1, <2>3 DEF t
    <3>2. Holds(s, f.conn)
      BY <1>1, <2>1, <3>1 DEF Holds, Range
    <3>3. QED BY <1>3, <2>1, <3>1, <3>2
  <2>4. CASE i # Len(s) + 1 /\ j # Len(s) + 1
    <3>1. i \in 1 .. Len(s) /\ j \in 1 .. Len(s) /\ t[i] = s[i] /\ t[j] = s[j]
      BY <1>1, <2>4 DEF t
    <3>2. QED BY <1>1, <1>3, <2>1, <3>1 DEF Ordered
  <2>5. QED BY <2>2, <2>3, <2>4
<1>4. QED BY <1>1, <1>2, <1>3 DEF t

(* The head of a queue, and what is left. *)
LEMMA QueueTail ==
  ASSUME NEW s \in Seq(Functor), s # <<>>
  PROVE  /\ Head(s) \in Functor /\ Head(s) \in Range(s) /\ Tail(s) \in Seq(Functor)
         /\ Range(s) = {Head(s)} \cup Range(Tail(s))
         /\ Ordered(s) =>
              /\ Ordered(Tail(s))
              /\ \A c \in Ids : Head(s).conn = c => Est(c) \notin Range(Tail(s))
<1>1. /\ Len(s) \in Nat \ {0} /\ DOMAIN s = 1 .. Len(s)
      /\ Tail(s) \in Seq(Functor) /\ DOMAIN Tail(s) = 1 .. Len(s) - 1
      /\ \A i \in 1 .. Len(s) - 1 : Tail(s)[i] = s[i + 1]
      /\ Head(s) = s[1] /\ s[1] \in Functor
  BY HeadTailProperties, LenProperties, EmptySeq, ElementOfSeq
<1> DEFINE t == Tail(s)
           h == Head(s)
<1> HIDE DEF t, h
<1>2. Range(s) = {h} \cup Range(t)
  <2>1. ASSUME NEW x \in Range(s) PROVE x \in {h} \cup Range(t)
    <3>1. PICK i \in 1 .. Len(s) : x = s[i]
      BY <1>1 DEF Range
    <3>2. CASE i = 1
      BY <1>1, <3>1, <3>2 DEF h
    <3>3. CASE i # 1
      <4>1. i - 1 \in 1 .. Len(s) - 1 /\ (i - 1) + 1 = i
        BY <1>1, <3>1, <3>3
      <4>2. t[i - 1] = x
        BY <1>1, <3>1, <4>1 DEF t
      <4>3. QED BY <1>1, <4>1, <4>2 DEF Range, t
    <3>4. QED BY <3>2, <3>3
  <2>2. ASSUME NEW x \in Range(t) PROVE x \in Range(s)
    <3>1. PICK i \in 1 .. Len(s) - 1 : x = t[i]
      BY <1>1 DEF Range, t
    <3>2. i + 1 \in 1 .. Len(s) /\ s[i + 1] = x
      BY <1>1, <3>1 DEF t
    <3>3. QED BY <1>1, <3>2 DEF Range
  <2>3. h \in Range(s)
    BY <1>1 DEF Range, h
  <2>4. QED BY <2>1, <2>2, <2>3
<1>3. ASSUME Ordered(s) PROVE Ordered(t)
  <2>1. SUFFICES ASSUME NEW i \in 1 .. Len(s) - 1, NEW j \in 1 .. Len(s) - 1,
                        t[j].fn = "connectEstablished", t[i].conn = t[j].conn
                 PROVE  j <= i
    BY <1>1 DEF Ordered, t
  <2>2. i + 1 \in 1 .. Len(s) /\ j + 1 \in 1 .. Len(s) /\ t[i] = s[i + 1] /\ t[j] = s[j + 1]
    BY <1>1 DEF t
  <2>3. j + 1 <= i + 1
    BY <1>1, <1>3, <2>1, <2>2 DEF Ordered
  <2>4. QED BY <2>3
<1>4. ASSUME Ordered(s), NEW c \in Ids, h.conn = c PROVE Est(c) \notin Range(t)
  <2>1. SUFFICES ASSUME Est(c) \in Range(t) PROVE FALSE
    OBVIOUS
  <2>2. PICK i \in 1 .. Len(s) - 1 : Est(c) = t[i]
    BY <1>1, <2>1 DEF Range, t
  <2>3. i + 1 \in 1 .. Len(s) /\ s[i + 1] = Est(c) /\ 1 \in 1 .. Len(s) /\ s[1] = h
    BY <1>1, <2>2 DEF t, h
  <2>4. i + 1 <= 1
    BY <1>1, <1>4, <2>3, FunctorFacts DEF Ordered
  <2>5. QED BY <2>4
<1>5. QED BY <1>1, <1>2, <1>3, <1>4 DEF t, h

-----------------------------------------------------------------------------
(* The invariant.                                                          *)

Phases == {"none", "begin", "poll", "events", "functors", "ended"}

States == {"none", "kConnecting", "kConnected", "kDisconnected"}

(* Types, and that a peer that waits has a number left: the acceptor makes *)
(* no more connections than peers arrived.                                 *)
TypeInv ==
  /\ numThreads \in 0 .. MaxThreads /\ started \in BOOLEAN
  /\ next \in Nat /\ (next = 0 \/ next < numThreads)
  /\ nextConnId \in 1 .. MaxConns + 1 /\ conns \subseteq Ids
  /\ acc \in ChannelRecord
  /\ server \in {"running", "closing", "joining", "destroyed"}
  /\ joined \in 0 .. MaxThreads
  /\ phase \in [Loops -> Phases]
  /\ quit \in [Loops -> BOOLEAN]
  /\ active \in [Loops -> SUBSET (Ids \cup {Listener})]
  /\ pending \in [Loops -> Seq(Functor)] /\ batch \in [Loops -> Seq(Functor)]
  /\ spent \in [Loops -> SUBSET Ids]
  /\ state \in [Ids -> States]
  /\ place \in [Ids -> Workers \cup {Base}]
  /\ fd \in [Ids -> Fds \cup {0}]
  /\ ch \in [Ids -> ChannelValues]
  /\ others \subseteq Fds
  /\ arrived \in 0 .. MaxConns /\ waiting \in 0 .. arrived
  /\ nextConnId + waiting <= arrived + 1
  /\ late \subseteq Ids

(* What a loop has at hand in each of its phases; that a worker is told to *)
(* quit, and ends, only when the destructor has emptied the map.           *)
PhaseInv ==
  \A l \in Loops :
    /\ phase[l] # "events" => active[l] = {}
    /\ phase[l] # "functors" => batch[l] = <<>> /\ spent[l] = {}
    /\ Listener \in active[l] => l = Base /\ waiting > 0
    /\ l # Base /\ ~started => phase[l] = "none"
    /\ l # Base /\ (quit[l] \/ phase[l] = "ended") => server # "running" /\ conns = {}

(* The destructor runs outside the base loop, and has joined what it joined. *)
ServerInv ==
  /\ server # "running" => phase[Base] \in {"begin", "ended"}
  /\ server = "running" => joined = 0
  /\ \A l \in 1 .. joined : phase[l] = "ended"
  /\ server \in {"joining", "destroyed"} => conns = {}
  /\ server = "joining" => joined + 1 \in Workers
  /\ server = "destroyed" => joined + 1 \notin Workers /\ acc = GoneChannel
  /\ server # "destroyed" => acc \in {NewChannel, UpChannel}

(* state_ and the channel of a connection go together, and only a          *)
(* connection that is up is among the active ones of its loop.             *)
StateInv ==
  /\ \A c \in Ids :
       /\ state[c] = "none" <=> c >= nextConnId
       /\ state[c] = "none" => ch[c] = NewChannel /\ c \notin conns
       /\ state[c] = "kConnecting" => ch[c] = NewChannel /\ place[c] # Base
       /\ state[c] = "kConnected" => ch[c] = UpChannel /\ (place[c] = Base => c \in conns)
       /\ state[c] = "kDisconnected" => ch[c] \in {DownChannel, GoneChannel}
  /\ \A l \in Loops : \A c \in active[l] \ {Listener} : place[c] = l /\ state[c] = "kConnected"

(* Who waits for what: connectEstablished on the connection's own loop,    *)
(* once, before anything else of it, while it is kConnecting;              *)
(* connectDestroyed on its own loop; removeConnectionInLoop on the base    *)
(* loop after it went down.                                                *)
QueueInv ==
  /\ \A l \in Loops :
       /\ \A f \in Range(batch[l]) \cup Range(pending[l]) :
            /\ state[f.conn] # "none"
            /\ f.fn = "connectEstablished" => place[f.conn] = l /\ state[f.conn] = "kConnecting"
            /\ f.fn = "connectDestroyed" => place[f.conn] = l
            /\ f.fn = "removeConnectionInLoop" => l = Base /\ state[f.conn] = "kDisconnected"
       /\ Ordered(batch[l]) /\ Ordered(pending[l])
       /\ \A c \in Ids : Est(c) \in Range(pending[l]) => ~Holds(batch[l], c)
       /\ \A c \in spent[l] : state[c] # "none"
  /\ \A c \in Ids : state[c] = "kConnecting" =>
       \/ Est(c) \in Range(batch[place[c]]) \cup Range(pending[place[c]])
       \/ phase[place[c]] = "ended"

(* Who holds a connection its poller knows: the map, or a connectDestroyed *)
(* on its own loop, unless that loop is gone.  And who will report one     *)
(* that is not down and not in the map: a connectDestroyed its loop is     *)
(* sure to run, unless it came when the loop was past its swap.            *)
HeldInv ==
  \A c \in Ids :
    /\ ch[c].listed \/ state[c] = "kConnecting" =>
         \/ c \in conns
         \/ Des(c) \in Range(batch[place[c]]) \cup Range(pending[place[c]])
         \/ place[c] # Base /\ phase[place[c]] = "ended"
    /\ server = "running" /\ state[c] \in {"kConnecting", "kConnected"} => c \in conns
    /\ state[c] \in {"kConnecting", "kConnected"} /\ c \notin conns /\ c \notin late =>
         \/ Des(c) \in Range(batch[place[c]])
         \/ /\ Des(c) \in Range(pending[place[c]])
            /\ phase[place[c]] \notin {"functors", "ended"}

ServerOK == TypeInv /\ PhaseInv /\ ServerInv /\ StateInv /\ QueueInv /\ HeldInv

LEMMA Numbers ==
  /\ MaxThreads \in Nat /\ MaxConns \in Nat
  /\ Base \in Loops /\ Listener \notin Ids
  /\ \A l \in 1 .. MaxThreads : l \in Loops /\ l # Base
  BY ThreadAssumption, ConnAssumption DEF Base, Loops, Listener, Ids

LEMMA TypeInvOK == TypeInv => TypeOK
  BY ChannelFacts DEF TypeInv, TypeOK, Phases, States

LEMMA WorkersAreLoops ==
  ASSUME TypeInv
  PROVE  /\ \A l \in Workers : l \in Loops /\ l # Base
         /\ \A c \in Ids : place[c] \in Loops
<1>1. \A l \in Workers : l \in 1 .. MaxThreads
  BY Numbers DEF TypeInv, Workers
<1>2. QED BY <1>1, Numbers DEF TypeInv

LEMMA InitOK == Init => ServerOK
<1> SUFFICES ASSUME Init PROVE ServerOK
  OBVIOUS
<1>1. TypeInv
  <2>1. /\ numThreads \in 0 .. MaxThreads /\ started \in BOOLEAN /\ next \in Nat /\ next = 0
        /\ nextConnId \in 1 .. MaxConns + 1 /\ conns \subseteq Ids /\ joined \in 0 .. MaxThreads
        /\ arrived \in 0 .. MaxConns /\ waiting \in 0 .. arrived
        /\ nextConnId + waiting <= arrived + 1 /\ late \subseteq Ids /\ others \subseteq Fds
    <3>1. numThreads \in 0 .. MaxThreads /\ others \subseteq Fds
      BY ThreadAssumption DEF Init
    <3>2. /\ started = FALSE /\ next = 0 /\ nextConnId = 1 /\ conns = {} /\ joined = 0
          /\ arrived = 0 /\ waiting = 0 /\ late = {}
      BY DEF Init
    <3>3. MaxThreads \in Nat /\ MaxConns \in Nat
      BY ThreadAssumption, ConnAssumption
    <3>4. /\ next \in Nat /\ nextConnId \in 1 .. MaxConns + 1 /\ joined \in 0 .. MaxThreads
          /\ arrived \in 0 .. MaxConns /\ waiting \in 0 .. arrived
          /\ nextConnId + waiting <= arrived + 1
      BY <3>2, <3>3
    <3>5. QED BY <3>1, <3>2, <3>4
  <2>2. acc \in ChannelRecord /\ ch \in [Ids -> ChannelValues]
    BY ChannelFacts DEF Init, ChannelValues
  <2>3. phase \in [Loops -> Phases] /\ state \in [Ids -> States]
    BY DEF Init, Phases, States
  <2>4. pending \in [Loops -> Seq(Functor)] /\ batch \in [Loops -> Seq(Functor)]
    BY EmptyQueue DEF Init
  <2>5. /\ quit \in [Loops -> BOOLEAN] /\ active \in [Loops -> SUBSET (Ids \cup {Listener})]
        /\ spent \in [Loops -> SUBSET Ids]
    BY DEF Init
  <2>6. place \in [Ids -> Workers \cup {Base}] /\ fd \in [Ids -> Fds \cup {0}]
    BY DEF Init
  <2>7. server \in {"running", "closing", "joining", "destroyed"}
    BY DEF Init
  <2>8. QED BY <2>1, <2>2, <2>3, <2>4, <2>5, <2>6, <2>7 DEF TypeInv
<1>2. PhaseInv
  BY DEF Init, PhaseInv
<1>3. ServerInv
  BY Numbers DEF Init, ServerInv
<1>4. StateInv
  BY Numbers DEF Init, StateInv, Ids
<1>5. QueueInv
  BY EmptyQueue, Numbers DEF Init, QueueInv
<1>6. HeldInv
  BY ChannelFacts DEF Init, HeldInv
<1>7. QED BY <1>1, <1>2, <1>3, <1>4, <1>5, <1>6 DEF ServerOK

-----------------------------------------------------------------------------
(* Steps that leave the connections and the queues alone.                  *)

ConnsStay == UNCHANGED <<state, place, ch, conns, pending, batch, spent, late, nextConnId>>

LEMMA FrameStep ==
  ASSUME ServerOK, ConnsStay,
         \A l \in Loops : phase[l] = "ended" => phase'[l] = "ended",
         \A l \in Loops : phase'[l] \in {"functors", "ended"} => phase[l] = phase'[l],
         server' = "running" => server = "running",
         \A l \in Loops : \A c \in active'[l] \ {Listener} :
           place[c] = l /\ state[c] = "kConnected"
  PROVE  StateInv' /\ QueueInv' /\ HeldInv'
<1>1. \A c \in Ids : place[c] \in Loops
  BY WorkersAreLoops DEF ServerOK
<1>2. StateInv'
  BY DEF ServerOK, StateInv, ConnsStay
<1>3. QueueInv'
  BY <1>1 DEF ServerOK, QueueInv, ConnsStay
<1>4. HeldInv'
  BY <1>1 DEF ServerOK, HeldInv, ConnsStay
<1>5. QED BY <1>2, <1>3, <1>4

LEMMA StartStep == ASSUME ServerOK, Start PROVE ServerOK'
<1>1. /\ ~started /\ server = "running" /\ phase[Base] = "begin" /\ started' = TRUE
      /\ phase' = [l \in Loops |-> IF l \in 1 .. numThreads THEN "begin" ELSE phase[l]]
      /\ acc' = EnableReading(acc)
      /\ ConnsStay
      /\ UNCHANGED <<numThreads, next, server, joined, fd, others, arrived, waiting, quit, active>>
  BY DEF Start, ConnsStay, mainVars, netVars, connVars
<1>2. acc' = UpChannel \/ acc' = acc
  <2>1. acc = NewChannel => acc' = UpChannel
    BY <1>1, ChannelSteps
  <2>2. EnableReading(UpChannel) = UpChannel
    <3>1. {"read"} \cup {"read"} = {"read"}
      OBVIOUS
    <3>2. QED BY <3>1 DEF UpChannel, EnableReading, SetEvents, UpdateChannel
  <2>3. QED BY <1>1, <2>1, <2>2 DEF ServerOK, ServerInv
<1>3. \A l \in Loops : l # Base => phase[l] = "none"
  BY <1>1 DEF ServerOK, PhaseInv
<1>4. Base \notin 1 .. numThreads
  BY DEF Base, ServerOK, TypeInv
<1>5. TypeInv'
  <2>1. Workers = {}
    BY <1>1 DEF Workers
  <2>2. place' \in [Ids -> Workers' \cup {Base}]
    BY <1>1, <2>1 DEF ConnsStay, ServerOK, TypeInv
  <2>3. acc' \in ChannelRecord
    BY <1>2, ChannelFacts DEF ServerOK, TypeInv, ChannelValues
  <2>4. phase' \in [Loops -> Phases]
    BY <1>1 DEF ServerOK, TypeInv, Phases
  <2>5. QED BY <1>1, <2>2, <2>3, <2>4 DEF ConnsStay, ServerOK, TypeInv
<1>6. PhaseInv'
  BY <1>1, <1>3, <1>4 DEF ServerOK, PhaseInv, ConnsStay
<1>7. ServerInv'
  BY <1>1, <1>2, <1>4, Numbers DEF ServerOK, ServerInv, ConnsStay
<1>8. StateInv' /\ QueueInv' /\ HeldInv'
  <2>1. \A l \in Loops : \A c \in active'[l] \ {Listener} : place[c] = l /\ state[c] = "kConnected"
    BY <1>1 DEF ServerOK, StateInv
  <2>2. QED BY <1>1, <1>3, <1>4, <2>1, FrameStep
<1>9. QED BY <1>5, <1>6, <1>7, <1>8 DEF ServerOK

(* The environment, and the starts of loops.                               *)
LEMMA OutsideStep ==
  ASSUME ServerOK, QuitBase \/ PeerConnects \/ \E l \in Loops : BeginLoop(l)
  PROVE  ServerOK'
<1>1. /\ ConnsStay
      /\ UNCHANGED <<numThreads, started, next, server, joined, acc, fd, others, active>>
      /\ \/ UNCHANGED phase
         \/ \E l \in Loops : /\ phase[l] = "begin" /\ phase' = [phase EXCEPT ![l] = "poll"]
                             /\ l = Base => server = "running"
      /\ \/ quit' = [quit EXCEPT ![Base] = TRUE]
         \/ \E l \in Loops : quit' = [quit EXCEPT ![l] = FALSE]
         \/ UNCHANGED quit
      /\ \/ UNCHANGED <<arrived, waiting>>
         \/ arrived < MaxConns /\ arrived' = arrived + 1 /\ waiting' = waiting + 1
  BY DEF QuitBase, PeerConnects, BeginLoop, Goes, ConnsStay, mainVars, netVars, connVars,
         poolVars, loopVars
<1>2. phase \in [Loops -> Phases] /\ phase' \in [Loops -> Phases] /\ quit' \in [Loops -> BOOLEAN]
  BY <1>1 DEF ServerOK, TypeInv, Phases
<1>3. \A l \in Loops : phase'[l] \in {phase[l], "poll"} /\ (phase'[l] # phase[l] => phase[l] = "begin")
  BY <1>1, <1>2
<1>4. \A l \in Loops : l # Base /\ quit'[l] => quit[l]
  BY <1>1 DEF ServerOK, TypeInv
<1>5. /\ arrived' \in 0 .. MaxConns /\ waiting' \in 0 .. arrived' /\ waiting' >= waiting
      /\ nextConnId' + waiting' <= arrived' + 1 /\ waiting \in Nat
  BY <1>1, Numbers DEF ServerOK, TypeInv, ConnsStay
<1>6. TypeInv'
  BY <1>1, <1>2, <1>5 DEF ServerOK, TypeInv, ConnsStay, Workers
<1>7. PhaseInv'
  BY <1>1, <1>2, <1>3, <1>4, <1>5 DEF ServerOK, PhaseInv, ConnsStay
<1>8. ServerInv'
  <2>1. \A l \in 1 .. joined : l \in Loops
    BY Numbers DEF ServerOK, TypeInv
  <2>2. phase'[Base] = phase[Base] \/ server = "running"
    <3>1. Base \in Loops
      BY Numbers
    <3>2. QED BY <1>1, <1>2, <3>1
  <2>3. QED BY <1>1, <1>3, <2>1, <2>2 DEF ServerOK, ServerInv, ConnsStay, Workers
<1>9. StateInv' /\ QueueInv' /\ HeldInv'
  <2>1. \A l \in Loops : \A c \in active'[l] \ {Listener} : place[c] = l /\ state[c] = "kConnected"
    BY <1>1 DEF ServerOK, StateInv
  <2>2. QED BY <1>1, <1>3, <2>1, FrameStep
<1>10. QED BY <1>6, <1>7, <1>8, <1>9 DEF ServerOK

(* A step of a loop that handles events or functors and leaves its         *)
(* connections alone.                                                      *)
LEMMA PollStep == ASSUME ServerOK, NEW l \in Loops, Poll(l) PROVE ServerOK'
<1>1. /\ ConnsStay /\ phase[l] = "poll" /\ phase' = [phase EXCEPT ![l] = "events"]
      /\ UNCHANGED <<numThreads, started, next, server, joined, acc, fd, others, quit,
                     arrived, waiting>>
  BY DEF Poll, Goes, ConnsStay, poolVars, mainVars, netVars, connVars
<1>2. PICK woken \in SUBSET Registered(l) :
        active' = [active EXCEPT ![l] = woken \cup Listening(l)]
  BY DEF Poll
<1>3. \A c \in woken : c \in Ids /\ place[c] = l /\ state[c] = "kConnected"
  <2>1. SUFFICES ASSUME NEW c \in Ids, place[c] = l, ch[c].inEpoll PROVE state[c] = "kConnected"
    BY DEF Registered
  <2>2. ch[c] # NewChannel /\ ch[c] # DownChannel /\ ch[c] # GoneChannel
    BY <2>1, ChannelFacts
  <2>3. state[c] \in States
    BY DEF ServerOK, TypeInv
  <2>4. QED BY <2>2, <2>3 DEF ServerOK, StateInv, States
<1>4. /\ phase \in [Loops -> Phases] /\ phase' \in [Loops -> Phases]
      /\ active' \in [Loops -> SUBSET (Ids \cup {Listener})]
  BY <1>1, <1>2, <1>3 DEF ServerOK, TypeInv, Phases, Listening
<1>5. \A c \in woken \cup Listening(l) :
        c = Listener => l = Base /\ waiting > 0
  BY <1>3, Numbers DEF Listening
<1>6. Base \in Loops /\ (server # "running" => l # Base) /\ \A k \in 1 .. joined : k \in Loops
  BY <1>1, Numbers DEF ServerOK, ServerInv, TypeInv
<1>7. TypeInv'
  BY <1>1, <1>4 DEF ServerOK, TypeInv, ConnsStay, Workers
<1>8. PhaseInv'
  <2>1. \A k \in Loops : active'[k] = IF k = l THEN woken \cup Listening(l) ELSE active[k]
    BY <1>2 DEF ServerOK, TypeInv
  <2>2. \A k \in Loops : phase'[k] = IF k = l THEN "events" ELSE phase[k]
    BY <1>1, <1>4
  <2>3. QED BY <1>1, <1>5, <2>1, <2>2 DEF ServerOK, PhaseInv, ConnsStay
<1>9. ServerInv'
  BY <1>1, <1>4, <1>6 DEF ServerOK, ServerInv, ConnsStay, Workers
<1>10. StateInv' /\ QueueInv' /\ HeldInv'
  <2>1. \A k \in Loops : \A c \in active'[k] \ {Listener} : place[c] = k /\ state[c] = "kConnected"
    BY <1>2, <1>3 DEF ServerOK, StateInv, TypeInv, Listening
  <2>2. QED BY <1>1, <1>4, <2>1, FrameStep
<1>11. QED BY <1>7, <1>8, <1>9, <1>10 DEF ServerOK

(* A channel was handled, and no connection closed or made. *)
LEMMA HandledStep ==
  ASSUME ServerOK, ConnsStay, NEW l \in Loops, NEW channel \in Ids \cup {Listener},
         Handles(l, channel), others' \subseteq Fds,
         IF channel = Listener THEN waiting' \in {waiting, waiting - 1} ELSE UNCHANGED waiting,
         UNCHANGED <<numThreads, started, next, server, joined, acc, fd, arrived, phase, quit>>
  PROVE  ServerOK'
<1>1. /\ phase[l] = "events" /\ channel \in active[l]
      /\ active' = [active EXCEPT ![l] = @ \ {channel}]
  BY DEF Handles
<1>2. \A k \in Loops : active'[k] = IF k = l THEN active[l] \ {channel} ELSE active[k]
  BY <1>1 DEF ServerOK, TypeInv
<1>3. active' \in [Loops -> SUBSET (Ids \cup {Listener})]
  BY <1>1 DEF ServerOK, TypeInv
<1>4. /\ waiting \in Nat /\ arrived \in Nat /\ nextConnId \in Nat
      /\ waiting' \in 0 .. arrived /\ waiting' <= waiting
      /\ nextConnId + waiting' <= arrived + 1
      /\ \A k \in Loops : Listener \in active'[k] => waiting' = waiting
  <2>1. /\ waiting \in 0 .. arrived /\ arrived \in Nat /\ nextConnId \in Nat
        /\ nextConnId + waiting <= arrived + 1
    BY DEF ServerOK, TypeInv
  <2>2. CASE channel = Listener
    <3>1. waiting > 0 /\ l = Base
      BY <1>1, <2>2 DEF ServerOK, PhaseInv
    <3>2. \A k \in Loops : Listener \notin active'[k]
      BY <1>2, <2>2, <3>1 DEF ServerOK, PhaseInv
    <3>3. QED BY <2>1, <2>2, <3>1, <3>2
  <2>3. CASE channel # Listener
    BY <2>1, <2>3
  <2>4. QED BY <2>2, <2>3
<1>5. TypeInv'
  BY <1>3, <1>4 DEF ServerOK, TypeInv, ConnsStay, Workers
<1>6. PhaseInv'
  BY <1>1, <1>2, <1>4 DEF ServerOK, PhaseInv, ConnsStay
<1>7. ServerInv'
  BY DEF ServerOK, ServerInv, ConnsStay, Workers
<1>8. StateInv' /\ QueueInv' /\ HeldInv'
  <2>1. \A k \in Loops : \A c \in active'[k] \ {Listener} : place[c] = k /\ state[c] = "kConnected"
    BY <1>2 DEF ServerOK, StateInv
  <2>2. QED BY <2>1, FrameStep
<1>9. QED BY <1>5, <1>6, <1>7, <1>8 DEF ServerOK

(* The destructor, but for the connections it drops. *)
LEMMA DestructorStep ==
  ASSUME ServerOK, BeginDestructor \/ QuitWorker \/ JoinWorker \/ EndDestructor
  PROVE  ServerOK'
<1>1. /\ ConnsStay
      /\ UNCHANGED <<numThreads, started, next, fd, others, arrived, phase, active>>
  BY DEF BeginDestructor, QuitWorker, JoinWorker, EndDestructor, ConnsStay, poolVars,
         mainVars, netVars, loopVars, connVars
<1>2. \A k \in Workers : k \in Loops /\ k # Base /\ k \in 1 .. MaxThreads
  BY WorkersAreLoops, Numbers DEF ServerOK, TypeInv, Workers
<1>3. Base \in Loops /\ joined \in Nat /\ arrived \in Nat
  BY Numbers DEF ServerOK, TypeInv
<1>4. StateInv' /\ QueueInv' /\ HeldInv'
  <2>1. \A k \in Loops : \A c \in active'[k] \ {Listener} : place[c] = k /\ state[c] = "kConnected"
    BY <1>1 DEF ServerOK, StateInv
  <2>2. server' = "running" => server = "running"
    BY DEF BeginDestructor, QuitWorker, JoinWorker, EndDestructor
  <2>3. QED BY <1>1, <2>1, <2>2, FrameStep
<1>5. CASE BeginDestructor
  <2>1. /\ server = "running" /\ phase[Base] \in {"begin", "ended"} /\ server' = "closing"
        /\ UNCHANGED <<joined, acc, quit, waiting>>
    BY <1>5 DEF BeginDestructor, netVars, loopVars
  <2>2. TypeInv' /\ PhaseInv' /\ ServerInv'
    BY <1>1, <2>1 DEF ServerOK, TypeInv, PhaseInv, ServerInv, ConnsStay, Workers
  <2>3. QED BY <1>4, <2>2 DEF ServerOK
<1>6. CASE QuitWorker
  <2>1. /\ server = "closing" /\ conns = {} /\ joined + 1 \in Workers /\ server' = "joining"
        /\ quit' = [quit EXCEPT ![joined + 1] = TRUE]
        /\ UNCHANGED <<joined, acc, waiting>>
    BY <1>6 DEF QuitWorker, netVars
  <2>2. TypeInv'
    BY <1>1, <1>2, <2>1 DEF ServerOK, TypeInv, ConnsStay, Workers
  <2>3. PhaseInv'
    BY <1>1, <1>2, <2>1 DEF ServerOK, TypeInv, PhaseInv, ConnsStay
  <2>4. ServerInv'
    BY <1>1, <2>1 DEF ServerOK, ServerInv, ConnsStay, Workers
  <2>5. QED BY <1>4, <2>2, <2>3, <2>4 DEF ServerOK
<1>7. CASE JoinWorker
  <2>1. /\ server = "joining" /\ phase[joined + 1] = "ended"
        /\ server' = "closing" /\ joined' = joined + 1 /\ joined + 1 \in Workers
        /\ UNCHANGED <<acc, quit, waiting>>
    BY <1>7 DEF JoinWorker, netVars, loopVars, ServerOK, ServerInv
  <2>2. joined' \in 0 .. MaxThreads
    BY <1>2, <1>3, <2>1, Numbers
  <2>3. TypeInv'
    BY <1>1, <2>1, <2>2 DEF ServerOK, TypeInv, ConnsStay, Workers
  <2>4. PhaseInv'
    BY <1>1, <2>1 DEF ServerOK, PhaseInv, ConnsStay
  <2>5. ServerInv'
    <3>1. \A k \in 1 .. joined + 1 : k \in 1 .. joined \/ k = joined + 1
      BY <1>3
    <3>2. QED BY <1>1, <2>1, <3>1 DEF ServerOK, ServerInv, ConnsStay, Workers
  <2>6. QED BY <1>4, <2>3, <2>4, <2>5 DEF ServerOK
<1>8. CASE EndDestructor
  <2>1. /\ server = "closing" /\ conns = {} /\ joined + 1 \notin Workers /\ server' = "destroyed"
        /\ acc' = RemoveChannel(DisableAll(acc)) /\ waiting' = 0
        /\ UNCHANGED <<joined, quit>>
    BY <1>8 DEF EndDestructor, loopVars
  <2>2. acc' = GoneChannel /\ acc' \in ChannelRecord
    BY <2>1, AcceptorRemoved, ChannelFacts DEF ServerOK, ServerInv, ChannelValues
  <2>3. TypeInv'
    BY <1>1, <1>3, <2>1, <2>2 DEF ServerOK, TypeInv, ConnsStay, Workers
  <2>4. PhaseInv'
    <3>1. phase[Base] # "events"
      BY <2>1 DEF ServerOK, ServerInv
    <3>2. \A k \in Loops : Listener \notin active[k]
      BY <1>3, <3>1 DEF ServerOK, PhaseInv
    <3>3. QED BY <1>1, <2>1, <3>2 DEF ServerOK, PhaseInv, ConnsStay
  <2>5. ServerInv'
    BY <1>1, <2>1, <2>2 DEF ServerOK, ServerInv, ConnsStay, Workers
  <2>6. QED BY <1>4, <2>3, <2>4, <2>5 DEF ServerOK
<1>9. QED BY <1>5, <1>6, <1>7, <1>8

-----------------------------------------------------------------------------
(* Steps that queue a functor.                                             *)

LEMMA QueuedFunctors ==
  ASSUME TypeInv, NEW l \in Loops, NEW f \in Range(batch[l]) \cup Range(pending[l])
  PROVE  f \in Functor /\ f.conn \in Ids
<1>1. batch[l] \in Seq(Functor) /\ pending[l] \in Seq(Functor)
  BY DEF TypeInv
<1>2. \A s \in Seq(Functor) : Range(s) \subseteq Functor
  <2>1. SUFFICES ASSUME NEW s \in Seq(Functor), NEW i \in DOMAIN s PROVE s[i] \in Functor
    BY DEF Range
  <2>2. QED OBVIOUS
<1>3. QED BY <1>1, <1>2, FunctorFacts

LEMMA PostFacts ==
  ASSUME TypeInv, QueueInv, NEW l \in Loops, NEW f \in Functor, Post(l, f),
         f.fn = "connectEstablished" => ~Holds(pending[l], f.conn)
  PROVE  /\ pending' \in [Loops -> Seq(Functor)]
         /\ \A k \in Loops :
              /\ Range(pending'[k]) = Range(pending[k]) \cup (IF k = l THEN {f} ELSE {})
              /\ Ordered(pending'[k])
<1>1. /\ pending \in [Loops -> Seq(Functor)]
      /\ pending' = [pending EXCEPT ![l] = Append(pending[l], f)]
  BY DEF TypeInv, Post
<1>2. /\ Append(pending[l], f) \in Seq(Functor)
      /\ Range(Append(pending[l], f)) = Range(pending[l]) \cup {f}
      /\ Ordered(Append(pending[l], f))
  BY <1>1, QueueAppend DEF QueueInv
<1>3. pending' \in [Loops -> Seq(Functor)]
  BY <1>1, <1>2
<1>4. ASSUME NEW k \in Loops
      PROVE  /\ Range(pending'[k]) = Range(pending[k]) \cup (IF k = l THEN {f} ELSE {})
             /\ Ordered(pending'[k])
  <2>1. CASE k = l
    BY <1>1, <1>2, <2>1
  <2>2. CASE k # l
    BY <1>1, <2>2 DEF QueueInv
  <2>3. QED BY <2>1, <2>2
<1>5. QED BY <1>3, <1>4

(* handleClose: the connection leaves the map at once, or when the base    *)
(* loop runs removeConnectionInLoop.                                       *)
LEMMA CloseStep ==
  ASSUME ServerOK, NEW l \in Loops, NEW c \in Ids, Handles(l, c), HandleClose(l, c),
         UNCHANGED <<poolVars, acc, nextConnId, server, joined, late, netVars,
                     phase, quit, batch, spent, place, fd>>
  PROVE  ServerOK'
<1>1. /\ phase[l] = "events" /\ c \in active[l]
      /\ active' = [active EXCEPT ![l] = active[l] \ {c}]
      /\ state' = [state EXCEPT ![c] = "kDisconnected"]
      /\ ch' = [ch EXCEPT ![c] = DisableAll(ch[c])]
      /\ UNCHANGED <<numThreads, started, next, acc, nextConnId, server, joined, late, others,
                     arrived, waiting, phase, quit, batch, spent, place, fd>>
  BY DEF Handles, HandleClose, poolVars, netVars
<1>2. c # Listener /\ Base \in Loops /\ \A d \in Ids : place[d] \in Loops
  BY Numbers, WorkersAreLoops DEF ServerOK
<1>3. place[c] = l /\ state[c] = "kConnected" /\ ch[c] = UpChannel
  BY <1>1, <1>2 DEF ServerOK, StateInv
<1>4. /\ state' \in [Ids -> States] /\ ch' \in [Ids -> ChannelValues]
      /\ state'[c] = "kDisconnected" /\ ch'[c] = DownChannel
      /\ \A d \in Ids : d # c => state'[d] = state[d] /\ ch'[d] = ch[d]
      /\ active' \in [Loops -> SUBSET (Ids \cup {Listener})]
      /\ \A k \in Loops : active'[k] \subseteq active[k] /\ (k = l => c \notin active'[k])
  BY <1>1, <1>3, ChannelSteps DEF ServerOK, TypeInv, States, ChannelValues
<1>5. PICK f \in {Des(c), Rem(c)} :
        /\ Post(Base, f)
        /\ f = Des(c) => l = Base /\ conns' = conns \ {c}
        /\ f = Rem(c) => l # Base /\ conns' = conns
  BY <1>3, FunctorFacts DEF HandleClose, RemoveInLoop, Des, Rem
<1>6. f \in Functor /\ f.conn = c /\ f.fn # "connectEstablished"
      /\ (f.fn = "connectDestroyed" => f = Des(c)) /\ (f.fn = "removeConnectionInLoop" => f = Rem(c))
  BY FunctorFacts
<1>7. /\ pending' \in [Loops -> Seq(Functor)]
      /\ \A k \in Loops :
              /\ Range(pending'[k]) = Range(pending[k]) \cup (IF k = Base THEN {f} ELSE {})
              /\ Ordered(pending'[k])
  BY <1>2, <1>5, <1>6, PostFacts DEF ServerOK
<1>8. conns' \subseteq conns /\ (conns' = conns \/ (l = Base /\ conns' = conns \ {c}))
  BY <1>5
<1>9. TypeInv'
  BY <1>1, <1>4, <1>7, <1>8 DEF ServerOK, TypeInv, Workers
<1>10. PhaseInv'
  BY <1>1, <1>4, <1>8 DEF ServerOK, PhaseInv
<1>11. ServerInv'
  BY <1>1, <1>8 DEF ServerOK, ServerInv, Workers
<1>12. StateInv'
  <2>1. ASSUME NEW k \in Loops, NEW d \in active'[k] \ {Listener}
        PROVE  place'[d] = k /\ state'[d] = "kConnected"
    <3>1. d \in Ids /\ place[d] = k /\ state[d] = "kConnected"
      BY <1>4, <2>1 DEF ServerOK, StateInv, TypeInv
    <3>2. d # c
      BY <1>3, <1>4, <2>1, <3>1
    <3>3. QED BY <1>1, <1>4, <3>1, <3>2
  <2>2. \A d \in Ids :
          /\ state'[d] = "none" <=> d >= nextConnId'
          /\ state'[d] = "none" => ch'[d] = NewChannel /\ d \notin conns'
          /\ state'[d] = "kConnecting" => ch'[d] = NewChannel /\ place'[d] # Base
          /\ state'[d] = "kConnected" => ch'[d] = UpChannel /\ (place'[d] = Base => d \in conns')
          /\ state'[d] = "kDisconnected" => ch'[d] \in {DownChannel, GoneChannel}
    BY <1>1, <1>3, <1>4, <1>8 DEF ServerOK, StateInv
  <2>3. QED BY <2>1, <2>2 DEF StateInv
<1>13. QueueInv'
  <2>1. ASSUME NEW k \in Loops, NEW g \in Range(batch'[k]) \cup Range(pending'[k])
        PROVE  /\ state'[g.conn] # "none"
               /\ g.fn = "connectEstablished" => place'[g.conn] = k /\ state'[g.conn] = "kConnecting"
               /\ g.fn = "connectDestroyed" => place'[g.conn] = k
               /\ g.fn = "removeConnectionInLoop" => k = Base /\ state'[g.conn] = "kDisconnected"
    <3>1. CASE g \in Range(batch[k]) \cup Range(pending[k])
      <4>1. g.conn \in Ids
        BY <3>1, QueuedFunctors DEF ServerOK
      <4>2. /\ state[g.conn] # "none"
            /\ g.fn = "connectEstablished" => place[g.conn] = k /\ state[g.conn] = "kConnecting"
            /\ g.fn = "connectDestroyed" => place[g.conn] = k
            /\ g.fn = "removeConnectionInLoop" => k = Base /\ state[g.conn] = "kDisconnected"
        BY <3>1 DEF ServerOK, QueueInv
      <4>3. QED BY <1>1, <1>3, <1>4, <4>1, <4>2
    <3>2. CASE g = f /\ k = Base
      BY <1>1, <1>3, <1>4, <1>5, <1>6, <3>2
    <3>3. g \in Range(batch[k]) \cup Range(pending[k]) \/ (g = f /\ k = Base)
      <4>1. batch'[k] = batch[k]
        BY <1>1
      <4>2. Range(pending'[k]) = Range(pending[k]) \cup (IF k = Base THEN {f} ELSE {})
        BY <1>7
      <4>3. QED BY <2>1, <4>1, <4>2
    <3>4. QED BY <3>1, <3>2, <3>3
  <2>2. \A d \in Ids, k \in Loops : Est(d) \in Range(pending'[k]) => Est(d) \in Range(pending[k])
    BY <1>6, <1>7, FunctorFacts
  <2>3. \A d \in Ids, k \in Loops : Range(pending[k]) \subseteq Range(pending'[k])
    BY <1>7
  <2>4. \A k \in Loops : \A d \in spent'[k] : state'[d] # "none"
    BY <1>1, <1>4 DEF ServerOK, QueueInv, TypeInv
  <2>5. \A d \in Ids : state'[d] = "kConnecting" =>
             \/ Est(d) \in Range(batch'[place'[d]]) \cup Range(pending'[place'[d]])
             \/ phase'[place'[d]] = "ended"
    <3>1. ASSUME NEW d \in Ids, state'[d] = "kConnecting"
          PROVE  \/ Est(d) \in Range(batch[place[d]]) \cup Range(pending'[place[d]])
                 \/ phase[place[d]] = "ended"
      <4>1. state[d] = "kConnecting"
        BY <1>4, <3>1
      <4>2. Est(d) \in Range(batch[place[d]]) \cup Range(pending[place[d]]) \/ phase[place[d]] = "ended"
        BY <4>1 DEF ServerOK, QueueInv
      <4>3. QED BY <1>2, <2>3, <4>2
    <3>2. QED BY <1>1, <3>1
  <2>6. \A k \in Loops : /\ Ordered(batch'[k]) /\ Ordered(pending'[k])
                         /\ \A d \in Ids : Est(d) \in Range(pending'[k]) => ~Holds(batch'[k], d)
    BY <1>1, <1>7, <2>2 DEF ServerOK, QueueInv
  <2>7. QED BY <2>1, <2>4, <2>5, <2>6 DEF QueueInv
<1>14. HeldInv'
  <2>1. \A d \in Ids : Range(pending[place[d]]) \subseteq Range(pending'[place[d]])
    BY <1>2, <1>7
  <2>2. ASSUME NEW d \in Ids, d # c
        PROVE  /\ ch'[d].listed \/ state'[d] = "kConnecting" =>
                  \/ d \in conns'
                  \/ Des(d) \in Range(batch'[place'[d]]) \cup Range(pending'[place'[d]])
                  \/ place'[d] # Base /\ phase'[place'[d]] = "ended"
               /\ server' = "running" /\ state'[d] \in {"kConnecting", "kConnected"} => d \in conns'
               /\ state'[d] \in {"kConnecting", "kConnected"} /\ d \notin conns' /\ d \notin late' =>
                  \/ Des(d) \in Range(batch'[place'[d]])
                  \/ /\ Des(d) \in Range(pending'[place'[d]])
                     /\ phase'[place'[d]] \notin {"functors", "ended"}
    BY <1>1, <1>4, <1>8, <2>1, <2>2 DEF ServerOK, HeldInv
  <2>3. /\ state'[c] \notin {"kConnecting", "kConnected"}
        /\ \/ c \in conns'
           \/ Des(c) \in Range(batch'[place'[c]]) \cup Range(pending'[place'[c]])
           \/ place'[c] # Base /\ phase'[place'[c]] = "ended"
    <3>1. CASE f = Des(c)
      BY <1>1, <1>2, <1>3, <1>4, <1>5, <1>7, <3>1
    <3>2. CASE f = Rem(c)
      BY <1>1, <1>3, <1>4, <1>5, <2>1, <3>2, ChannelFacts DEF ServerOK, HeldInv
    <3>3. QED BY <3>1, <3>2
  <2>4. QED BY <2>2, <2>3 DEF HeldInv
<1>15. QED BY <1>9, <1>10, <1>11, <1>12, <1>13, <1>14 DEF ServerOK

-----------------------------------------------------------------------------
(* The batch of a loop.                                                    *)

LEMMA SwapStep == ASSUME ServerOK, NEW l \in Loops, SwapPending(l) PROVE ServerOK'
<1>1. /\ active[l] = {} /\ phase[l] = "events" /\ phase' = [phase EXCEPT ![l] = "functors"]
      /\ batch' = [batch EXCEPT ![l] = pending[l]]
      /\ pending' = [pending EXCEPT ![l] = <<>>]
      /\ UNCHANGED <<numThreads, started, next, nextConnId, conns, server, joined, late, acc,
                     others, arrived, waiting, quit, active, spent, state, place, fd, ch>>
  BY DEF SwapPending, Goes, poolVars, mainVars, netVars, connVars
<1>2. batch[l] = <<>> /\ spent[l] = {}
  BY <1>1 DEF ServerOK, PhaseInv
<1>3. /\ phase' \in [Loops -> Phases]
      /\ batch' \in [Loops -> Seq(Functor)] /\ pending' \in [Loops -> Seq(Functor)]
      /\ \A k \in Loops :
           IF k = l
           THEN phase'[k] = "functors" /\ batch'[k] = pending[k] /\ pending'[k] = <<>>
           ELSE phase'[k] = phase[k] /\ batch'[k] = batch[k] /\ pending'[k] = pending[k]
  BY <1>1, EmptyQueue DEF ServerOK, TypeInv, Phases
<1>4. \A k \in Loops : Range(batch'[k]) \cup Range(pending'[k]) =
                       Range(batch[k]) \cup Range(pending[k])
  BY <1>2, <1>3, EmptyQueue
<1>5. /\ \A d \in Ids : place[d] \in Loops
      /\ Base \in Loops /\ (server # "running" => l # Base) /\ \A k \in 1 .. joined : k \in Loops
  BY <1>1, WorkersAreLoops, Numbers DEF ServerOK, ServerInv, TypeInv
<1>6. TypeInv'
  BY <1>1, <1>3 DEF ServerOK, TypeInv, Workers
<1>7. PhaseInv'
  BY <1>1, <1>3 DEF ServerOK, PhaseInv
<1>8. ServerInv'
  BY <1>1, <1>3, <1>5 DEF ServerOK, ServerInv, Workers
<1>9. StateInv'
  BY <1>1 DEF ServerOK, StateInv
<1>10. QueueInv'
  <2>1. \A k \in Loops :
       /\ \A f \in Range(batch'[k]) \cup Range(pending'[k]) :
            /\ state'[f.conn] # "none"
            /\ f.fn = "connectEstablished" =>
                 place'[f.conn] = k /\ state'[f.conn] = "kConnecting"
            /\ f.fn = "connectDestroyed" => place'[f.conn] = k
            /\ f.fn = "removeConnectionInLoop" => k = Base /\ state'[f.conn] = "kDisconnected"
       /\ \A d \in spent'[k] : state'[d] # "none"
    BY <1>1, <1>4 DEF ServerOK, QueueInv
  <2>2. \A k \in Loops :
       /\ Ordered(batch'[k]) /\ Ordered(pending'[k])
       /\ \A d \in Ids : Est(d) \in Range(pending'[k]) => ~Holds(batch'[k], d)
    BY <1>3, EmptyQueue DEF ServerOK, QueueInv
  <2>3. \A d \in Ids : state'[d] = "kConnecting" =>
             \/ Est(d) \in Range(batch'[place'[d]]) \cup Range(pending'[place'[d]])
             \/ phase'[place'[d]] = "ended"
    BY <1>1, <1>3, <1>4, <1>5 DEF ServerOK, QueueInv
  <2>4. QED BY <2>1, <2>2, <2>3 DEF QueueInv
<1>11. HeldInv'
  <2>1. SUFFICES ASSUME NEW d \in Ids
        PROVE  /\ ch'[d].listed \/ state'[d] = "kConnecting" =>
                  \/ d \in conns'
                  \/ Des(d) \in Range(batch'[place'[d]]) \cup Range(pending'[place'[d]])
                  \/ place'[d] # Base /\ phase'[place'[d]] = "ended"
               /\ server' = "running" /\ state'[d] \in {"kConnecting", "kConnected"} => d \in conns'
               /\ state'[d] \in {"kConnecting", "kConnected"} /\ d \notin conns' /\ d \notin late' =>
                  \/ Des(d) \in Range(batch'[place'[d]])
                  \/ /\ Des(d) \in Range(pending'[place'[d]])
                     /\ phase'[place'[d]] \notin {"functors", "ended"}
    BY DEF HeldInv
  <2>2. CASE place[d] = l
    BY <1>1, <1>2, <1>3, <1>4, <1>5, <2>2, EmptyQueue DEF ServerOK, HeldInv
  <2>3. CASE place[d] # l
    BY <1>1, <1>3, <1>4, <1>5, <2>3 DEF ServerOK, HeldInv
  <2>4. QED BY <2>2, <2>3
<1>12. QED BY <1>6, <1>7, <1>8, <1>9, <1>10, <1>11 DEF ServerOK

(* A worker whose loop ends drops what is queued; a worker ends only when  *)
(* the map is empty.                                                       *)
LEMMA EndStep == ASSUME ServerOK, NEW l \in Loops, EndFunctors(l) PROVE ServerOK'
<1>1. /\ batch[l] = <<>> /\ phase[l] = "functors"
      /\ phase' = [phase EXCEPT ![l] = IF quit[l] THEN "ended" ELSE "poll"]
      /\ spent' = [spent EXCEPT ![l] = {}]
      /\ pending' = IF quit[l] /\ l # Base THEN [pending EXCEPT ![l] = <<>>] ELSE pending
      /\ UNCHANGED <<numThreads, started, next, nextConnId, conns, server, joined, late, acc,
                     others, arrived, waiting, quit, active, batch, state, place, fd, ch>>
  BY DEF EndFunctors, Goes, poolVars, mainVars, netVars, connVars
<1>2. /\ phase' \in [Loops -> Phases] /\ spent' \in [Loops -> SUBSET Ids]
      /\ pending' \in [Loops -> Seq(Functor)]
      /\ \A k \in Loops :
           IF k = l
           THEN /\ phase'[k] = (IF quit[k] THEN "ended" ELSE "poll") /\ spent'[k] = {}
                /\ pending'[k] = IF quit[k] /\ k # Base THEN <<>> ELSE pending[k]
           ELSE phase'[k] = phase[k] /\ spent'[k] = spent[k] /\ pending'[k] = pending[k]
  BY <1>1, EmptyQueue DEF ServerOK, TypeInv, Phases
<1>3. \A k \in Loops : /\ Range(pending'[k]) \subseteq Range(pending[k])
                       /\ phase'[k] # "ended" \/ k = Base => pending'[k] = pending[k]
                       /\ Ordered(pending'[k])
  BY <1>2, EmptyQueue DEF ServerOK, QueueInv
<1>4. /\ \A d \in Ids : place[d] \in Loops
      /\ Base \in Loops /\ (server # "running" => l # Base)
      /\ \A k \in 1 .. joined : k \in Loops /\ k # l
  <2>1. /\ \A d \in Ids : place[d] \in Loops
        /\ Base \in Loops /\ (server # "running" => l # Base)
    BY <1>1, WorkersAreLoops, Numbers DEF ServerOK, ServerInv
  <2>2. \A k \in 1 .. joined : k \in Loops
    BY Numbers DEF ServerOK, TypeInv
  <2>3. \A k \in 1 .. joined : k # l
    BY <1>1 DEF ServerOK, ServerInv
  <2>4. QED BY <2>1, <2>2, <2>3
<1>5. TypeInv'
  BY <1>1, <1>2 DEF ServerOK, TypeInv, Workers
<1>6. PhaseInv'
  BY <1>1, <1>2 DEF ServerOK, PhaseInv
<1>7. ServerInv'
  BY <1>1, <1>2, <1>4 DEF ServerOK, ServerInv, Workers
<1>8. StateInv'
  BY <1>1 DEF ServerOK, StateInv
<1>9. QueueInv'
  <2>1. \A k \in Loops :
       /\ \A f \in Range(batch'[k]) \cup Range(pending'[k]) :
            /\ state'[f.conn] # "none"
            /\ f.fn = "connectEstablished" =>
                 place'[f.conn] = k /\ state'[f.conn] = "kConnecting"
            /\ f.fn = "connectDestroyed" => place'[f.conn] = k
            /\ f.fn = "removeConnectionInLoop" => k = Base /\ state'[f.conn] = "kDisconnected"
       /\ \A d \in spent'[k] : state'[d] # "none"
    BY <1>1, <1>2, <1>3 DEF ServerOK, QueueInv
  <2>2. \A k \in Loops :
       /\ Ordered(batch'[k]) /\ Ordered(pending'[k])
       /\ \A d \in Ids : Est(d) \in Range(pending'[k]) => ~Holds(batch'[k], d)
    BY <1>1, <1>3 DEF ServerOK, QueueInv
  <2>3. \A d \in Ids : state'[d] = "kConnecting" =>
             \/ Est(d) \in Range(batch'[place'[d]]) \cup Range(pending'[place'[d]])
             \/ phase'[place'[d]] = "ended"
    BY <1>1, <1>2, <1>3, <1>4 DEF ServerOK, QueueInv
  <2>4. QED BY <2>1, <2>2, <2>3 DEF QueueInv
<1>10. HeldInv'
  <2>1. SUFFICES ASSUME NEW d \in Ids
        PROVE  /\ ch'[d].listed \/ state'[d] = "kConnecting" =>
                  \/ d \in conns'
                  \/ Des(d) \in Range(batch'[place'[d]]) \cup Range(pending'[place'[d]])
                  \/ place'[d] # Base /\ phase'[place'[d]] = "ended"
               /\ server' = "running" /\ state'[d] \in {"kConnecting", "kConnected"} => d \in conns'
               /\ state'[d] \in {"kConnecting", "kConnected"} /\ d \notin conns' /\ d \notin late' =>
                  \/ Des(d) \in Range(batch'[place'[d]])
                  \/ /\ Des(d) \in Range(pending'[place'[d]])
                     /\ phase'[place'[d]] \notin {"functors", "ended"}
    BY DEF HeldInv
  <2>2. CASE place[d] = l
    <3>1. Range(batch[l]) = {}
      BY <1>1, EmptyQueue
    <3>2. phase'[l] = "ended" \/ pending'[l] = pending[l]
      BY <1>3
    <3>3. l = Base => pending'[l] = pending[l]
      BY <1>3
    <3>4. QED BY <1>1, <2>2, <3>1, <3>2, <3>3 DEF ServerOK, HeldInv
  <2>3. CASE place[d] # l
    BY <1>1, <1>2, <1>4, <2>3 DEF ServerOK, HeldInv
  <2>4. QED BY <2>2, <2>3
<1>11. QED BY <1>5, <1>6, <1>7, <1>8, <1>9, <1>10 DEF ServerOK

-----------------------------------------------------------------------------
(* The next functor of a batch.                                            *)

Ran(l, c) ==
  /\ UNCHANGED <<poolVars, acc, nextConnId, server, joined, late, netVars,
                 phase, quit, active, place, fd>>
  /\ phase[l] = "functors" /\ active[l] = {}
  /\ batch' \in [Loops -> Seq(Functor)] /\ spent' \in [Loops -> SUBSET Ids]
  /\ \A k \in Loops :
       /\ Ordered(batch'[k]) /\ Range(batch'[k]) \subseteq Range(batch[k])
       /\ \A f \in Range(batch[k]) : f.conn # c => f \in Range(batch'[k])
       /\ k # l => batch'[k] = batch[k]
       /\ spent'[k] = spent[k] \cup (IF k = l THEN {c} ELSE {})
  /\ \E f \in Range(batch[l]) : f.conn = c
  /\ Est(c) \notin Range(batch'[l])
  /\ state[c] # "none"

LEMMA RunFacts ==
  ASSUME ServerOK, NEW l \in Loops, RunFunctor(l), NEW h, h = Head(batch[l])
  PROVE  /\ Ran(l, h.conn) /\ h \in Functor /\ h.conn \in Ids
         /\ h \in Range(batch[l])
         /\ Range(batch[l]) = {h} \cup Range(batch'[l])
<1>1. /\ phase[l] = "functors" /\ batch[l] # <<>>
      /\ batch' = [batch EXCEPT ![l] = Tail(batch[l])]
      /\ spent' = [spent EXCEPT ![l] = spent[l] \cup {h.conn}]
      /\ UNCHANGED <<poolVars, acc, nextConnId, server, joined, late, netVars,
                     phase, quit, active, place, fd>>
  BY DEF RunFunctor
<1>2. batch[l] \in Seq(Functor) /\ batch \in [Loops -> Seq(Functor)]
      /\ spent \in [Loops -> SUBSET Ids] /\ \A k \in Loops : Ordered(batch[k])
  BY DEF ServerOK, TypeInv, QueueInv
<1>3. /\ h \in Functor /\ h \in Range(batch[l]) /\ Tail(batch[l]) \in Seq(Functor)
      /\ Range(batch[l]) = {h} \cup Range(Tail(batch[l]))
      /\ Ordered(Tail(batch[l]))
      /\ \A c \in Ids : h.conn = c => Est(c) \notin Range(Tail(batch[l]))
  BY <1>1, <1>2, QueueTail
<1>4. h.conn \in Ids
  BY <1>3, FunctorFacts
<1>5. /\ batch' \in [Loops -> Seq(Functor)] /\ spent' \in [Loops -> SUBSET Ids]
      /\ batch'[l] = Tail(batch[l]) /\ spent'[l] = spent[l] \cup {h.conn}
      /\ \A k \in Loops : k # l => batch'[k] = batch[k] /\ spent'[k] = spent[k]
  BY <1>1, <1>2, <1>3, <1>4
<1>6. ASSUME NEW k \in Loops
      PROVE  /\ Ordered(batch'[k]) /\ Range(batch'[k]) \subseteq Range(batch[k])
             /\ \A f \in Range(batch[k]) : f.conn # h.conn => f \in Range(batch'[k])
             /\ spent'[k] = spent[k] \cup (IF k = l THEN {h.conn} ELSE {})
  <2>1. CASE k = l
    BY <1>3, <1>5, <2>1
  <2>2. CASE k # l
    BY <1>2, <1>5, <2>2
  <2>3. QED BY <2>1, <2>2
<1>7. active[l] = {}
  BY <1>1 DEF ServerOK, PhaseInv
<1>8. state[h.conn] # "none"
  BY <1>3 DEF ServerOK, QueueInv
<1>9. QED BY <1>1, <1>3, <1>4, <1>5, <1>6, <1>7, <1>8 DEF Ran

(* What does not depend on the functor. *)
LEMMA RanFrame ==
  ASSUME ServerOK, NEW l \in Loops, NEW c \in Ids, Ran(l, c),
         conns' \subseteq conns,
         state' \in [Ids -> States], ch' \in [Ids -> ChannelValues],
         pending' \in [Loops -> Seq(Functor)]
  PROVE  TypeInv' /\ PhaseInv' /\ ServerInv'
<1>1. TypeInv'
  BY DEF Ran, ServerOK, TypeInv, poolVars, netVars, Workers
<1>2. PhaseInv'
  BY DEF Ran, ServerOK, PhaseInv, poolVars, netVars
<1>3. ServerInv'
  BY DEF Ran, ServerOK, ServerInv, poolVars, netVars, Workers
<1>4. QED BY <1>1, <1>2, <1>3

(* connectEstablished. *)
LEMMA EstablishStep ==
  ASSUME ServerOK, NEW l \in Loops, NEW c \in Ids, Ran(l, c),
         Range(batch[l]) = {Est(c)} \cup Range(batch'[l]), Establish(c), UNCHANGED <<conns, pending>>
  PROVE  ServerOK'
<1>1. /\ place[c] = l /\ state[c] = "kConnecting" /\ ch[c] = NewChannel /\ l # Base
      /\ Est(c) \notin Range(pending[l])
  <2>1. place[c] = l /\ state[c] = "kConnecting"
    BY FunctorFacts DEF ServerOK, QueueInv
  <2>2. ch[c] = NewChannel /\ l # Base
    BY <2>1 DEF ServerOK, StateInv
  <2>3. Est(c) \notin Range(pending[l])
    BY DEF Ran, Holds, ServerOK, QueueInv
  <2>4. QED BY <2>1, <2>2, <2>3
<1>2. /\ state' \in [Ids -> States] /\ ch' \in [Ids -> ChannelValues]
      /\ state'[c] = "kConnected" /\ ch'[c] = UpChannel
      /\ \A d \in Ids : d # c => state'[d] = state[d] /\ ch'[d] = ch[d]
  BY <1>1, ChannelSteps DEF Establish, ServerOK, TypeInv, States, ChannelValues
<1>3. /\ UNCHANGED <<server, late, phase, active, place, nextConnId, conns, pending>>
      /\ \A d \in Ids : place[d] \in Loops
  BY WorkersAreLoops DEF Ran, ServerOK
<1>4. TypeInv' /\ PhaseInv' /\ ServerInv'
  BY <1>2, <1>3, RanFrame DEF ServerOK, TypeInv
<1>5. StateInv'
  <2>1. ASSUME NEW k \in Loops, NEW d \in active'[k] \ {Listener}
        PROVE  place'[d] = k /\ state'[d] = "kConnected"
    <3>1. d \in Ids /\ place[d] = k /\ state[d] = "kConnected"
      BY <1>3, <2>1 DEF ServerOK, StateInv, TypeInv
    <3>2. QED BY <1>1, <1>2, <1>3, <3>1
  <2>2. \A d \in Ids :
          /\ state'[d] = "none" <=> d >= nextConnId'
          /\ state'[d] = "none" => ch'[d] = NewChannel /\ d \notin conns'
          /\ state'[d] = "kConnecting" => ch'[d] = NewChannel /\ place'[d] # Base
          /\ state'[d] = "kConnected" => ch'[d] = UpChannel /\ (place'[d] = Base => d \in conns')
          /\ state'[d] = "kDisconnected" => ch'[d] \in {DownChannel, GoneChannel}
    BY <1>1, <1>2, <1>3 DEF ServerOK, StateInv
  <2>3. QED BY <2>1, <2>2 DEF StateInv
<1>6. QueueInv'
  <2>1. ASSUME NEW k \in Loops, NEW g \in Range(batch'[k]) \cup Range(pending'[k])
        PROVE  /\ state'[g.conn] # "none"
               /\ g.fn = "connectEstablished" => place'[g.conn] = k /\ state'[g.conn] = "kConnecting"
               /\ g.fn = "connectDestroyed" => place'[g.conn] = k
               /\ g.fn = "removeConnectionInLoop" => k = Base /\ state'[g.conn] = "kDisconnected"
    <3>1. g \in Range(batch[k]) \cup Range(pending[k])
      BY <1>3, <2>1 DEF Ran
    <3>2. g \in Functor /\ g.conn \in Ids
      BY <3>1, QueuedFunctors DEF ServerOK
    <3>3. /\ state[g.conn] # "none"
          /\ g.fn = "connectEstablished" => place[g.conn] = k /\ state[g.conn] = "kConnecting"
          /\ g.fn = "connectDestroyed" => place[g.conn] = k
          /\ g.fn = "removeConnectionInLoop" => k = Base /\ state[g.conn] = "kDisconnected"
      BY <3>1 DEF ServerOK, QueueInv
    <3>4. CASE g.conn = c
      <4>1. g.fn # "connectEstablished"
        <5>1. SUFFICES ASSUME g.fn = "connectEstablished" PROVE FALSE
          OBVIOUS
        <5>2. g = Est(c) /\ k = l
          BY <1>1, <3>2, <3>3, <3>4, <5>1, FunctorFacts
        <5>3. QED BY <1>1, <1>3, <2>1, <5>2 DEF Ran
      <4>2. QED BY <1>1, <1>2, <1>3, <3>3, <3>4, <4>1
    <3>5. CASE g.conn # c
      BY <1>2, <1>3, <3>2, <3>3, <3>5
    <3>6. QED BY <3>4, <3>5
  <2>2. \A k \in Loops : \A d \in spent'[k] : state'[d] # "none"
    <3>1. \A k \in Loops : \A d \in spent'[k] : d = c \/ d \in spent[k]
      BY DEF Ran
    <3>2. \A k \in Loops : spent[k] \subseteq Ids
      BY DEF ServerOK, TypeInv
    <3>3. QED BY <1>2, <3>1, <3>2 DEF ServerOK, QueueInv
  <2>3. ASSUME NEW d \in Ids, state'[d] = "kConnecting"
        PROVE  \/ Est(d) \in Range(batch'[place'[d]]) \cup Range(pending'[place'[d]])
               \/ phase'[place'[d]] = "ended"
    <3>1. d # c /\ state[d] = "kConnecting" /\ Est(d).conn # c
      BY <1>2, <2>3, FunctorFacts
    <3>2. QED BY <1>3, <3>1 DEF Ran, ServerOK, QueueInv
  <2>4. \A k \in Loops : /\ Ordered(batch'[k]) /\ Ordered(pending'[k])
                         /\ \A d \in Ids : Est(d) \in Range(pending'[k]) => ~Holds(batch'[k], d)
    BY <1>3 DEF Ran, Holds, ServerOK, QueueInv
  <2>5. QED BY <2>1, <2>2, <2>3, <2>4 DEF QueueInv
<1>7. HeldInv'
  <2>1. ASSUME NEW d \in Ids
        PROVE  /\ Des(d) \in Range(batch[place[d]]) => Des(d) \in Range(batch'[place[d]]) \/ d = c
               /\ Des(d) \in Range(pending[place[d]]) => Des(d) \in Range(pending'[place[d]])
    BY <1>3, FunctorFacts DEF Ran
  <2>2. Des(c) \in Range(batch[l]) => Des(c) \in Range(batch'[l])
    <3>1. Des(c) # Est(c)
      BY FunctorFacts
    <3>2. QED BY <3>1
  <2>3. QED BY <1>1, <1>2, <1>3, <2>1, <2>2, ChannelFacts DEF ServerOK, HeldInv
<1>8. QED BY <1>4, <1>5, <1>6, <1>7 DEF ServerOK

(* What connectDestroyed leaves. *)
Gone(c) ==
  /\ state' \in [Ids -> States] /\ ch' \in [Ids -> ChannelValues]
  /\ state'[c] = "kDisconnected" /\ ch'[c] = GoneChannel
  /\ \A d \in Ids : d # c => state'[d] = state[d] /\ ch'[d] = ch[d]

LEMMA DestroyFacts ==
  ASSUME ServerOK, NEW c \in Ids, state[c] \in {"kConnected", "kDisconnected"}, Destroy(c)
  PROVE  Gone(c)
<1>1. state \in [Ids -> States] /\ ch \in [Ids -> ChannelValues]
  BY DEF ServerOK, TypeInv
<1>2. CASE state[c] = "kConnected"
  <2>1. /\ state' = [state EXCEPT ![c] = "kDisconnected"]
        /\ ch' = [ch EXCEPT ![c] = RemoveChannel(DisableAll(ch[c]))]
    BY <1>2 DEF Destroy
  <2>2. RemoveChannel(DisableAll(ch[c])) = GoneChannel
    BY <1>2, ChannelSteps DEF ServerOK, StateInv
  <2>3. QED BY <1>1, <2>1, <2>2 DEF Gone, States, ChannelValues
<1>3. CASE state[c] = "kDisconnected"
  <2>1. state' = state /\ ch' = [ch EXCEPT ![c] = RemoveChannel(ch[c])]
    BY <1>3 DEF Destroy
  <2>2. RemoveChannel(ch[c]) = GoneChannel
    BY <1>3, ChannelSteps DEF ServerOK, StateInv
  <2>3. QED BY <1>1, <1>3, <2>1, <2>2 DEF Gone, ChannelValues
<1>4. QED BY <1>2, <1>3

(* connectDestroyed: never before connectEstablished. *)
LEMMA DestroyStep ==
  ASSUME ServerOK, NEW l \in Loops, NEW c \in Ids, Ran(l, c),
         Range(batch[l]) = {Des(c)} \cup Range(batch'[l]), Destroy(c),
         UNCHANGED <<conns, pending>>
  PROVE  ServerOK'
<1>1. /\ UNCHANGED <<server, late, phase, active, place, nextConnId, conns, pending>>
      /\ \A d \in Ids : place[d] \in Loops
  BY WorkersAreLoops DEF Ran, ServerOK
<1>2. place[c] = l /\ state[c] # "none"
  BY FunctorFacts DEF ServerOK, QueueInv
<1>3. state[c] # "kConnecting"
  <2>1. SUFFICES ASSUME state[c] = "kConnecting" PROVE FALSE
    OBVIOUS
  <2>2. Est(c) \in Range(batch[l]) \cup Range(pending[l])
    BY <1>2, <2>1 DEF Ran, ServerOK, QueueInv
  <2>3. Est(c) # Des(c)
    BY FunctorFacts
  <2>4. Est(c) \notin Range(pending[l])
    BY DEF Ran, Holds, ServerOK, QueueInv
  <2>5. QED BY <2>2, <2>3, <2>4 DEF Ran
<1>4. Gone(c)
  <2>1. state[c] \in States
    BY DEF ServerOK, TypeInv
  <2>2. QED BY <1>2, <1>3, <2>1, DestroyFacts DEF States
<1>5. TypeInv' /\ PhaseInv' /\ ServerInv'
  BY <1>1, <1>4, RanFrame DEF Gone, ServerOK, TypeInv
<1>6. StateInv'
  <2>1. ASSUME NEW k \in Loops, NEW d \in active'[k] \ {Listener}
        PROVE  place'[d] = k /\ state'[d] = "kConnected"
    <3>1. d \in Ids /\ place[d] = k /\ state[d] = "kConnected"
      BY <1>1, <2>1 DEF ServerOK, StateInv, TypeInv
    <3>2. d # c
      BY <1>1, <1>2, <2>1, <3>1 DEF Ran
    <3>3. QED BY <1>1, <1>4, <3>1, <3>2 DEF Gone
  <2>2. \A d \in Ids :
          /\ state'[d] = "none" <=> d >= nextConnId'
          /\ state'[d] = "none" => ch'[d] = NewChannel /\ d \notin conns'
          /\ state'[d] = "kConnecting" => ch'[d] = NewChannel /\ place'[d] # Base
          /\ state'[d] = "kConnected" => ch'[d] = UpChannel /\ (place'[d] = Base => d \in conns')
          /\ state'[d] = "kDisconnected" => ch'[d] \in {DownChannel, GoneChannel}
    BY <1>1, <1>2, <1>4 DEF Gone, ServerOK, StateInv
  <2>3. QED BY <2>1, <2>2 DEF StateInv
<1>7. QueueInv'
  <2>1. ASSUME NEW k \in Loops, NEW g \in Range(batch'[k]) \cup Range(pending'[k])
        PROVE  /\ state'[g.conn] # "none"
               /\ g.fn = "connectEstablished" => place'[g.conn] = k /\ state'[g.conn] = "kConnecting"
               /\ g.fn = "connectDestroyed" => place'[g.conn] = k
               /\ g.fn = "removeConnectionInLoop" => k = Base /\ state'[g.conn] = "kDisconnected"
    <3>1. g \in Range(batch[k]) \cup Range(pending[k])
      BY <1>1, <2>1 DEF Ran
    <3>2. g.conn \in Ids
      BY <3>1, QueuedFunctors DEF ServerOK
    <3>3. /\ state[g.conn] # "none"
          /\ g.fn = "connectEstablished" => place[g.conn] = k /\ state[g.conn] = "kConnecting"
          /\ g.fn = "connectDestroyed" => place[g.conn] = k
          /\ g.fn = "removeConnectionInLoop" => k = Base /\ state[g.conn] = "kDisconnected"
      BY <3>1 DEF ServerOK, QueueInv
    <3>4. QED BY <1>1, <1>3, <1>4, <3>2, <3>3 DEF Gone
  <2>2. \A k \in Loops : \A d \in spent'[k] : state'[d] # "none"
    <3>1. \A k \in Loops : \A d \in spent'[k] : d = c \/ d \in spent[k]
      BY DEF Ran
    <3>2. \A k \in Loops : spent[k] \subseteq Ids
      BY DEF ServerOK, TypeInv
    <3>3. QED BY <1>4, <3>1, <3>2 DEF Gone, ServerOK, QueueInv
  <2>3. ASSUME NEW d \in Ids, state'[d] = "kConnecting"
        PROVE  \/ Est(d) \in Range(batch'[place'[d]]) \cup Range(pending'[place'[d]])
               \/ phase'[place'[d]] = "ended"
    <3>1. d # c /\ state[d] = "kConnecting" /\ Est(d).conn # c
      BY <1>4, <2>3, FunctorFacts DEF Gone
    <3>2. QED BY <1>1, <3>1 DEF Ran, ServerOK, QueueInv
  <2>4. \A k \in Loops : /\ Ordered(batch'[k]) /\ Ordered(pending'[k])
                         /\ \A d \in Ids : Est(d) \in Range(pending'[k]) => ~Holds(batch'[k], d)
    BY <1>1 DEF Ran, Holds, ServerOK, QueueInv
  <2>5. QED BY <2>1, <2>2, <2>3, <2>4 DEF QueueInv
<1>8. HeldInv'
  <2>1. ASSUME NEW d \in Ids, d # c
        PROVE  /\ Des(d) \in Range(batch[place[d]]) => Des(d) \in Range(batch'[place[d]])
               /\ Des(d) \in Range(pending[place[d]]) => Des(d) \in Range(pending'[place[d]])
    BY <1>1, <2>1, FunctorFacts DEF Ran
  <2>2. QED BY <1>1, <1>4, <2>1, ChannelFacts DEF Gone, ServerOK, HeldInv
<1>9. QED BY <1>5, <1>6, <1>7, <1>8 DEF ServerOK

(* removeConnectionInLoop. *)
LEMMA RemoveStep ==
  ASSUME ServerOK, NEW l \in Loops, NEW c \in Ids, Ran(l, c),
         Range(batch[l]) = {Rem(c)} \cup Range(batch'[l]), RemoveInLoop(c),
         UNCHANGED <<state, ch>>
  PROVE  ServerOK'
<1>1. /\ UNCHANGED <<server, late, phase, active, place, nextConnId>>
      /\ \A d \in Ids : place[d] \in Loops
      /\ conns' = conns \ {c}
  BY WorkersAreLoops DEF Ran, ServerOK, RemoveInLoop
<1>2. state[c] = "kDisconnected"
  BY FunctorFacts DEF ServerOK, QueueInv
<1>3. Des(c) \in Functor /\ Des(c).conn = c /\ Des(c).fn = "connectDestroyed"
  BY FunctorFacts
<1>4. /\ pending' \in [Loops -> Seq(Functor)]
      /\ \A k \in Loops :
              /\ Range(pending'[k]) = Range(pending[k]) \cup (IF k = place[c] THEN {Des(c)} ELSE {})
              /\ Ordered(pending'[k])
  BY <1>1, <1>3, PostFacts DEF ServerOK, RemoveInLoop, Des
<1>5. TypeInv' /\ PhaseInv' /\ ServerInv'
  BY <1>1, <1>4, RanFrame DEF ServerOK, TypeInv
<1>6. StateInv'
  BY <1>1, <1>2 DEF ServerOK, StateInv
<1>7. QueueInv'
  <2>1. ASSUME NEW k \in Loops, NEW g \in Range(batch'[k]) \cup Range(pending'[k])
        PROVE  /\ state'[g.conn] # "none"
               /\ g.fn = "connectEstablished" => place'[g.conn] = k /\ state'[g.conn] = "kConnecting"
               /\ g.fn = "connectDestroyed" => place'[g.conn] = k
               /\ g.fn = "removeConnectionInLoop" => k = Base /\ state'[g.conn] = "kDisconnected"
    <3>1. CASE g \in Range(batch[k]) \cup Range(pending[k])
      BY <1>1, <3>1 DEF ServerOK, QueueInv
    <3>2. CASE g = Des(c) /\ k = place[c]
      BY <1>1, <1>2, <1>3, <3>2
    <3>3. QED BY <1>4, <2>1, <3>1, <3>2 DEF Ran
  <2>2. \A k \in Loops : \A d \in spent'[k] : state'[d] # "none"
    <3>1. \A k \in Loops : \A d \in spent'[k] : d = c \/ d \in spent[k]
      BY DEF Ran
    <3>2. QED BY <1>2, <3>1 DEF ServerOK, QueueInv
  <2>3. ASSUME NEW d \in Ids, state'[d] = "kConnecting"
        PROVE  \/ Est(d) \in Range(batch'[place'[d]]) \cup Range(pending'[place'[d]])
               \/ phase'[place'[d]] = "ended"
    <3>1. d # c /\ state[d] = "kConnecting" /\ Est(d).conn # c
      BY <1>2, <2>3, FunctorFacts
    <3>2. Range(pending[place[d]]) \subseteq Range(pending'[place[d]])
      BY <1>1, <1>4
    <3>3. QED BY <1>1, <3>1, <3>2 DEF Ran, ServerOK, QueueInv
  <2>4. \A k \in Loops : /\ Ordered(batch'[k]) /\ Ordered(pending'[k])
                         /\ \A d \in Ids : Est(d) \in Range(pending'[k]) => ~Holds(batch'[k], d)
    <3>1. \A k \in Loops, d \in Ids : Est(d) \in Range(pending'[k]) => Est(d) \in Range(pending[k])
      BY <1>3, <1>4, FunctorFacts
    <3>2. QED BY <1>4, <3>1 DEF Ran, Holds, ServerOK, QueueInv
  <2>5. QED BY <2>1, <2>2, <2>3, <2>4 DEF QueueInv
<1>8. HeldInv'
  <2>1. ASSUME NEW d \in Ids, d # c
        PROVE  /\ Des(d) \in Range(batch[place[d]]) => Des(d) \in Range(batch'[place[d]])
               /\ Des(d) \in Range(pending[place[d]]) => Des(d) \in Range(pending'[place[d]])
    BY <1>1, <1>4, <2>1, FunctorFacts DEF Ran
  <2>2. Des(c) \in Range(pending'[place[c]])
    BY <1>1, <1>4
  <2>3. QED BY <1>1, <1>2, <2>1, <2>2 DEF ServerOK, HeldInv
<1>9. QED BY <1>5, <1>6, <1>7, <1>8 DEF ServerOK

LEMMA RunStep == ASSUME ServerOK, NEW l \in Loops, RunFunctor(l) PROVE ServerOK'
<1> DEFINE h == Head(batch[l])
           c == h.conn
<1>1. /\ Ran(l, c) /\ h \in Functor /\ c \in Ids
      /\ Range(batch[l]) = {h} \cup Range(batch'[l])
  BY RunFacts
<1>2. CASE h.fn = "connectEstablished"
  <2>1. h = Est(c)
    BY <1>1, <1>2, FunctorFacts
  <2>2. Establish(c) /\ UNCHANGED <<conns, pending>>
    BY <1>2 DEF RunFunctor
  <2>3. QED BY <1>1, <2>1, <2>2, EstablishStep
<1>3. CASE h.fn = "connectDestroyed"
  <2>1. h = Des(c)
    BY <1>1, <1>3, FunctorFacts
  <2>2. Destroy(c) /\ UNCHANGED <<conns, pending>>
    BY <1>3 DEF RunFunctor
  <2>3. QED BY <1>1, <2>1, <2>2, DestroyStep
<1>4. CASE h.fn \notin {"connectEstablished", "connectDestroyed"}
  <2>1. h = Rem(c)
    BY <1>1, <1>4, FunctorFacts
  <2>2. RemoveInLoop(c) /\ UNCHANGED <<state, ch>>
    BY <1>4 DEF RunFunctor
  <2>3. QED BY <1>1, <2>1, <2>2, RemoveStep
<1>5. QED BY <1>2, <1>3, <1>4

-----------------------------------------------------------------------------
(* Events.                                                                 *)

LEMMA EventStep ==
  ASSUME ServerOK, NEW l \in Loops, NEW c \in Ids, HandleEvent(l, c)
  PROVE  ServerOK'
<1>1. /\ Handles(l, c)
      /\ UNCHANGED <<poolVars, acc, nextConnId, server, joined, late, netVars,
                     phase, quit, batch, spent, place, fd>>
  BY DEF HandleEvent
<1>2. CASE UNCHANGED <<state, ch, conns, pending>>
  <2>1. c # Listener
    BY Numbers
  <2>2. ConnsStay /\ others' \subseteq Fds
    BY <1>1, <1>2 DEF ConnsStay, netVars, ServerOK, TypeInv
  <2>3. UNCHANGED <<numThreads, started, next, server, joined, acc, fd, arrived, waiting,
                    phase, quit>>
    BY <1>1 DEF poolVars, netVars
  <2>4. QED BY <1>1, <2>1, <2>2, <2>3, HandledStep
<1>3. CASE HandleClose(l, c)
  BY <1>1, <1>3, CloseStep
<1>4. QED BY <1>2, <1>3 DEF HandleEvent

LEMMA AcceptFailsStep == ASSUME ServerOK, AcceptFails PROVE ServerOK'
<1>1. /\ Handles(Base, Listener) /\ ConnsStay /\ others' \subseteq Fds
      /\ UNCHANGED <<numThreads, started, next, server, joined, acc, fd, arrived, waiting,
                     phase, quit>>
  BY DEF AcceptFails, ConnsStay, poolVars, mainVars, netVars, connVars, ServerOK, TypeInv
<1>2. Base \in Loops
  BY Numbers
<1>3. QED BY <1>1, <1>2, HandledStep

(* The pool hands out a loop that has not ended. *)
LEMMA NextLoopFacts ==
  ASSUME ServerOK, server = "running", phase[Base] # "ended"
  PROVE  /\ NextLoop \in Workers \cup {Base} /\ NextLoop \in Loops
         /\ phase[NextLoop] # "ended"
         /\ \A n : n = (IF Workers = {} THEN next ELSE NextOf(next)) =>
                     n \in Nat /\ (n = 0 \/ n < numThreads)
<1>1. /\ numThreads \in Nat /\ next \in Nat /\ (next = 0 \/ next < numThreads)
  BY ThreadAssumption DEF ServerOK, TypeInv
<1>2. NextLoop \in Workers \cup {Base}
  <2>1. CASE Workers = {}
    BY <2>1 DEF NextLoop
  <2>2. CASE Workers # {}
    <3>1. Workers = 1 .. numThreads /\ NextLoop = next + 1
      BY <2>2 DEF Workers, NextLoop
    <3>2. next + 1 \in 1 .. numThreads
      BY <1>1, <2>2, <3>1
    <3>3. QED BY <3>1, <3>2
  <2>3. QED BY <2>1, <2>2
<1>3. NextLoop \in Loops /\ (NextLoop # Base => NextLoop \in Workers)
  BY <1>2, WorkersAreLoops, Numbers DEF ServerOK
<1>4. phase[NextLoop] # "ended"
  BY <1>3 DEF ServerOK, PhaseInv
<1>5. \A n : n = (IF Workers = {} THEN next ELSE NextOf(next)) =>
               n \in Nat /\ (n = 0 \/ n < numThreads)
  BY <1>1 DEF NextOf
<1>6. QED BY <1>2, <1>3, <1>4, <1>5

(* A connection is made: it has the next number, which nothing names yet,  *)
(* and a connectEstablished waits for it on its loop, or has run.          *)
LEMMA NewStep ==
  ASSUME ServerOK, Handles(Base, Listener), waiting' = waiting - 1,
         NEW d \in Fds, NEW c, c = nextConnId, NEW l, l = NextLoop,
         NewConnection(c, l, d),
         next' = IF Workers = {} THEN next ELSE NextOf(next),
         UNCHANGED <<numThreads, started, acc, server, joined, late, arrived, others,
                     phase, quit, batch, spent>>
  PROVE  ServerOK'
<1>1. /\ phase[Base] = "events" /\ Listener \in active[Base]
      /\ active' = [active EXCEPT ![Base] = active[Base] \ {Listener}]
      /\ Base \in Loops
  BY Numbers DEF Handles
<1>2. server = "running" /\ waiting > 0
  BY <1>1 DEF ServerOK, ServerInv, PhaseInv
<1>3. /\ l \in Workers \cup {Base} /\ l \in Loops /\ phase[l] # "ended"
      /\ next' \in Nat /\ (next' = 0 \/ next' < numThreads)
  BY <1>1, <1>2, NextLoopFacts
<1>4. /\ c \in Ids /\ nextConnId' \in 1 .. MaxConns + 1 /\ waiting' \in 0 .. arrived
      /\ nextConnId' + waiting' <= arrived + 1
      /\ \A b \in Ids : b >= nextConnId' <=> b >= nextConnId /\ b # c
  <2>1. /\ nextConnId \in 1 .. MaxConns + 1 /\ arrived \in 0 .. MaxConns
        /\ waiting \in 0 .. arrived /\ nextConnId + waiting <= arrived + 1 /\ MaxConns \in Nat
    BY ConnAssumption DEF ServerOK, TypeInv
  <2>2. nextConnId' = nextConnId + 1
    BY DEF NewConnection
  <2>3. QED BY <1>2, <2>1, <2>2 DEF Ids
<1>5. /\ state[c] = "none" /\ ch[c] = NewChannel /\ c \notin conns
      /\ \A b \in Ids : place[b] \in Loops
  BY <1>4, WorkersAreLoops DEF ServerOK, StateInv, TypeInv, Ids
<1>6. \A k \in Loops : /\ \A g \in Range(batch[k]) \cup Range(pending[k]) : g.conn # c
                       /\ c \notin spent[k]
  BY <1>5 DEF ServerOK, QueueInv
<1>7. /\ conns' = conns \cup {c}
      /\ place' = [place EXCEPT ![c] = l]
      /\ fd' = [fd EXCEPT ![c] = d]
  BY DEF NewConnection
<1>8. /\ state' \in [Ids -> States] /\ ch' \in [Ids -> ChannelValues]
      /\ IF l = Base THEN state'[c] = "kConnected" /\ ch'[c] = UpChannel
                     ELSE state'[c] = "kConnecting" /\ ch'[c] = NewChannel
      /\ \A b \in Ids : b # c => state'[b] = state[b] /\ ch'[b] = ch[b]
  <2>1. state \in [Ids -> States] /\ ch \in [Ids -> ChannelValues]
    BY DEF ServerOK, TypeInv
  <2>2. CASE l = Base
    BY <1>4, <1>5, <2>1, <2>2, ChannelSteps DEF NewConnection, Establish, States, ChannelValues
  <2>3. CASE l # Base
    BY <1>4, <1>5, <2>1, <2>3 DEF NewConnection, States
  <2>4. QED BY <2>2, <2>3
<1>9. /\ pending' \in [Loops -> Seq(Functor)]
      /\ \A k \in Loops :
           /\ Range(pending'[k]) =
                Range(pending[k]) \cup (IF k = l /\ l # Base THEN {Est(c)} ELSE {})
           /\ Ordered(pending'[k])
  <2>1. CASE l = Base
    BY <2>1 DEF NewConnection, ServerOK, TypeInv, QueueInv
  <2>2. CASE l # Base
    <3>1. Post(l, Est(c))
      BY <2>2 DEF NewConnection, Est
    <3>2. Est(c) \in Functor /\ ~Holds(pending[l], Est(c).conn)
      BY <1>3, <1>4, <1>6, FunctorFacts DEF Holds
    <3>3. TypeInv /\ QueueInv
      BY DEF ServerOK
    <3>4. /\ pending' \in [Loops -> Seq(Functor)]
          /\ \A k \in Loops :
               /\ Range(pending'[k]) = Range(pending[k]) \cup (IF k = l THEN {Est(c)} ELSE {})
               /\ Ordered(pending'[k])
      BY <1>3, <3>1, <3>2, <3>3, PostFacts
    <3>5. QED BY <2>2, <3>4
  <2>3. QED BY <2>1, <2>2
<1>10. /\ place' \in [Ids -> Workers \cup {Base}] /\ fd' \in [Ids -> Fds \cup {0}]
       /\ place'[c] = l /\ \A b \in Ids : b # c => place'[b] = place[b]
  BY <1>3, <1>4, <1>7 DEF ServerOK, TypeInv
<1>11. /\ active' \in [Loops -> SUBSET (Ids \cup {Listener})]
       /\ \A k \in Loops : /\ active'[k] \subseteq active[k] /\ Listener \notin active'[k]
                           /\ active[k] = {} => active'[k] = {}
  BY <1>1 DEF ServerOK, TypeInv, PhaseInv
<1>12. TypeInv'
  <2>1. conns' \subseteq Ids
    BY <1>4, <1>7 DEF ServerOK, TypeInv
  <2>2. Workers' = Workers
    BY DEF Workers
  <2>3. QED BY <1>3, <1>4, <1>8, <1>9, <1>10, <1>11, <2>1, <2>2 DEF ServerOK, TypeInv
<1>13. PhaseInv'
  BY <1>2, <1>11 DEF ServerOK, PhaseInv
<1>14. ServerInv'
  BY <1>2 DEF ServerOK, ServerInv, Workers
<1>15. StateInv'
  <2>1. ASSUME NEW k \in Loops, NEW b \in active'[k] \ {Listener}
        PROVE  place'[b] = k /\ state'[b] = "kConnected"
    <3>1. b \in Ids /\ place[b] = k /\ state[b] = "kConnected"
      BY <1>11, <2>1 DEF ServerOK, StateInv, TypeInv
    <3>2. b # c
      BY <1>5, <3>1
    <3>3. QED BY <1>8, <1>10, <3>1, <3>2
  <2>2. ASSUME NEW b \in Ids
        PROVE  /\ state'[b] = "none" <=> b >= nextConnId'
               /\ state'[b] = "none" => ch'[b] = NewChannel /\ b \notin conns'
               /\ state'[b] = "kConnecting" => ch'[b] = NewChannel /\ place'[b] # Base
               /\ state'[b] = "kConnected" => ch'[b] = UpChannel /\ (place'[b] = Base => b \in conns')
               /\ state'[b] = "kDisconnected" => ch'[b] \in {DownChannel, GoneChannel}
    <3>1. CASE b = c
      BY <1>4, <1>7, <1>8, <1>10, <3>1
    <3>2. CASE b # c
      BY <1>4, <1>7, <1>8, <1>10, <3>2 DEF ServerOK, StateInv
    <3>3. QED BY <3>1, <3>2
  <2>3. QED BY <2>1, <2>2 DEF StateInv
<1>16. QueueInv'
  <2>1. ASSUME NEW k \in Loops, NEW g \in Range(batch'[k]) \cup Range(pending'[k])
        PROVE  /\ state'[g.conn] # "none"
               /\ g.fn = "connectEstablished" => place'[g.conn] = k /\ state'[g.conn] = "kConnecting"
               /\ g.fn = "connectDestroyed" => place'[g.conn] = k
               /\ g.fn = "removeConnectionInLoop" => k = Base /\ state'[g.conn] = "kDisconnected"
    <3>1. CASE g \in Range(batch[k]) \cup Range(pending[k])
      <4>1. g.conn \in Ids /\ g.conn # c
        BY <1>6, <3>1, QueuedFunctors DEF ServerOK
      <4>2. QED BY <1>8, <1>10, <3>1, <4>1 DEF ServerOK, QueueInv
    <3>2. CASE g = Est(c) /\ k = l /\ l # Base
      BY <1>4, <1>8, <1>10, <3>2, FunctorFacts
    <3>3. QED BY <1>9, <2>1, <3>1, <3>2
  <2>2. \A k \in Loops : \A b \in spent'[k] : state'[b] # "none"
    BY <1>6, <1>8 DEF ServerOK, QueueInv, TypeInv
  <2>3. ASSUME NEW b \in Ids, state'[b] = "kConnecting"
        PROVE  \/ Est(b) \in Range(batch'[place'[b]]) \cup Range(pending'[place'[b]])
               \/ phase'[place'[b]] = "ended"
    <3>1. CASE b = c
      BY <1>3, <1>8, <1>9, <1>10, <2>3, <3>1
    <3>2. CASE b # c
      BY <1>5, <1>8, <1>9, <1>10, <2>3, <3>2 DEF ServerOK, QueueInv
    <3>3. QED BY <3>1, <3>2
  <2>4. ASSUME NEW k \in Loops, NEW b \in Ids, Est(b) \in Range(pending'[k])
        PROVE  ~Holds(batch'[k], b)
    <3>1. CASE b = c
      BY <1>6, <3>1 DEF Holds
    <3>2. CASE b # c
      <4>1. Est(b) # Est(c)
        BY <1>4, <3>2, FunctorFacts
      <4>2. Est(b) \in Range(pending[k])
        BY <1>9, <2>4, <4>1
      <4>3. QED BY <4>2 DEF ServerOK, QueueInv
    <3>3. QED BY <3>1, <3>2
  <2>5. \A k \in Loops : Ordered(batch'[k]) /\ Ordered(pending'[k])
    BY <1>9 DEF ServerOK, QueueInv
  <2>6. QED BY <2>1, <2>2, <2>3, <2>4, <2>5 DEF QueueInv
<1>17. HeldInv'
  <2>1. \A b \in Ids : Range(pending[place[b]]) \subseteq Range(pending'[place[b]])
    BY <1>5, <1>9
  <2>2. QED BY <1>7, <1>8, <1>10, <2>1 DEF ServerOK, HeldInv
<1>18. QED BY <1>12, <1>13, <1>14, <1>15, <1>16, <1>17 DEF ServerOK

LEMMA AcceptStep == ASSUME ServerOK, Accept PROVE ServerOK'
<1>1. /\ Handles(Base, Listener) /\ waiting' = waiting - 1
      /\ UNCHANGED <<numThreads, started, acc, server, joined, late, arrived,
                     phase, quit, batch, spent>>
  BY DEF Accept
<1>2. PICK d \in Free :
        IF d > 0
        THEN /\ NewConnection(nextConnId, NextLoop, d)
             /\ next' = IF Workers = {} THEN next ELSE NextOf(next)
             /\ UNCHANGED others
        ELSE /\ others' = others \cup {d}
             /\ UNCHANGED <<nextConnId, conns, next, connVars, pending>>
  BY DEF Accept
<1>3. d \in Fds
  BY DEF Free
<1>4. CASE d > 0
  BY <1>1, <1>2, <1>3, <1>4, NewStep
<1>5. CASE ~(d > 0)
  <2>1. /\ ConnsStay /\ others' \subseteq Fds /\ Base \in Loops
        /\ UNCHANGED <<next, fd>>
    BY <1>1, <1>2, <1>3, <1>5, Numbers DEF ConnsStay, connVars, ServerOK, TypeInv
  <2>2. QED BY <1>1, <2>1, HandledStep
<1>6. QED BY <1>4, <1>5

-----------------------------------------------------------------------------
(* The destructor drops a connection: it destroys one of the base loop     *)
(* itself, and queues connectDestroyed on a worker's loop, which has not   *)
(* ended yet.                                                              *)
LEMMA DropStep == ASSUME ServerOK, NEW c \in Ids, DropConnection(c) PROVE ServerOK'
<1> DEFINE l == place[c]
<1>1. /\ server = "closing" /\ c \in conns /\ conns' = conns \ {c}
      /\ UNCHANGED <<numThreads, started, next, nextConnId, server, joined, acc, others,
                     arrived, waiting, phase, quit, active, batch, spent, place, fd>>
  BY DEF DropConnection, poolVars, netVars
<1>2. /\ state[c] # "none" /\ phase[Base] # "events" /\ Base \in Loops
      /\ \A d \in Ids : place[d] \in Loops
      /\ \A k \in Loops : k # Base => phase[k] # "ended"
  BY <1>1, WorkersAreLoops, Numbers DEF ServerOK, ServerInv, PhaseInv, StateInv
<1>3. CASE l = Base
  <2>1. Destroy(c) /\ UNCHANGED <<pending, late>>
    BY <1>3 DEF DropConnection
  <2>2. state[c] # "kConnecting" /\ state[c] \in States
    BY <1>3 DEF ServerOK, StateInv, TypeInv
  <2>3. Gone(c)
    BY <1>2, <2>1, <2>2, DestroyFacts DEF States
  <2>4. TypeInv' /\ PhaseInv' /\ ServerInv'
    BY <1>1, <2>1, <2>3 DEF Gone, ServerOK, TypeInv, PhaseInv, ServerInv, Workers
  <2>5. StateInv'
    <3>1. ASSUME NEW k \in Loops, NEW d \in active'[k] \ {Listener}
          PROVE  place'[d] = k /\ state'[d] = "kConnected"
      <4>1. d \in Ids /\ place[d] = k /\ state[d] = "kConnected"
        BY <1>1, <3>1 DEF ServerOK, StateInv, TypeInv
      <4>2. active[Base] = {}
        BY <1>2 DEF ServerOK, PhaseInv
      <4>3. d # c
        BY <1>1, <1>3, <3>1, <4>1, <4>2
      <4>4. QED BY <1>1, <2>3, <4>1, <4>3 DEF Gone
    <3>2. \A d \in Ids :
            /\ state'[d] = "none" <=> d >= nextConnId'
            /\ state'[d] = "none" => ch'[d] = NewChannel /\ d \notin conns'
            /\ state'[d] = "kConnecting" => ch'[d] = NewChannel /\ place'[d] # Base
            /\ state'[d] = "kConnected" => ch'[d] = UpChannel /\ (place'[d] = Base => d \in conns')
            /\ state'[d] = "kDisconnected" => ch'[d] \in {DownChannel, GoneChannel}
      BY <1>1, <1>2, <2>3 DEF Gone, ServerOK, StateInv
    <3>3. QED BY <3>1, <3>2 DEF StateInv
  <2>6. QueueInv'
    <3>1. ASSUME NEW k \in Loops, NEW g \in Range(batch'[k]) \cup Range(pending'[k])
          PROVE  /\ state'[g.conn] # "none"
                 /\ g.fn = "connectEstablished" => place'[g.conn] = k /\ state'[g.conn] = "kConnecting"
                 /\ g.fn = "connectDestroyed" => place'[g.conn] = k
                 /\ g.fn = "removeConnectionInLoop" => k = Base /\ state'[g.conn] = "kDisconnected"
      <4>1. g \in Range(batch[k]) \cup Range(pending[k])
        BY <1>1, <2>1, <3>1
      <4>2. g.conn \in Ids
        BY <4>1, QueuedFunctors DEF ServerOK
      <4>3. QED BY <1>1, <2>2, <2>3, <4>1, <4>2 DEF Gone, ServerOK, QueueInv
    <3>2. \A k \in Loops : \A d \in spent'[k] : state'[d] # "none"
      <4>1. \A k \in Loops : spent[k] \subseteq Ids
        BY DEF ServerOK, TypeInv
      <4>2. QED BY <1>1, <2>3, <4>1 DEF Gone, ServerOK, QueueInv
    <3>3. QED BY <1>1, <2>1, <2>3, <3>1, <3>2 DEF Gone, ServerOK, QueueInv
  <2>7. HeldInv'
    BY <1>1, <2>1, <2>3, ChannelFacts DEF Gone, ServerOK, HeldInv
  <2>8. QED BY <2>4, <2>5, <2>6, <2>7 DEF ServerOK
<1>4. CASE l # Base
  <2>1. /\ Post(l, Des(c)) /\ UNCHANGED <<state, ch>>
        /\ late' = IF phase[l] = "functors" THEN late \cup {c} ELSE late
    BY <1>4 DEF DropConnection, Des
  <2>2. Des(c) \in Functor /\ Des(c).conn = c /\ Des(c).fn = "connectDestroyed"
    BY FunctorFacts
  <2>3. /\ pending' \in [Loops -> Seq(Functor)]
        /\ \A k \in Loops :
             /\ Range(pending'[k]) = Range(pending[k]) \cup (IF k = l THEN {Des(c)} ELSE {})
             /\ Ordered(pending'[k])
    BY <1>2, <2>1, <2>2, PostFacts DEF ServerOK
  <2>4. TypeInv' /\ PhaseInv' /\ ServerInv'
    BY <1>1, <2>1, <2>3 DEF ServerOK, TypeInv, PhaseInv, ServerInv, Workers
  <2>5. StateInv'
    BY <1>1, <1>4, <2>1 DEF ServerOK, StateInv
  <2>6. QueueInv'
    <3>1. ASSUME NEW k \in Loops, NEW g \in Range(batch'[k]) \cup Range(pending'[k])
          PROVE  /\ state'[g.conn] # "none"
                 /\ g.fn = "connectEstablished" => place'[g.conn] = k /\ state'[g.conn] = "kConnecting"
                 /\ g.fn = "connectDestroyed" => place'[g.conn] = k
                 /\ g.fn = "removeConnectionInLoop" => k = Base /\ state'[g.conn] = "kDisconnected"
      <4>1. CASE g \in Range(batch[k]) \cup Range(pending[k])
        BY <1>1, <2>1, <4>1 DEF ServerOK, QueueInv
      <4>2. CASE g = Des(c) /\ k = l
        BY <1>1, <1>2, <2>1, <2>2, <4>2
      <4>3. QED BY <1>1, <2>3, <3>1, <4>1, <4>2
    <3>2. \A k \in Loops, d \in Ids : Est(d) \in Range(pending'[k]) => Est(d) \in Range(pending[k])
      BY <2>2, <2>3, FunctorFacts
    <3>3. \A d \in Ids : Range(pending[place[d]]) \subseteq Range(pending'[place[d]])
      BY <1>2, <2>3
    <3>4. \A d \in Ids : state'[d] = "kConnecting" =>
             \/ Est(d) \in Range(batch'[place'[d]]) \cup Range(pending'[place'[d]])
             \/ phase'[place'[d]] = "ended"
      BY <1>1, <2>1, <3>3 DEF ServerOK, QueueInv
    <3>5. \A k \in Loops : /\ Ordered(batch'[k]) /\ Ordered(pending'[k])
                           /\ \A d \in Ids : Est(d) \in Range(pending'[k]) => ~Holds(batch'[k], d)
      BY <1>1, <2>3, <3>2 DEF ServerOK, QueueInv
    <3>6. \A k \in Loops : \A d \in spent'[k] : state'[d] # "none"
      BY <1>1, <2>1 DEF ServerOK, QueueInv
    <3>7. QED BY <3>1, <3>4, <3>5, <3>6 DEF QueueInv
  <2>7. HeldInv'
    <3>1. \A d \in Ids : Range(pending[place[d]]) \subseteq Range(pending'[place[d]])
      BY <1>2, <2>3
    <3>2. Des(c) \in Range(pending'[l])
      BY <1>2, <2>3
    <3>3. late \subseteq late' /\ (phase[l] = "functors" => c \in late')
      BY <2>1
    <3>4. phase[l] # "ended"
      BY <1>2, <1>4
    <3>5. \A d \in Ids : d # c => (d \in conns' <=> d \in conns)
      BY <1>1
    <3>6. QED BY <1>1, <2>1, <3>1, <3>2, <3>3, <3>4, <3>5 DEF ServerOK, HeldInv
  <2>8. QED BY <2>4, <2>5, <2>6, <2>7 DEF ServerOK
<1>5. QED BY <1>3, <1>4

-----------------------------------------------------------------------------
(* The invariant holds.                                                    *)

LEMMA StutterStep == ASSUME ServerOK, UNCHANGED vars PROVE ServerOK'
<1>1. /\ ConnsStay
      /\ UNCHANGED <<numThreads, started, next, server, joined, acc, fd, others, arrived,
                     waiting, phase, quit, active>>
  BY DEF vars, ConnsStay, poolVars, mainVars, netVars, loopVars, connVars
<1>2. TypeInv' /\ PhaseInv' /\ ServerInv'
  BY <1>1 DEF ServerOK, TypeInv, PhaseInv, ServerInv, ConnsStay, Workers
<1>3. StateInv' /\ QueueInv' /\ HeldInv'
  <2>1. \A l \in Loops : \A c \in active'[l] \ {Listener} : place[c] = l /\ state[c] = "kConnected"
    BY <1>1 DEF ServerOK, StateInv
  <2>2. QED BY <1>1, <2>1, FrameStep
<1>4. QED BY <1>2, <1>3 DEF ServerOK

LEMMA NextStep == ASSUME ServerOK, [Next]_vars PROVE ServerOK'
<1>1. CASE Start
  BY <1>1, StartStep
<1>2. CASE QuitBase \/ PeerConnects
  BY <1>2, OutsideStep
<1>3. ASSUME NEW l \in Loops, BeginLoop(l) PROVE ServerOK'
  BY <1>3, OutsideStep
<1>4. ASSUME NEW l \in Loops, Poll(l) PROVE ServerOK'
  BY <1>4, PollStep
<1>5. ASSUME NEW l \in Loops, LoopStep(l) PROVE ServerOK'
  <2>1. ASSUME NEW c \in Ids, HandleEvent(l, c) PROVE ServerOK'
    BY <2>1, EventStep
  <2>2. CASE Accept
    BY <2>2, AcceptStep
  <2>3. CASE AcceptFails
    BY <2>3, AcceptFailsStep
  <2>4. CASE SwapPending(l)
    BY <2>4, SwapStep
  <2>5. CASE RunFunctor(l)
    BY <2>5, RunStep
  <2>6. CASE EndFunctors(l)
    BY <2>6, EndStep
  <2>7. QED BY <1>5, <2>1, <2>2, <2>3, <2>4, <2>5, <2>6 DEF LoopStep
<1>6. CASE BeginDestructor
  BY <1>6, DestructorStep
<1>7. CASE Destructor
  <2>1. ASSUME NEW c \in Ids, DropConnection(c) PROVE ServerOK'
    BY <2>1, DropStep
  <2>2. CASE QuitWorker \/ JoinWorker \/ EndDestructor
    BY <2>2, DestructorStep
  <2>3. QED BY <1>7, <2>1, <2>2 DEF Destructor
<1>8. CASE UNCHANGED vars
  BY <1>8, StutterStep
<1>9. QED BY <1>1, <1>2, <1>3, <1>4, <1>5, <1>6, <1>7, <1>8 DEF Next

(* What ServerOK says is so at all times. *)
THEOREM ServerInvariant == Spec => []ServerOK
<1>1. QED BY InitOK, NextStep, PTL DEF Spec

(* Every variable of a server has its type, for any numbers of threads,    *)
(* connections and descriptors; the connection numbers do not run past the *)
(* peers that have connected.                                              *)
THEOREM TypeCorrect == Spec => []TypeOK
<1>1. ServerOK => TypeOK
  BY TypeInvOK DEF ServerOK
<1>2. QED BY <1>1, ServerInvariant, PTL

(* Who holds a connection whose channel is in a list of pollers. *)
LEMMA ListedIsHeld ==
  ASSUME ServerOK, NEW c \in Ids, ch[c].listed \/ state[c] = "kConnecting"
  PROVE  Alive(c) \/ (place[c] # Base /\ phase[place[c]] = "ended")
<1>1. place[c] \in Loops /\ Des(c).conn = c
  BY WorkersAreLoops, FunctorFacts DEF ServerOK
<1>2. \/ c \in conns
      \/ Des(c) \in Range(batch[place[c]]) \cup Range(pending[place[c]])
      \/ place[c] # Base /\ phase[place[c]] = "ended"
  BY DEF ServerOK, HeldInv
<1>3. QED BY <1>1, <1>2 DEF Alive

(* While a loop goes through activeChannels_, every connection in it is    *)
(* held by somebody: the map gives up its reference only to a functor of   *)
(* the connection's own loop, and that loop runs it after the events.      *)
THEOREM ActiveAreLive == Spec => []ActiveIsLive
<1>1. ASSUME ServerOK, NEW l \in Loops, NEW c \in active[l] \ {Listener}
      PROVE  Alive(c)
  <2>1. c \in Ids /\ place[c] = l /\ state[c] = "kConnected" /\ phase[l] = "events"
    BY <1>1 DEF ServerOK, StateInv, TypeInv, PhaseInv
  <2>2. ch[c].listed
    BY <1>1, <2>1, ChannelFacts DEF ServerOK, StateInv
  <2>3. QED BY <1>1, <2>1, <2>2, ListedIsHeld
<1>2. ServerOK => ActiveIsLive
  BY <1>1 DEF ActiveIsLive
<1>3. QED BY <1>2, ServerInvariant, PTL

(* A poller never keeps the channel of a connection nobody holds, unless   *)
(* its loop is gone; and the acceptor's is out of the base poller when     *)
(* ~TcpServer returns, also of a server that was never started.            *)
THEOREM NoChannelDangles == Spec => []NoDanglingChannel
<1>1. ASSUME ServerOK, NEW c \in Ids, ch[c].inEpoll \/ ch[c].listed
      PROVE  Alive(c) \/ phase[place[c]] = "ended"
  <2>1. ch[c] \in ChannelValues
    BY <1>1 DEF ServerOK, TypeInv
  <2>2. ch[c].listed
    BY <1>1, <2>1, ChannelFacts DEF ChannelValues
  <2>3. QED BY <1>1, <2>2, ListedIsHeld
<1>2. ASSUME ServerOK, server = "destroyed" PROVE ~acc.inEpoll /\ ~acc.listed
  BY <1>2, ChannelFacts DEF ServerOK, ServerInv
<1>3. ServerOK => NoDanglingChannel
  BY <1>1, <1>2 DEF NoDanglingChannel
<1>4. QED BY <1>3, ServerInvariant, PTL

(* When ~TcpServer has returned, every connection that was up has been     *)
(* reported down, save those whose connectDestroyed was queued when their  *)
(* loop was past its swap: every worker was joined, and one that ends has  *)
(* run all that was in its batch.                                          *)
THEOREM AllReportedAtEnd == Spec => []ReportedAtEnd
<1>1. ASSUME ServerOK, server = "destroyed", NEW c \in Ids, state[c] = "kConnected",
             c \notin late
      PROVE  FALSE
  <2>1. conns = {} /\ joined + 1 \notin Workers /\ \A l \in 1 .. joined : phase[l] = "ended"
    BY <1>1 DEF ServerOK, ServerInv
  <2>2. c \notin conns /\ place[c] # Base
    BY <1>1, <2>1 DEF ServerOK, StateInv
  <2>3. place[c] \in Workers /\ Workers = 1 .. numThreads /\ numThreads \in Nat
    <3>1. numThreads \in 0 .. MaxThreads /\ place[c] \in Workers \cup {Base}
      BY <1>1 DEF ServerOK, TypeInv
    <3>2. QED BY <2>2, <3>1, ThreadAssumption DEF Workers
  <2>4. place[c] \in 1 .. joined
    <3>1. joined \in Nat
      BY <1>1, ThreadAssumption DEF ServerOK, TypeInv
    <3>2. QED BY <2>1, <2>3, <3>1
  <2>5. phase[place[c]] = "ended" /\ place[c] \in Loops
    BY <1>1, <2>1, <2>4, WorkersAreLoops DEF ServerOK
  <2>6. Des(c) \in Range(batch[place[c]])
    BY <1>1, <2>2, <2>5 DEF ServerOK, HeldInv
  <2>7. batch[place[c]] = <<>>
    BY <1>1, <2>5 DEF ServerOK, PhaseInv
  <2>8. QED BY <2>6, <2>7, EmptyQueue
<1>2. ServerOK => ReportedAtEnd
  BY <1>1 DEF ReportedAtEnd
<1>3. QED BY <1>2, ServerInvariant, PTL

-----------------------------------------------------------------------------
(* Every connection lives as ConnectionLives says.                         *)

Held(c) == c \in conns \/ \E l \in Loops : c \in spent[l]
Queued(c) == \E l \in Loops : \E f \in Range(batch[l]) \cup Range(pending[l]) : f.conn = c

LEMMA AliveParts ==
  ASSUME NEW c
  PROVE  /\ Alive(c) <=> Held(c) \/ Queued(c)
         /\ Alive(c)' <=> \/ c \in conns' \/ \E l \in Loops : c \in spent'[l]
                          \/ \E l \in Loops :
                               \E f \in Range(batch'[l]) \cup Range(pending'[l]) : f.conn = c
  BY DEF Alive, Held, Queued

(* A step of one connection, said of its state_ and of who holds it. *)
LEMMA StaysAlive ==
  ASSUME NEW c \in Ids, state'[c] = state[c], Alive(c)' <=> Alive(c)
  PROVE  Lives!Stays(c)
  BY DEF Lives!Stays

LEMMA ReportedAlive ==
  ASSUME NEW c \in Ids, Alive(c),
         \/ state[c] = "kConnecting" /\ state'[c] = "kConnected" /\ Alive(c)'
         \/ state[c] = "kConnected" /\ state'[c] = "kDisconnected"
  PROVE  Lives!Reported(c)
  BY DEF Lives!Reported, Lives!Moves

LEMMA AcceptedAlive ==
  ASSUME NEW c \in Ids, ~Alive(c), Alive(c)', state[c] = "none",
         state'[c] \in {"kConnecting", "kConnected"}
  PROVE  Lives!Accepted(c)
  BY DEF Lives!Accepted, Lives!Moves

LEMMA ClosedAlive ==
  ASSUME NEW c \in Ids, Alive(c), ~Alive(c)', state'[c] = state[c],
         state[c] = "kDisconnected" \/ server # "running"
  PROVE  Lives!Closed(c)
  BY DEF Lives!Closed

LivesOn(c) == Lives!Stays(c) \/ Lives!Accepted(c) \/ Lives!Reported(c) \/ Lives!Closed(c)

LEMMA SameHolders ==
  ASSUME NEW c, c \in conns' <=> c \in conns,
         \A k \in Loops : c \in spent'[k] <=> c \in spent[k],
         \A k \in Loops :
           (\E f \in Range(batch'[k]) \cup Range(pending'[k]) : f.conn = c)
             <=> (\E f \in Range(batch[k]) \cup Range(pending[k]) : f.conn = c)
  PROVE  Alive(c)' <=> Alive(c)
  BY AliveParts DEF Held, Queued

LEMMA QuietStep ==
  ASSUME UNCHANGED <<state, conns, spent>>,
         \A k \in Loops : Range(batch'[k]) \cup Range(pending'[k]) =
                          Range(batch[k]) \cup Range(pending[k])
  PROVE  \A c \in Ids : LivesOn(c)
  BY SameHolders, StaysAlive DEF LivesOn

(* Nobody holds a connection that is not made yet. *)
LEMMA NotMadeYet ==
  ASSUME ServerOK, NEW c \in Ids, state[c] = "none"
  PROVE  ~Alive(c)
<1>1. c \notin conns
  BY DEF ServerOK, StateInv
<1>2. \A l \in Loops : c \notin spent[l]
  BY DEF ServerOK, QueueInv
<1>3. \A l \in Loops : \A f \in Range(batch[l]) \cup Range(pending[l]) : f.conn # c
  BY DEF ServerOK, QueueInv
<1>4. QED BY <1>1, <1>2, <1>3, AliveParts DEF Held, Queued

LEMMA CloseLives ==
  ASSUME ServerOK, NEW l \in Loops, NEW c \in Ids, Handles(l, c), Alive(c), HandleClose(l, c),
         UNCHANGED <<batch, spent, place>>
  PROVE  \A d \in Ids : LivesOn(d)
<1>1. phase[l] = "events" /\ c \in active[l] /\ c # Listener /\ Base \in Loops
  BY Numbers DEF Handles
<1>2. place[c] = l /\ state[c] = "kConnected"
  BY <1>1 DEF ServerOK, StateInv
<1>3. state'[c] = "kDisconnected" /\ \A d \in Ids : d # c => state'[d] = state[d]
  BY DEF HandleClose, ServerOK, TypeInv
<1>4. PICK f \in {Des(c), Rem(c)} : Post(Base, f) /\ conns' \in {conns, conns \ {c}}
  BY <1>2, FunctorFacts DEF HandleClose, RemoveInLoop, Des, Rem
<1>5. f \in Functor /\ f.conn = c /\ f.fn # "connectEstablished"
  BY FunctorFacts
<1>6. \A k \in Loops : Range(pending'[k]) = Range(pending[k]) \cup (IF k = Base THEN {f} ELSE {})
  BY <1>1, <1>4, <1>5, PostFacts DEF ServerOK
<1>7. LivesOn(c)
  BY <1>2, <1>3, ReportedAlive DEF LivesOn
<1>8. ASSUME NEW d \in Ids, d # c PROVE LivesOn(d)
  <2>1. \A k \in Loops :
          (\E g \in Range(batch'[k]) \cup Range(pending'[k]) : g.conn = d)
            <=> (\E g \in Range(batch[k]) \cup Range(pending[k]) : g.conn = d)
    BY <1>5, <1>6, <1>8
  <2>2. d \in conns' <=> d \in conns
    BY <1>4, <1>8
  <2>3. QED BY <1>3, <1>8, <2>1, <2>2, SameHolders, StaysAlive DEF LivesOn
<1>9. QED BY <1>7, <1>8

LEMMA NewLives ==
  ASSUME ServerOK, NEW d, NEW c \in Ids, c = nextConnId, NEW l \in Loops,
         NewConnection(c, l, d), UNCHANGED <<batch, spent>>
  PROVE  \A b \in Ids : LivesOn(b)
<1>1. state[c] = "none" /\ ~Alive(c)
  <2>1. c >= nextConnId
    BY DEF Ids
  <2>2. QED BY <2>1, NotMadeYet DEF ServerOK, StateInv
<1>2. conns' = conns \cup {c}
  BY DEF NewConnection
<1>3. /\ state'[c] \in {"kConnecting", "kConnected"}
      /\ \A b \in Ids : b # c => state'[b] = state[b]
  <2>1. state' = [state EXCEPT ![c] = "kConnecting"] \/ state' = [state EXCEPT ![c] = "kConnected"]
    BY DEF NewConnection, Establish
  <2>2. QED BY <2>1 DEF ServerOK, TypeInv
<1>4. \A k \in Loops : Range(pending'[k]) \in {Range(pending[k]), Range(pending[k]) \cup {Est(c)}}
  <2>1. CASE l = Base
    BY <2>1 DEF NewConnection
  <2>2. CASE l # Base
    <3>1. Post(l, Est(c))
      BY <2>2 DEF NewConnection, Est
    <3>2. Est(c) \in Functor
      BY FunctorFacts
    <3>3. ~Holds(pending[l], Est(c).conn)
      BY <1>1, FunctorFacts, AliveParts DEF Queued, Holds
    <3>4. \A k \in Loops :
            Range(pending'[k]) = Range(pending[k]) \cup (IF k = l THEN {Est(c)} ELSE {})
      BY <3>1, <3>2, <3>3, PostFacts DEF ServerOK
    <3>5. QED BY <3>4
  <2>3. QED BY <2>1, <2>2
<1>5. LivesOn(c)
  <2>1. Alive(c)'
    BY <1>2, AliveParts
  <2>2. QED BY <1>1, <1>3, <2>1, AcceptedAlive DEF LivesOn
<1>6. ASSUME NEW b \in Ids, b # c PROVE LivesOn(b)
  <2>1. Est(c).conn # b
    BY <1>6, FunctorFacts
  <2>2. ASSUME NEW k \in Loops
        PROVE (\E g \in Range(batch'[k]) \cup Range(pending'[k]) : g.conn = b)
                <=> (\E g \in Range(batch[k]) \cup Range(pending[k]) : g.conn = b)
    <3>1. \/ Range(pending'[k]) = Range(pending[k])
          \/ Range(pending'[k]) = Range(pending[k]) \cup {Est(c)}
      BY <1>4
    <3>2. QED BY <2>1, <3>1
  <2>3. b \in conns' <=> b \in conns
    BY <1>2, <1>6
  <2>4. QED BY <1>3, <1>6, <2>2, <2>3, SameHolders, StaysAlive DEF LivesOn
<1>7. QED BY <1>5, <1>6

LEMMA RunLives ==
  ASSUME ServerOK, NEW l \in Loops, RunFunctor(l),
         NEW h, h = Head(batch[l]), NEW c, c = h.conn
  PROVE  \A d \in Ids : LivesOn(d)
<1>1. /\ Ran(l, c) /\ h \in Functor /\ c \in Ids
      /\ Range(batch[l]) = {h} \cup Range(batch'[l])
  BY RunFacts
<1>2. Alive(c) /\ Alive(c)'
  <2>1. Alive(c)
    BY <1>1, AliveParts DEF Queued
  <2>2. c \in spent'[l]
    BY <1>1 DEF Ran
  <2>3. QED BY <2>1, <2>2, AliveParts
<1>3. /\ \A d \in Ids : d # c => state'[d] = state[d] /\ (d \in conns' <=> d \in conns)
      /\ \A k \in Loops : \A d \in Ids : d # c =>
           ((\E f \in Range(pending'[k]) : f.conn = d) <=> (\E f \in Range(pending[k]) : f.conn = d))
  <2>1. CASE UNCHANGED <<conns, pending>> /\ (Establish(c) \/ Destroy(c))
    BY <2>1 DEF Establish, Destroy, ServerOK, TypeInv
  <2>2. CASE RemoveInLoop(c) /\ UNCHANGED <<state, ch>>
    <3>1. Des(c) \in Functor /\ Des(c).conn = c /\ Des(c).fn = "connectDestroyed"
      BY <1>1, FunctorFacts
    <3>2. \A k \in Loops :
            Range(pending'[k]) = Range(pending[k]) \cup (IF k = place[c] THEN {Des(c)} ELSE {})
      BY <1>1, <2>2, <3>1, WorkersAreLoops, PostFacts DEF ServerOK, RemoveInLoop, Des
    <3>3. QED BY <2>2, <3>1, <3>2 DEF RemoveInLoop
  <2>3. QED BY <2>1, <2>2 DEF RunFunctor
<1>4. ASSUME NEW d \in Ids, d # c PROVE LivesOn(d)
  <2>1. \A k \in Loops : d \in spent'[k] <=> d \in spent[k]
    BY <1>1, <1>4 DEF Ran
  <2>2. \A k \in Loops :
          (\E f \in Range(batch'[k]) : f.conn = d) <=> (\E f \in Range(batch[k]) : f.conn = d)
    BY <1>1, <1>4 DEF Ran
  <2>3. \A k \in Loops :
          (\E f \in Range(batch'[k]) \cup Range(pending'[k]) : f.conn = d)
            <=> (\E f \in Range(batch[k]) \cup Range(pending[k]) : f.conn = d)
    BY <1>3, <1>4, <2>2
  <2>4. QED BY <1>3, <1>4, <2>1, <2>3, SameHolders, StaysAlive DEF LivesOn
<1>5. LivesOn(c)
  <2>1. CASE h.fn = "connectEstablished"
    <3>1. Establish(c) /\ state[c] = "kConnecting"
      BY <1>1, <2>1 DEF RunFunctor, ServerOK, QueueInv
    <3>2. state'[c] = "kConnected"
      BY <1>1, <3>1 DEF Establish, ServerOK, TypeInv
    <3>3. QED BY <1>1, <1>2, <3>1, <3>2, ReportedAlive DEF LivesOn
  <2>2. CASE h.fn = "connectDestroyed"
    <3>1. Destroy(c)
      BY <2>2 DEF RunFunctor
    <3>2. CASE state[c] = "kConnected"
      <4>1. state'[c] = "kDisconnected"
        BY <1>1, <3>1, <3>2 DEF Destroy, ServerOK, TypeInv
      <4>2. QED BY <1>1, <1>2, <3>2, <4>1, ReportedAlive DEF LivesOn
    <3>3. CASE state[c] # "kConnected"
      <4>1. state'[c] = state[c]
        BY <3>1, <3>3 DEF Destroy
      <4>2. QED BY <1>1, <1>2, <4>1, StaysAlive DEF LivesOn
    <3>4. QED BY <3>2, <3>3
  <2>3. CASE h.fn \notin {"connectEstablished", "connectDestroyed"}
    <3>1. state' = state
      BY <2>3 DEF RunFunctor
    <3>2. QED BY <1>1, <1>2, <3>1, StaysAlive DEF LivesOn
  <2>4. QED BY <2>1, <2>2, <2>3
<1>6. QED BY <1>4, <1>5

(* The end of a batch may let go of connections: of one that is not down   *)
(* only when the server ends.                                              *)
LEMMA EndLives ==
  ASSUME ServerOK, NEW l \in Loops, EndFunctors(l)
  PROVE  \A c \in Ids : LivesOn(c)
<1>1. /\ spent' = [spent EXCEPT ![l] = {}]
      /\ pending' = IF quit[l] /\ l # Base THEN [pending EXCEPT ![l] = <<>>] ELSE pending
      /\ UNCHANGED <<conns, batch, state>>
  BY DEF EndFunctors, mainVars, connVars
<1>2. \A k \in Loops : spent'[k] \subseteq spent[k] /\ Range(pending'[k]) \subseteq Range(pending[k])
  BY <1>1, EmptyQueue DEF ServerOK, TypeInv
<1>3. SUFFICES ASSUME NEW c \in Ids PROVE LivesOn(c)
  OBVIOUS
<1>4. Alive(c)' => Alive(c)
  BY <1>1, <1>2, AliveParts DEF Held, Queued
<1>5. CASE Alive(c) /\ ~Alive(c)'
  <2>1. c \notin conns
    BY <1>1, <1>5, AliveParts
  <2>2. state[c] # "none"
    BY <1>5, NotMadeYet
  <2>3. state[c] = "kDisconnected" \/ server # "running"
    <3>1. state[c] \in States
      BY DEF ServerOK, TypeInv
    <3>2. QED BY <2>1, <2>2, <3>1 DEF ServerOK, HeldInv, States
  <2>4. QED BY <1>1, <1>5, <2>3, ClosedAlive DEF LivesOn
<1>6. CASE ~(Alive(c) /\ ~Alive(c)')
  BY <1>1, <1>4, <1>6, StaysAlive DEF LivesOn
<1>7. QED BY <1>5, <1>6

LEMMA DropLives ==
  ASSUME ServerOK, NEW c \in Ids, DropConnection(c)
  PROVE  \A d \in Ids : LivesOn(d)
<1>1. /\ server = "closing" /\ c \in conns /\ conns' = conns \ {c}
      /\ UNCHANGED <<batch, spent>>
  BY DEF DropConnection
<1>2. Alive(c) /\ place[c] \in Loops
  BY <1>1, AliveParts, WorkersAreLoops DEF Held, ServerOK
<1>3. Des(c) \in Functor /\ Des(c).conn = c /\ Des(c).fn = "connectDestroyed"
  BY FunctorFacts
<1>4. \/ place[c] = Base /\ Destroy(c) /\ UNCHANGED pending
      \/ UNCHANGED state /\ \A k \in Loops : Range(pending'[k]) =
           Range(pending[k]) \cup (IF k = place[c] THEN {Des(c)} ELSE {})
  BY <1>2, <1>3, PostFacts DEF DropConnection, Des, ServerOK
<1>5. \A d \in Ids : d # c => state'[d] = state[d]
  BY <1>4 DEF Destroy, ServerOK, TypeInv
<1>6. ASSUME NEW d \in Ids, d # c PROVE LivesOn(d)
  <2>1. ASSUME NEW k \in Loops
        PROVE  (\E f \in Range(batch'[k]) \cup Range(pending'[k]) : f.conn = d)
                 <=> (\E f \in Range(batch[k]) \cup Range(pending[k]) : f.conn = d)
    <3>1. \/ Range(pending'[k]) = Range(pending[k])
          \/ Range(pending'[k]) = Range(pending[k]) \cup {Des(c)}
      BY <1>4
    <3>2. QED BY <1>1, <1>3, <1>6, <3>1
  <2>2. d \in conns' <=> d \in conns
    BY <1>1, <1>6
  <2>3. QED BY <1>1, <1>5, <1>6, <2>1, <2>2, SameHolders, StaysAlive DEF LivesOn
<1>7. LivesOn(c)
  <2>1. CASE state[c] = "kConnected" /\ state'[c] = "kDisconnected"
    BY <1>2, <2>1, ReportedAlive DEF LivesOn
  <2>2. CASE state'[c] = state[c]
    BY <1>1, <1>2, <2>2, StaysAlive, ClosedAlive DEF LivesOn
  <2>3. QED BY <1>4, <2>1, <2>2 DEF Destroy, ServerOK, TypeInv
<1>8. QED BY <1>6, <1>7

LEMMA LivesStep ==
  ASSUME ServerOK, [Next]_vars
  PROVE  (\A c \in Ids : LivesOn(c)) /\ (server' = "running" => server = "running")
<1>1. ASSUME ConnsStay, server' = "running" => server = "running"
      PROVE  (\A c \in Ids : LivesOn(c)) /\ (server' = "running" => server = "running")
  BY <1>1, QuietStep DEF ConnsStay
<1>2. CASE \/ Start \/ QuitBase \/ PeerConnects \/ AcceptFails
           \/ \E l \in Loops : BeginLoop(l) \/ Poll(l)
  BY <1>1, <1>2 DEF Start, QuitBase, PeerConnects, AcceptFails, BeginLoop, Poll, ConnsStay,
     poolVars, mainVars, netVars, loopVars, connVars
<1>3. CASE BeginDestructor \/ QuitWorker \/ JoinWorker \/ EndDestructor \/ UNCHANGED vars
  BY <1>1, <1>3 DEF BeginDestructor, QuitWorker, JoinWorker, EndDestructor, vars, ConnsStay,
     poolVars, mainVars, netVars, loopVars, connVars
<1>4. ASSUME NEW l \in Loops, NEW c \in Ids, HandleEvent(l, c)
      PROVE  (\A d \in Ids : LivesOn(d)) /\ (server' = "running" => server = "running")
  <2>1. /\ Handles(l, c) /\ UNCHANGED <<server, batch, spent, place, late, nextConnId>>
        /\ \/ UNCHANGED <<state, ch, conns, pending>>
           \/ Alive(c) /\ HandleClose(l, c)
    BY <1>4 DEF HandleEvent
  <2>2. CASE UNCHANGED <<state, ch, conns, pending>>
    BY <1>1, <2>1, <2>2 DEF ConnsStay
  <2>3. CASE Alive(c) /\ HandleClose(l, c)
    BY <2>1, <2>3, CloseLives
  <2>4. QED BY <2>1, <2>2, <2>3
<1>5. CASE Accept
  <2>1. UNCHANGED <<server, batch, spent, late>>
    BY <1>5 DEF Accept
  <2>2. PICK d \in Free :
          IF d > 0
          THEN NewConnection(nextConnId, NextLoop, d)
          ELSE UNCHANGED <<nextConnId, conns, connVars, pending>>
    BY <1>5 DEF Accept
  <2>3. CASE d > 0
    <3>1. Handles(Base, Listener) /\ Base \in Loops
      BY <1>5, Numbers DEF Accept
    <3>2. waiting > 0 /\ server = "running" /\ phase[Base] # "ended"
      BY <3>1 DEF Handles, ServerOK, PhaseInv, ServerInv
    <3>3. nextConnId \in Ids
      <4>1. /\ nextConnId \in 1 .. MaxConns + 1 /\ arrived \in 0 .. MaxConns
            /\ waiting \in 0 .. arrived /\ nextConnId + waiting <= arrived + 1
        BY DEF ServerOK, TypeInv
      <4>2. QED BY <3>2, <4>1, ConnAssumption DEF Ids
    <3>4. NextLoop \in Loops
      BY <3>2, NextLoopFacts
    <3>5. QED BY <2>1, <2>2, <2>3, <3>3, <3>4, NewLives
  <2>4. CASE ~(d > 0)
    BY <1>1, <2>1, <2>2, <2>4 DEF ConnsStay, connVars
  <2>5. QED BY <2>3, <2>4
<1>6. ASSUME NEW l \in Loops, SwapPending(l)
      PROVE  (\A c \in Ids : LivesOn(c)) /\ (server' = "running" => server = "running")
  <2>1. /\ UNCHANGED <<server, state, conns, spent>> /\ phase[l] = "events"
        /\ batch' = [batch EXCEPT ![l] = pending[l]]
        /\ pending' = [pending EXCEPT ![l] = <<>>]
    BY <1>6 DEF SwapPending, Goes, mainVars, connVars
  <2>2. batch[l] = <<>>
    BY <2>1 DEF ServerOK, PhaseInv
  <2>3. \A k \in Loops :
          IF k = l THEN batch'[k] = pending[k] /\ pending'[k] = <<>>
                   ELSE batch'[k] = batch[k] /\ pending'[k] = pending[k]
    BY <2>1 DEF ServerOK, TypeInv
  <2>4. \A k \in Loops : Range(batch'[k]) \cup Range(pending'[k]) =
                         Range(batch[k]) \cup Range(pending[k])
    BY <2>2, <2>3, EmptyQueue
  <2>5. QED BY <2>1, <2>4, QuietStep
<1>7. ASSUME NEW l \in Loops, RunFunctor(l)
      PROVE  (\A c \in Ids : LivesOn(c)) /\ (server' = "running" => server = "running")
  <2>1. \A c \in Ids : LivesOn(c)
    BY <1>7, RunLives
  <2>2. server' = server
    BY <1>7 DEF RunFunctor
  <2>3. QED BY <2>1, <2>2
<1>8. ASSUME NEW l \in Loops, EndFunctors(l)
      PROVE  (\A c \in Ids : LivesOn(c)) /\ (server' = "running" => server = "running")
  BY <1>8, EndLives DEF EndFunctors, mainVars
<1>9. ASSUME NEW c \in Ids, DropConnection(c)
      PROVE  (\A d \in Ids : LivesOn(d)) /\ (server' = "running" => server = "running")
  BY <1>9, DropLives DEF DropConnection
<1>10. QED BY <1>2, <1>3, <1>4, <1>5, <1>6, <1>7, <1>8, <1>9 DEF Next, LoopStep, Destructor

(* A server is a set of connections that each live as ConnectionLives      *)
(* says: accepted once, its descriptor open from then on, reported up and   *)
(* then down, and closed before that only while the server ends.           *)
THEOREM ServerKeepsLives == Spec => LivesRefined
<1>1. ASSUME Init PROVE Lives!Init
  <2>1. \A c \in Ids : ~Alive(c)
    <3>1. ServerOK /\ \A c \in Ids : state[c] = "none"
      BY <1>1, InitOK DEF Init
    <3>2. QED BY <3>1, NotMadeYet
  <2>2. state = [c \in Ids |-> "none"] /\ server = "running"
    BY <1>1 DEF Init
  <2>3. QED BY <2>1, <2>2 DEF Lives!Init
<1>2. ASSUME ServerOK, ServerOK', [Next]_vars PROVE [Lives!Next]_(Lives!vars)
  <2>1. DOMAIN state' = Ids
    BY <1>2 DEF ServerOK, TypeInv
  <2>2. QED BY <1>2, <2>1, LivesStep DEF LivesOn, Lives!Next
<1>3. QED BY ServerInvariant, <1>1, <1>2, PTL DEF LivesRefined, Lives!Spec, Spec

================================================================================
