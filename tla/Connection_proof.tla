---------------------------- MODULE Connection_proof ----------------------------
(***************************************************************************)
(* Proofs about Connection, for any workers, any messages of any size, and *)
(* whatever user code calls unless a theorem says otherwise.               *)
(***************************************************************************)
EXTENDS Connection, SequenceTheorems, TLAPS

(* A call of `name` is among the functors s. *)
Has(s, name) == \E i \in DOMAIN s : s[i].fn = name

LEMMA HasEmpty == ASSUME NEW n PROVE ~Has(<<>>, n)
  BY DEF Has

LEMMA HasAppend ==
  ASSUME NEW S, NEW s \in Seq(S), NEW e \in S, NEW n
  PROVE  Has(Append(s, e), n) <=> Has(s, n) \/ e.fn = n
<1>1. /\ Len(s) \in Nat /\ DOMAIN s = 1 .. Len(s)
      /\ DOMAIN Append(s, e) = 1 .. Len(s) + 1
      /\ \A i \in 1 .. Len(s) : Append(s, e)[i] = s[i]
      /\ Append(s, e)[Len(s) + 1] = e
  BY AppendProperties, LenProperties
<1>2. QED BY <1>1 DEF Has

LEMMA HasConcat ==
  ASSUME NEW S, NEW s \in Seq(S), NEW t \in Seq(S), NEW n
  PROVE  Has(s \o t, n) <=> Has(s, n) \/ Has(t, n)
<1>1. /\ Len(s) \in Nat /\ DOMAIN s = 1 .. Len(s)
      /\ Len(t) \in Nat /\ DOMAIN t = 1 .. Len(t)
      /\ DOMAIN (s \o t) = 1 .. Len(s) + Len(t)
      /\ \A i \in 1 .. Len(s) + Len(t) :
           (s \o t)[i] = IF i <= Len(s) THEN s[i] ELSE t[i - Len(s)]
  BY ConcatProperties, LenProperties
<1>2. ASSUME Has(s \o t, n) PROVE Has(s, n) \/ Has(t, n)
  BY <1>1, <1>2 DEF Has
<1>3. ASSUME Has(s, n) PROVE Has(s \o t, n)
  BY <1>1, <1>3 DEF Has
<1>4. ASSUME Has(t, n) PROVE Has(s \o t, n)
  <2>1. PICK i \in 1 .. Len(t) : t[i].fn = n
    BY <1>1, <1>4 DEF Has
  <2>2. i + Len(s) \in 1 .. Len(s) + Len(t) /\ (s \o t)[i + Len(s)] = t[i]
    BY <1>1
  <2>3. QED BY <1>1, <2>1, <2>2 DEF Has
<1>5. QED BY <1>2, <1>3, <1>4

LEMMA HasTail ==
  ASSUME NEW S, NEW s \in Seq(S), s # <<>>, NEW n
  PROVE  Has(s, n) <=> Head(s).fn = n \/ Has(Tail(s), n)
<1>1. /\ Len(s) \in Nat \ {0} /\ DOMAIN s = 1 .. Len(s)
      /\ DOMAIN Tail(s) = 1 .. Len(s) - 1
      /\ \A i \in 1 .. Len(s) - 1 : Tail(s)[i] = s[i + 1]
      /\ Head(s) = s[1]
  BY HeadTailProperties, LenProperties, EmptySeq
<1>2. ASSUME Has(s, n), Head(s).fn # n PROVE Has(Tail(s), n)
  <2>1. PICK i \in 1 .. Len(s) : s[i].fn = n
    BY <1>1, <1>2 DEF Has
  <2>2. i # 1 /\ i - 1 \in 1 .. Len(s) - 1
    BY <1>1, <1>2, <2>1
  <2>3. Tail(s)[i - 1] = s[i]
    BY <1>1, <2>2
  <2>4. QED BY <1>1, <2>1, <2>2, <2>3 DEF Has
<1>3. ASSUME Has(Tail(s), n) PROVE Has(s, n)
  <2>1. PICK i \in 1 .. Len(s) - 1 : Tail(s)[i].fn = n
    BY <1>1, <1>3 DEF Has
  <2>2. i + 1 \in 1 .. Len(s) /\ s[i + 1].fn = n
    BY <1>1, <2>1
  <2>3. QED BY <1>1, <2>2 DEF Has
<1>4. ASSUME Head(s).fn = n PROVE Has(s, n)
  BY <1>1, <1>4 DEF Has
<1>5. QED BY <1>2, <1>3, <1>4

-----------------------------------------------------------------------------
(* The channel.                                                            *)

(* What every call keeps: index_ says whether the channel is in the epoll  *)
(* set, and it is there exactly while it has an interest.                  *)
Sound(c) ==
  /\ c \in ChannelRecord
  /\ c.inEpoll <=> c.index = "kAdded"
  /\ c.index = "kAdded" <=> c.events # {}

LEMMA NewSound == Sound(NewChannel)
  BY DEF Sound, NewChannel, ChannelRecord

(* Setting an interest adds the channel. *)
LEMMA SetSome ==
  ASSUME NEW c, Sound(c), NEW E \in SUBSET Event, E # {}
  PROVE  SetEvents(c, E) =
           [events |-> E, index |-> "kAdded",
            listed |-> c.listed \/ c.index = "kNew", inEpoll |-> TRUE]
<1>1. c = [events |-> c.events, index |-> c.index, listed |-> c.listed, inEpoll |-> c.inEpoll]
  BY DEF Sound, ChannelRecord
<1>2. /\ c.listed \in BOOLEAN
      /\ c.index = "kAdded" => c.inEpoll = TRUE
  BY DEF Sound, ChannelRecord
<1>3. CASE c.index = "kAdded"
  BY <1>1, <1>2, <1>3 DEF SetEvents, UpdateChannel
<1>4. CASE c.index # "kAdded"
  BY <1>1, <1>2, <1>4 DEF SetEvents, UpdateChannel
<1>5. QED BY <1>3, <1>4

(* disableAll takes an added channel out of the epoll set. *)
LEMMA SetNone ==
  ASSUME NEW c, Sound(c), c.index = "kAdded"
  PROVE  SetEvents(c, {}) =
           [events |-> {}, index |-> "kDeleted", listed |-> c.listed, inEpoll |-> FALSE]
<1>1. c = [events |-> c.events, index |-> c.index, listed |-> c.listed, inEpoll |-> c.inEpoll]
  BY DEF Sound, ChannelRecord
<1>2. QED BY <1>1 DEF SetEvents, UpdateChannel

(* remove takes it out of the poller, whether or not it was deleted: the   *)
(* update that adds it again is undone by the next.                        *)
LEMMA RemoveAny ==
  ASSUME NEW c, Sound(c), c.index # "kNew"
  PROVE  RemoveChannel(c) =
           [events |-> {}, index |-> "kDeleted", listed |-> FALSE, inEpoll |-> FALSE]
<1>1. c = [events |-> c.events, index |-> c.index, listed |-> c.listed, inEpoll |-> c.inEpoll]
  BY DEF Sound, ChannelRecord
<1>2. c.index \in {"kAdded", "kDeleted"}
  BY DEF Sound, ChannelRecord
<1>3. CASE c.index = "kAdded"
  BY <1>1, <1>3 DEF RemoveChannel, DisableAll, SetEvents, UpdateChannel
<1>4. CASE c.index = "kDeleted"
  BY <1>1, <1>4 DEF RemoveChannel, DisableAll, SetEvents, UpdateChannel
<1>5. QED BY <1>2, <1>3, <1>4

-----------------------------------------------------------------------------
(* Types.                                                                  *)

Units == (Messages \cup {Garbage}) \X (1 .. MessageSize)

Socket ==
  [fin : BOOLEAN, peer : {"open", "closed", "reset"},
   input : BOOLEAN, err : {"none", "ECONNRESET", "EPIPE"}]

(* A functor, and a task, that sends has a message to send. *)
Functor == {f \in FunctorRecord : f.fn = "sendInLoop" => f.msg \in Messages}

Task ==
  {t \in [at : {"none", "call", "checked", "set", "done"},
          call : Call \cup {"none"}, msg : Messages \cup {NoMessage}] :
     t.at \in {"call", "checked"} /\ t.call = "send" => t.msg \in Messages}

TypeInv ==
  /\ state \in {"kConnecting", "kConnected", "kDisconnecting", "kDisconnected"}
  /\ Sound(ch)
  /\ output \in Seq(Units) /\ wire \in Seq(Units)
  /\ io \in UserPhase \cup {"loop", "fault"}
  /\ revents \subseteq {"HUP", "ERR", "IN", "OUT"}
  /\ pending \in Seq(Functor) /\ functors \in Seq(Functor) /\ spent \in BOOLEAN
  /\ worker \in [Workers -> Task]
  /\ inMap \in BOOLEAN /\ removals \in Nat /\ server \in {"running", "destroyed"}
  /\ sock \in Socket
  /\ unsent \subseteq Messages
  /\ told \in {"new", "up", "down", "down again"}

LEMMA TypeInvOK == TypeInv => TypeOK
<1> SUFFICES ASSUME TypeInv PROVE TypeOK
  OBVIOUS
<1>1. pending \in Seq(FunctorRecord) /\ functors \in Seq(FunctorRecord)
  <2>1. Functor \subseteq FunctorRecord
    BY DEF Functor
  <2>2. QED BY <2>1, SeqMonotonic DEF TypeInv
<1>2. worker \in [Workers -> [at : {"none", "call", "checked", "set", "done"},
                             call : Call \cup {"none"},
                             msg : Messages \cup {NoMessage}]]
  BY DEF TypeInv, Task
<1>3. QED BY <1>1, <1>2 DEF TypeInv, TypeOK, Sound, Units, Socket

LEMMA FnType ==
  /\ \A name \in {"connectEstablished", "connectDestroyed", "shutdownInloop",
                  "writeComplete", "highWaterMark"} : Fn(name) \in Functor
  /\ \A m \in Messages, w \in Workers : SendFn(m, w) \in Functor
  BY DEF Fn, SendFn, Functor, FunctorRecord

LEMMA GoesToRecord ==
  ASSUME TypeInv, NEW w \in Workers, NEW a, GoesTo(w, a)
  PROVE  worker' = [worker EXCEPT
                      ![w] = [at |-> a, call |-> worker[w].call, msg |-> worker[w].msg]]
<1> DEFINE t == worker[w]
<1>1. t = [at |-> t.at, call |-> t.call, msg |-> t.msg]
  BY DEF TypeInv, Task
<1>2. worker' = [worker EXCEPT ![w] = [t EXCEPT !.at = a]]
  BY DEF TypeInv, GoesTo
<1> HIDE DEF t
<1>3. [t EXCEPT !.at = a] = [at |-> a, call |-> t.call, msg |-> t.msg]
  BY <1>1
<1>4. QED BY <1>2, <1>3 DEF t

(* The callbacks a handler queues: none removes the connection. *)
Notices == {<<>>, <<Fn("writeComplete")>>, <<Fn("highWaterMark")>>}

LEMMA NoticesType ==
  ASSUME NEW c \in Notices
  PROVE  /\ c \in Seq(Functor)
         /\ \A n \in {"connectEstablished", "connectDestroyed"} : ~Has(c, n)
<1>1. CASE c = <<>>
  BY <1>1, HasEmpty
<1>2. ASSUME NEW name \in {"writeComplete", "highWaterMark"}, c = <<Fn(name)>>
      PROVE  /\ c \in Seq(Functor)
             /\ \A n \in {"connectEstablished", "connectDestroyed"} : ~Has(c, n)
  <2>1. Fn(name) \in Functor /\ Fn(name).fn = name
    BY FnType DEF Fn
  <2>2. c \in Seq(Functor) /\ DOMAIN c = {1} /\ c[1] = Fn(name)
    BY <1>2, <2>1
  <2>3. QED BY <2>1, <2>2 DEF Has
<1>3. QED BY <1>1, <1>2 DEF Notices

LEMMA CallbackType ==
  ASSUME NEW name \in {"writeComplete", "highWaterMark"}
  PROVE  Callback(name) \in Notices
  BY DEF Callback, Notices

LEMMA UnitType ==
  ASSUME NEW m \in Messages \cup {Garbage}
  PROVE  /\ Unit(m) \in Seq(Units)
         /\ Len(Unit(m)) = MessageSize
<1>1. MessageSize \in Nat \ {0}
  BY MessageAssumption
<1>2. \A i \in 1 .. MessageSize : <<m, i>> \in Units
  BY DEF Units
<1>3. Unit(m) \in Seq(Units)
  BY <1>1, <1>2, IsASeq DEF Unit
<1>4. QED BY <1>1, <1>3, LenProperties DEF Unit

-----------------------------------------------------------------------------
(* What sendInLoop may do, whoever calls it.                               *)

Calls == {"connectEstablished", "connectDestroyed"}

(* Of the functors queued only notices are new. *)
OnlyNotices ==
  /\ pending' \in Seq(Functor)
  /\ \A n \in Calls : Has(pending', n) <=> Has(pending, n)

LEMMA NoticesQueued ==
  ASSUME TypeInv, NEW x \in Notices, NEW y \in Notices, pending' = pending \o x \o y
  PROVE  OnlyNotices
<1>1. pending \in Seq(Functor) /\ x \in Seq(Functor) /\ y \in Seq(Functor)
  BY NoticesType DEF TypeInv
<1>2. pending \o x \in Seq(Functor) /\ (pending \o x) \o y \in Seq(Functor)
  BY <1>1, ConcatProperties
<1>3. ASSUME NEW n \in Calls PROVE Has(pending', n) <=> Has(pending, n)
  <2>1. Has(pending \o x, n) <=> Has(pending, n) \/ Has(x, n)
    BY <1>1, HasConcat
  <2>2. Has((pending \o x) \o y, n) <=> Has(pending \o x, n) \/ Has(y, n)
    BY <1>1, <1>2, HasConcat
  <2>3. ~Has(x, n) /\ ~Has(y, n)
    BY NoticesType DEF Calls
  <2>4. QED BY <2>1, <2>2, <2>3
<1>4. QED BY <1>2, <1>3 DEF OnlyNotices

LEMMA NothingQueued == ASSUME TypeInv, pending' = pending PROVE OnlyNotices
  BY DEF TypeInv, OnlyNotices

LEMMA BufferStep ==
  ASSUME TypeInv, ch.index # "kNew", NEW rest \in Seq(Units), Buffer(rest)
  PROVE  /\ output' = output \o rest
         /\ ch' = IF rest # <<>> /\ ~IsWriting(ch)
                  THEN [events |-> ch.events \cup {"write"}, index |-> "kAdded",
                        listed |-> ch.listed, inEpoll |-> TRUE]
                  ELSE ch
         /\ OnlyNotices
<1>1. Sound(ch) /\ ch.events \cup {"write"} \in SUBSET Event /\ ch.listed \in BOOLEAN
  BY DEF TypeInv, Sound, ChannelRecord, Event
<1>2. EnableWriting(ch) = [events |-> ch.events \cup {"write"}, index |-> "kAdded",
                           listed |-> ch.listed, inEpoll |-> TRUE]
  BY <1>1, SetSome DEF EnableWriting
<1>3. ch' = (IF rest # <<>> /\ ~IsWriting(ch) THEN EnableWriting(ch) ELSE ch)
  BY DEF Buffer
<1>4. PICK x \in Notices, y \in Notices : pending' = pending \o x \o y
  <2>1. <<>> \in Notices /\ Callback("writeComplete") \in Notices
                        /\ Callback("highWaterMark") \in Notices
    BY CallbackType DEF Notices
  <2>2. QED BY <2>1 DEF Buffer
<1>5. OnlyNotices
  BY <1>4, NoticesQueued
<1>6. QED BY <1>2, <1>3, <1>5 DEF Buffer

(* Units are taken in their order: what the kernel took and what waits for *)
(* it are extended by u, or nothing moves.                                 *)
Accepts(u) ==
  \/ UNCHANGED <<wire, output, ch>>
  \/ /\ state # "kDisconnected"
     /\ wire' \o output' = (wire \o output) \o u
     /\ \E x \in Seq(Units) : wire' = wire \o x

SendSummary(u) ==
  /\ wire' \in Seq(Units) /\ output' \in Seq(Units) /\ sock' \in Socket
  /\ sock'.fin = sock.fin
  /\ io' \in {io, "fault"}
  /\ OnlyNotices
  /\ \/ ch' = ch
     \/ ch' = [events |-> ch.events \cup {"write"}, index |-> "kAdded",
               listed |-> ch.listed, inEpoll |-> TRUE]
  /\ (output # <<>> <=> IsWriting(ch)) => (output' # <<>> <=> IsWriting(ch'))
  /\ Accepts(u)

LEMMA WriteFailsType == ASSUME TypeInv, WriteFails
  PROVE sock' \in Socket /\ sock'.fin = sock.fin /\ io' \in {io, "fault"}
  BY DEF TypeInv, WriteFails, Socket

LEMMA UnitsAssociative == \A a, b, c \in Seq(Units) : (a \o b) \o c = a \o (b \o c)
  BY ConcatAssociative

LEMMA SplitUnits ==
  ASSUME NEW u \in Seq(Units), NEW n \in 0 .. Len(u)
  PROVE  /\ SubSeq(u, 1, n) \in Seq(Units)
         /\ SubSeq(u, n + 1, Len(u)) \in Seq(Units)
         /\ SubSeq(u, 1, n) \o SubSeq(u, n + 1, Len(u)) = u
<1>1. Len(u) \in Nat
  BY LenProperties
<1>2. 1 \in 1 .. Len(u) + 1 /\ n \in 1 - 1 .. Len(u) /\ Len(u) \in n .. Len(u)
  BY <1>1
<1>3. SubSeq(u, 1, n) \o SubSeq(u, n + 1, Len(u)) = SubSeq(u, 1, Len(u))
  BY <1>2, ConcatAdjacentSubSeq
<1>4. SubSeq(u, 1, Len(u)) = u
  BY SubSeqFull
<1>5. SubSeq(u, 1, n) \in Seq(Units) /\ SubSeq(u, n + 1, Len(u)) \in Seq(Units)
  BY <1>1, SubSeqProperties
<1>6. QED BY <1>3, <1>4, <1>5

LEMMA SendStep ==
  ASSUME TypeInv, ch.index # "kNew",
         NEW m \in Messages \cup {Garbage}, SendInLoop(Unit(m))
  PROVE  SendSummary(Unit(m))
<1> DEFINE u == Unit(m)
<1>1. /\ u \in Seq(Units) /\ Len(u) \in Nat /\ u # <<>>
      /\ wire \in Seq(Units) /\ output \in Seq(Units) /\ sock \in Socket
  <2>1. u \in Seq(Units) /\ Len(u) = MessageSize /\ MessageSize \in Nat \ {0}
    BY UnitType, MessageAssumption
  <2>2. QED BY <2>1 DEF TypeInv
<1> HIDE DEF u
<1>2. CASE GiveUp
  BY <1>1, <1>2, NothingQueued DEF GiveUp, netVars, SendSummary, Accepts, u
<1>3. CASE state # "kDisconnected" /\ (IsWriting(ch) \/ output # <<>>)
           /\ Buffer(u) /\ UNCHANGED <<netVars, io>>
  <2>1. /\ output' = output \o u /\ OnlyNotices
        /\ ch' = IF ~IsWriting(ch)
                 THEN [events |-> ch.events \cup {"write"}, index |-> "kAdded",
                       listed |-> ch.listed, inEpoll |-> TRUE]
                 ELSE ch
    BY <1>1, <1>3, BufferStep
  <2>2. output' \in Seq(Units) /\ output' # <<>>
    BY <1>1, <2>1, ConcatProperties, ConcatEqualIffEmpty
  <2>3. IsWriting(ch')
    BY <2>1 DEF IsWriting
  <2>4. Accepts(u)
    <3>1. wire' = wire /\ wire = wire \o <<>> /\ <<>> \in Seq(Units)
      BY <1>1, <1>3, ConcatEmptySeq DEF netVars
    <3>2. wire \o (output \o u) = (wire \o output) \o u
      BY <1>1, UnitsAssociative
    <3>3. QED BY <1>3, <2>1, <3>1, <3>2 DEF Accepts
  <2>5. SendSummary(u)
    BY <1>1, <1>3, <2>1, <2>2, <2>3, <2>4 DEF SendSummary, netVars
  <2>6. QED BY <2>5 DEF u
<1>4. CASE state # "kDisconnected" /\ ~IsWriting(ch) /\ output = <<>> /\ WriteDirect(u)
  <2>1. ASSUME NEW n \in 0 .. Len(u),
               wire' = wire \o SubSeq(u, 1, n), Buffer(SubSeq(u, n + 1, Len(u))),
               UNCHANGED <<sock, io>>
        PROVE  SendSummary(u)
    <3> DEFINE a == SubSeq(u, 1, n)
               b == SubSeq(u, n + 1, Len(u))
    <3>1. a \in Seq(Units) /\ b \in Seq(Units) /\ a \o b = u
      BY <1>1, SplitUnits
    <3> HIDE DEF a, b
    <3>2. /\ output' = output \o b /\ OnlyNotices
          /\ ch' = IF b # <<>> /\ ~IsWriting(ch)
                   THEN [events |-> ch.events \cup {"write"}, index |-> "kAdded",
                         listed |-> ch.listed, inEpoll |-> TRUE]
                   ELSE ch
      <4>1. Buffer(b)
        BY <2>1 DEF b
      <4>2. QED BY <3>1, <4>1, BufferStep
    <3>3. output' = b /\ wire' = wire \o a
      BY <1>4, <2>1, <3>1, <3>2, ConcatEmptySeq DEF a
    <3>4. wire' \in Seq(Units)
      BY <1>1, <3>1, <3>3, ConcatProperties
    <3>5. Accepts(u)
      <4>1. (wire \o a) \o b = wire \o (a \o b)
        BY <1>1, <3>1, UnitsAssociative
      <4>2. wire \o output = wire
        <5>1. wire \o <<>> = wire
          BY <1>1, ConcatEmptySeq
        <5>2. QED BY <1>4, <5>1
      <4>3. QED BY <1>4, <3>1, <3>3, <4>1, <4>2 DEF Accepts
    <3>6. b # <<>> <=> IsWriting(ch')
      BY <1>4, <3>2 DEF IsWriting
    <3>7. QED BY <1>1, <2>1, <3>1, <3>2, <3>3, <3>4, <3>5, <3>6 DEF SendSummary
  <2>2. ASSUME WriteFails, UNCHANGED <<ch, output, pending, wire>>
        PROVE  SendSummary(u)
    BY <1>1, <2>2, WriteFailsType, NothingQueued DEF SendSummary, Accepts
  <2>3. ASSUME \E n \in 0 .. Len(u) :
                  wire' = wire \o SubSeq(u, 1, n) /\ Buffer(SubSeq(u, n + 1, Len(u))),
               UNCHANGED <<sock, io>>
        PROVE  SendSummary(u)
    <3>1. PICK n \in 0 .. Len(u) :
                  wire' = wire \o SubSeq(u, 1, n) /\ Buffer(SubSeq(u, n + 1, Len(u)))
      BY <2>3
    <3>2. QED BY <2>1, <2>3, <3>1
  <2>4. SendSummary(u)
    BY <1>4, <2>2, <2>3 DEF WriteDirect
  <2>5. QED BY <2>4 DEF u
<1>5. QED BY <1>2, <1>3, <1>4 DEF SendInLoop, u

-----------------------------------------------------------------------------
(* The invariant.                                                          *)

(* connectEstablished, and nothing behind it. *)
First(s) ==
  /\ s # <<>> /\ Head(s).fn = "connectEstablished"
  /\ ~Has(Tail(s), "connectEstablished")

(* Until the user is told of the connection connectEstablished is the next *)
(* functor and nobody knows the connection; afterwards it is never queued. *)
FreshInv ==
  IF told = "new"
  THEN /\ state = "kConnecting" /\ ch = NewChannel /\ output = <<>> /\ wire = <<>>
       /\ io = "loop" /\ revents = {}
       /\ \A w \in Workers : worker[w].at = "none"
       /\ \/ functors = <<>> /\ First(pending)
          \/ First(functors) /\ ~Has(pending, "connectEstablished")
  ELSE /\ state # "kConnecting" /\ ch.index # "kNew"
       /\ ~Has(pending, "connectEstablished") /\ ~Has(functors, "connectEstablished")

(* The channel is added while handleClose or connectDestroyed may still    *)
(* call disableAll, which would add a deleted one.                         *)
ChannelInv ==
  /\ "HUP" \in revents \/ "IN" \in revents => ch.index = "kAdded"
  /\ state = "kConnected" =>
       ch.index = "kAdded" /\ "read" \in ch.events /\ ch.listed /\ told = "up"
  /\ functors # <<>> => revents = {}
  /\ io = "destroying" => revents = {} /\ state # "kConnected"

DestroyQueued == Has(pending, "connectDestroyed") \/ Has(functors, "connectDestroyed")

(* While the user has not been told of the end only the end of the server  *)
(* can remove the connection.                                              *)
UpInv ==
  /\ told \in {"new", "up"} =>
       removals = 0 /\ (DestroyQueued => server = "destroyed")
  /\ told = "up" =>
       /\ state \in {"kConnected", "kDisconnecting"}
       /\ io \notin {"closing", "destroying"}
       /\ ~ch.listed => EndedInShutdown

(* A channel in the poller will be removed: the map has the connection, or *)
(* connectDestroyed is queued or runs.                                     *)
KeepInv ==
  ch.listed \/ told = "new" => inMap \/ DestroyQueued \/ io = "destroying"

ConnInv == TypeInv /\ FreshInv /\ ChannelInv /\ UpInv /\ KeepInv /\ WaitingIsWatched

LEMMA InitInv == Init => ConnInv
<1> SUFFICES ASSUME Init PROVE ConnInv
  OBVIOUS
<1>1. /\ state = "kConnecting" /\ ch = NewChannel /\ output = <<>> /\ wire = <<>>
      /\ io = "loop" /\ revents = {} /\ functors = <<>> /\ told = "new"
      /\ inMap = TRUE /\ removals = 0 /\ server = "running" /\ unsent = Messages
      /\ spent = FALSE
  BY DEF Init
<1>2. Fn("connectEstablished") \in Functor /\ Fn("connectEstablished").fn = "connectEstablished"
  BY FnType DEF Fn
<1>3. pending \in Seq(Functor) /\ pending # <<>> /\ Head(pending) = Fn("connectEstablished")
      /\ Tail(pending) = <<>>
  BY <1>2 DEF Init
<1>4. First(pending)
  BY <1>2, <1>3, HasEmpty DEF First
<1>5. \A w \in Workers : worker[w] = Idle
  BY DEF Init
<1>6. <<>> \in Seq(Units) /\ <<>> \in Seq(Functor)
  OBVIOUS
<1>7. TypeInv
  <2>1. Idle \in Task
    BY DEF Idle, Task
  <2>2. worker \in [Workers -> Task]
    BY <2>1 DEF Init
  <2>3. sock \in Socket
    BY DEF Init, Socket
  <2>4. QED BY <1>1, <1>3, <1>6, <2>2, <2>3, NewSound DEF TypeInv
<1>8. FreshInv
  BY <1>1, <1>4, <1>5 DEF FreshInv, Idle
<1>9. ~DestroyQueued
  BY <1>1, <1>2, <1>3, HasEmpty, HasTail DEF DestroyQueued
<1>10. ChannelInv /\ UpInv /\ KeepInv /\ WaitingIsWatched
  BY <1>1, <1>9 DEF ChannelInv, UpInv, KeepInv, WaitingIsWatched, NewChannel
<1>11. QED BY <1>7, <1>8, <1>10 DEF ConnInv

-----------------------------------------------------------------------------
(* Steps that concern neither the channel nor what the user was told.      *)

LEMMA NotNew ==
  ASSUME ConnInv,
         ch.index # "kNew" \/ io # "loop" \/ revents # {} \/ state # "kConnecting"
           \/ \E w \in Workers : worker[w].at # "none"
  PROVE  /\ told # "new" /\ state # "kConnecting" /\ ch.index # "kNew"
         /\ ~Has(pending, "connectEstablished") /\ ~Has(functors, "connectEstablished")
  BY DEF ConnInv, FreshInv, NewChannel

(* What is read of the channel by the properties is unchanged. *)
LEMMA PollStep == ASSUME ConnInv, NEW writable \in BOOLEAN, Poll(writable) PROVE ConnInv'
<1>1. /\ functors = <<>> /\ io = "loop" /\ ch.inEpoll
      /\ revents' \subseteq {"HUP", "ERR", "IN", "OUT"}
      /\ UNCHANGED <<state, ch, output, pending, functors, spent, inMap, removals, server,
                     wire, sock, worker, unsent, io, told>>
  BY DEF Poll, connVars, loopVars, serverVars, netVars, userVars
<1>2. ch.index = "kAdded"
  BY <1>1 DEF ConnInv, TypeInv, Sound
<1>3. told # "new"
  BY <1>2, NotNew
<1>4. TypeInv'
  BY <1>1 DEF ConnInv, TypeInv
<1>5. FreshInv'
  BY <1>1, <1>3 DEF ConnInv, FreshInv
<1>6. ChannelInv'
  BY <1>1, <1>2 DEF ConnInv, ChannelInv
<1>7. UpInv' /\ KeepInv' /\ WaitingIsWatched'
  BY <1>1 DEF ConnInv, UpInv, KeepInv, DestroyQueued, EndedInShutdown, WaitingIsWatched
<1>8. QED BY <1>4, <1>5, <1>6, <1>7 DEF ConnInv

LEMMA QuietStep ==
  ASSUME ConnInv, EventErr \/ EndBatch \/ UserReturns \/ PeerStep
  PROVE  ConnInv'
<1>1. /\ UNCHANGED <<state, ch, output, pending, functors, inMap, removals, server,
                     wire, worker, unsent, told>>
      /\ revents' \subseteq revents
      /\ spent' \in {spent, FALSE}
      /\ io' = io \/ (io \in {"up", "message", "notified"} /\ io' = "loop")
  BY DEF EventErr, Dispatch, EndBatch, UserReturns, PeerStep,
         connVars, loopVars, ioVars, serverVars, netVars, userVars
<1>2. sock' \in Socket
  <2>1. sock \in Socket
    BY DEF ConnInv, TypeInv
  <2>2. CASE EventErr
    BY <2>1, <2>2 DEF EventErr, Socket
  <2>3. CASE EndBatch \/ UserReturns
    BY <2>1, <2>3 DEF EndBatch, UserReturns, netVars
  <2>4. CASE PeerStep
    BY <2>1, <2>4 DEF PeerStep, PeerSends, PeerCloses, PeerResets, Socket
  <2>5. QED BY <2>2, <2>3, <2>4
<1>3. TypeInv'
  BY <1>1, <1>2 DEF ConnInv, TypeInv
<1>4. FreshInv'
  BY <1>1 DEF ConnInv, FreshInv
<1>5. ChannelInv'
  BY <1>1 DEF ConnInv, ChannelInv
<1>6. UpInv' /\ KeepInv' /\ WaitingIsWatched'
  BY <1>1 DEF ConnInv, UpInv, KeepInv, DestroyQueued, EndedInShutdown, WaitingIsWatched
<1>7. QED BY <1>3, <1>4, <1>5, <1>6 DEF ConnInv

(* The batch takes over what was queued. *)
LEMMA SwapStep == ASSUME ConnInv, Swap PROVE ConnInv'
<1>1. /\ io = "loop" /\ revents = {} /\ functors = <<>>
      /\ functors' = pending /\ pending' = <<>>
      /\ UNCHANGED <<state, ch, output, spent, io, revents, inMap, removals, server,
                     wire, sock, worker, unsent, told>>
  BY DEF Swap, connVars, ioVars, serverVars, netVars, userVars
<1>2. \A n \in Calls : /\ Has(functors', n) <=> Has(pending, n)
                       /\ ~Has(pending', n) /\ ~Has(functors, n)
  BY <1>1, HasEmpty
<1>3. TypeInv'
  <2>1. <<>> \in Seq(Functor)
    OBVIOUS
  <2>2. QED BY <1>1, <2>1 DEF ConnInv, TypeInv
<1>4. FreshInv'
  BY <1>1, <1>2 DEF ConnInv, FreshInv, Calls, First
<1>5. ChannelInv'
  BY <1>1 DEF ConnInv, ChannelInv
<1>6. DestroyQueued' <=> DestroyQueued
  BY <1>2 DEF DestroyQueued, Calls
<1>7. UpInv' /\ KeepInv' /\ WaitingIsWatched'
  BY <1>1, <1>6 DEF ConnInv, UpInv, KeepInv, EndedInShutdown, WaitingIsWatched
<1>8. QED BY <1>3, <1>4, <1>5, <1>7 DEF ConnInv

-----------------------------------------------------------------------------
(* The handlers of events.                                                 *)

(* handleClose, from an event after which nothing is left to close. *)
LEMMA CloseStep ==
  ASSUME ConnInv, HandleClose, io = "loop", revents # {},
         "HUP" \in revents \/ "IN" \in revents,
         revents' \subseteq {"ERR", "OUT"},
         UNCHANGED <<output, pending, functors, spent, inMap, removals, server,
                     wire, sock, worker, unsent>>
  PROVE  ConnInv'
<1>1. ch.index = "kAdded" /\ Sound(ch) /\ functors = <<>>
  BY DEF ConnInv, ChannelInv, TypeInv
<1>2. told # "new" /\ ~Has(pending, "connectEstablished") /\ ~Has(functors, "connectEstablished")
  BY NotNew
<1>3. /\ ch' = [events |-> {}, index |-> "kDeleted", listed |-> ch.listed, inEpoll |-> FALSE]
      /\ state' = "kDisconnected" /\ io' = "closing"
      /\ told' \in {"down", "down again"}
  BY <1>1, SetNone DEF HandleClose, DisableAll, TellDown
<1>4. Sound(ch')
  BY <1>1, <1>3 DEF Sound, ChannelRecord
<1>5. TypeInv'
  BY <1>3, <1>4 DEF ConnInv, TypeInv, UserPhase
<1>6. FreshInv'
  BY <1>2, <1>3 DEF FreshInv
<1>7. ChannelInv'
  BY <1>1, <1>3 DEF ChannelInv
<1>8. KeepInv'
  <2>1. io # "destroying"
    OBVIOUS
  <2>2. QED BY <1>2, <1>3, <2>1 DEF ConnInv, KeepInv, DestroyQueued
<1>9. UpInv' /\ WaitingIsWatched'
  BY <1>3 DEF UpInv, WaitingIsWatched
<1>10. QED BY <1>5, <1>6, <1>7, <1>8, <1>9 DEF ConnInv

LEMMA EventHupStep == ASSUME ConnInv, EventHup PROVE ConnInv'
<1>1. /\ io = "loop" /\ "HUP" \in revents /\ revents' = revents \ {"HUP"}
      /\ revents \subseteq {"HUP", "ERR", "IN", "OUT"}
      /\ UNCHANGED <<output, pending, functors, spent, inMap, removals, server,
                     wire, sock, worker, unsent>>
  BY DEF EventHup, Dispatch, loopVars, serverVars, netVars, userVars, ConnInv, TypeInv
<1>2. CASE "IN" \notin revents
  <2>1. HandleClose /\ revents' \subseteq {"ERR", "OUT"}
    BY <1>1, <1>2 DEF EventHup
  <2>2. QED BY <1>1, <2>1, CloseStep
<1>3. CASE "IN" \in revents
  <2>1. UNCHANGED <<state, ch, told, io>>
    BY <1>3 DEF EventHup
  <2>2. told # "new"
    BY <1>1, NotNew
  <2>3. TypeInv' /\ FreshInv'
    BY <1>1, <2>1, <2>2 DEF ConnInv, TypeInv, FreshInv
  <2>4. ChannelInv' /\ UpInv' /\ KeepInv' /\ WaitingIsWatched'
    BY <1>1, <1>3, <2>1
    DEF ConnInv, ChannelInv, UpInv, KeepInv, DestroyQueued, EndedInShutdown, WaitingIsWatched
  <2>5. QED BY <2>3, <2>4 DEF ConnInv
<1>4. QED BY <1>2, <1>3

LEMMA EventInStep == ASSUME ConnInv, EventIn PROVE ConnInv'
<1>1. /\ io = "loop" /\ "IN" \in revents /\ revents' \subseteq {"OUT"}
      /\ functors = <<>>
      /\ UNCHANGED <<output, pending, functors, spent, inMap, removals, server,
                     wire, worker, unsent>>
  BY DEF EventIn, Dispatch, loopVars, serverVars, userVars, ConnInv, TypeInv, ChannelInv
<1>2. CASE HandleClose /\ UNCHANGED sock
  BY <1>1, <1>2, CloseStep
<1>3. CASE UNCHANGED <<state, ch, told>> /\ sock' \in Socket /\ io' \in {"loop", "message"}
  <2>1. told # "new"
    BY <1>1, NotNew
  <2>2. TypeInv'
    BY <1>1, <1>3 DEF ConnInv, TypeInv, UserPhase
  <2>3. FreshInv' /\ ChannelInv'
    BY <1>1, <1>3, <2>1 DEF ConnInv, FreshInv, ChannelInv
  <2>4. UpInv' /\ KeepInv' /\ WaitingIsWatched'
    BY <1>1, <1>3
    DEF ConnInv, UpInv, KeepInv, DestroyQueued, EndedInShutdown, WaitingIsWatched
  <2>5. QED BY <2>2, <2>3, <2>4 DEF ConnInv
<1>4. sock \in Socket
  BY DEF ConnInv, TypeInv
<1>5. QED BY <1>1, <1>2, <1>3, <1>4 DEF EventIn, Socket

LEMMA OneCallback ==
  ASSUME TypeInv, NEW name \in {"writeComplete", "highWaterMark"},
         pending' = pending \o Callback(name)
  PROVE  OnlyNotices
<1>1. pending \in Seq(Functor) /\ Callback(name) \in Notices /\ Callback(name) \in Seq(Functor)
  BY CallbackType, NoticesType DEF TypeInv
<1>2. pending' = pending \o Callback(name) \o <<>>
  BY <1>1, ConcatProperties, ConcatEmptySeq
<1>3. <<>> \in Notices
  BY DEF Notices
<1>4. QED BY <1>1, <1>2, <1>3, NoticesQueued

LEMMA ShutdownWriteType == ASSUME TypeInv, ShutdownWrite PROVE sock' \in Socket
  BY DEF TypeInv, ShutdownWrite, Socket

(* handleWrite stops watching when, and only when, nothing waits.          *)
LEMMA EventOutStep == ASSUME ConnInv, EventOut PROVE ConnInv'
<1>1. /\ io = "loop" /\ revents # {} /\ revents' = {} /\ functors = <<>>
      /\ TypeInv
      /\ UNCHANGED <<state, functors, spent, inMap, removals, server, worker, unsent, told>>
  BY DEF EventOut, Dispatch, serverVars, userVars, ConnInv, TypeInv, ChannelInv
<1>2. told # "new" /\ ch.index # "kNew" /\ state # "kConnecting"
      /\ ~Has(pending, "connectEstablished") /\ ~Has(functors, "connectEstablished")
  BY <1>1, NotNew
<1>3. sock \in Socket
  BY <1>1 DEF TypeInv
<1>4. CASE /\ wire' \in Seq(Units) /\ output' \in Seq(Units) /\ sock' \in Socket
           /\ io' \in {io, "fault"}
           /\ OnlyNotices
           /\ Sound(ch') /\ ch'.index # "kNew" /\ ch'.listed = ch.listed
           /\ "read" \in ch.events => "read" \in ch'.events
           /\ (output # <<>> <=> IsWriting(ch)) => (output' # <<>> <=> IsWriting(ch'))
  <2>1. TypeInv'
    BY <1>1, <1>4 DEF TypeInv, OnlyNotices
  <2>2. FreshInv'
    BY <1>1, <1>2, <1>4 DEF FreshInv, OnlyNotices, Calls
  <2>3. ChannelInv'
    <3>1. state = "kConnected" => ch'.index = "kAdded" /\ "read" \in ch'.events
      BY <1>4 DEF Sound, ConnInv, ChannelInv
    <3>2. QED BY <1>1, <1>4, <3>1 DEF ConnInv, ChannelInv
  <2>4. DestroyQueued' <=> DestroyQueued
    BY <1>1, <1>4 DEF DestroyQueued, OnlyNotices, Calls
  <2>5. UpInv' /\ KeepInv'
    BY <1>1, <1>2, <1>4, <2>4 DEF ConnInv, UpInv, KeepInv, EndedInShutdown
  <2>6. WaitingIsWatched'
    BY <1>1, <1>4 DEF ConnInv, WaitingIsWatched
  <2>7. QED BY <2>1, <2>2, <2>3, <2>5, <2>6 DEF ConnInv
<1>5. CASE UNCHANGED <<ch, output, pending, netVars, io>>
  <2>1. OnlyNotices
    BY <1>1, <1>5, NothingQueued
  <2>2. QED BY <1>1, <1>2, <1>3, <1>4, <1>5, <2>1 DEF TypeInv, netVars
<1>6. CASE WriteFails /\ UNCHANGED <<ch, output, pending, wire>>
  <2>1. OnlyNotices
    BY <1>1, <1>6, NothingQueued
  <2>2. QED BY <1>1, <1>2, <1>4, <1>6, <2>1, WriteFailsType DEF TypeInv
<1>7. ASSUME IsWriting(ch), NEW n \in 1 .. Len(output),
             wire' = wire \o SubSeq(output, 1, n),
             output' = SubSeq(output, n + 1, Len(output)),
             IF output' = <<>>
             THEN /\ ch' = DisableWriting(ch)
                  /\ pending' = pending \o Callback("writeComplete")
                  /\ IF state = "kDisconnecting" THEN ShutdownWrite ELSE UNCHANGED sock
             ELSE UNCHANGED <<ch, pending, sock>>,
             UNCHANGED io
      PROVE  ConnInv'
  <2>1. wire' \in Seq(Units) /\ output' \in Seq(Units)
    <3>1. output \in Seq(Units) /\ wire \in Seq(Units)
      BY <1>1 DEF TypeInv
    <3>2. SubSeq(output, 1, n) \in Seq(Units) /\ output' \in Seq(Units)
      BY <1>7, <3>1, SubSeqProperties, LenProperties
    <3>3. QED BY <1>7, <3>1, <3>2, ConcatProperties
  <2>2. CASE output' = <<>>
    <3>1. sock' \in Socket
      BY <1>1, <1>3, <1>7, <2>2, ShutdownWriteType
    <3>2. OnlyNotices
      BY <1>1, <1>7, <2>2, OneCallback
    <3>3. /\ Sound(ch) /\ ch.index = "kAdded" /\ ch.listed \in BOOLEAN
          /\ ch.events \ {"write"} \in SUBSET Event
      BY <1>1, <1>7 DEF TypeInv, Sound, ChannelRecord, IsWriting
    <3>4. ch' = SetEvents(ch, ch.events \ {"write"})
      BY <1>7, <2>2 DEF DisableWriting
    <3>5. CASE ch.events \ {"write"} = {}
      <4>1. ch' = [events |-> {}, index |-> "kDeleted", listed |-> ch.listed, inEpoll |-> FALSE]
        BY <3>3, <3>4, <3>5, SetNone
      <4>2. Sound(ch') /\ ch'.index # "kNew" /\ ch'.listed = ch.listed /\ ~IsWriting(ch')
        BY <3>3, <4>1 DEF Sound, ChannelRecord, IsWriting
      <4>3. "read" \notin ch.events
        BY <3>5
      <4>4. QED BY <1>4, <1>7, <2>1, <2>2, <3>1, <3>2, <4>2, <4>3
    <3>6. CASE ch.events \ {"write"} # {}
      <4>1. ch' = [events |-> ch.events \ {"write"}, index |-> "kAdded",
                   listed |-> ch.listed, inEpoll |-> TRUE]
        BY <3>3, <3>4, <3>6, SetSome
      <4>2. Sound(ch') /\ ch'.index # "kNew" /\ ch'.listed = ch.listed /\ ~IsWriting(ch')
        BY <3>3, <3>6, <4>1 DEF Sound, ChannelRecord, IsWriting
      <4>3. "read" \in ch.events => "read" \in ch'.events
        BY <4>1
      <4>4. QED BY <1>4, <1>7, <2>1, <2>2, <3>1, <3>2, <4>2, <4>3
    <3>7. QED BY <3>5, <3>6
  <2>3. CASE output' # <<>>
    <3>1. UNCHANGED <<ch, pending, sock>> /\ OnlyNotices
      BY <1>1, <1>7, <2>3, NothingQueued
    <3>2. QED BY <1>1, <1>2, <1>3, <1>4, <1>7, <2>1, <2>3, <3>1 DEF TypeInv
  <2>4. QED BY <2>2, <2>3
<1>8. CASE /\ IsWriting(ch) /\ CanWrite
           /\ \E n \in 1 .. Len(output) :
                /\ wire' = wire \o SubSeq(output, 1, n)
                /\ output' = SubSeq(output, n + 1, Len(output))
           /\ IF output' = <<>>
              THEN /\ ch' = DisableWriting(ch)
                   /\ pending' = pending \o Callback("writeComplete")
                   /\ IF state = "kDisconnecting" THEN ShutdownWrite ELSE UNCHANGED sock
              ELSE UNCHANGED <<ch, pending, sock>>
           /\ UNCHANGED io
  BY <1>7, <1>8
<1>9. QED BY <1>5, <1>6, <1>8 DEF EventOut

-----------------------------------------------------------------------------
(* The functors.                                                           *)

(* The functor that runs leaves the batch; connectEstablished runs when    *)
(* the user was told nothing, and nothing else does.                       *)
LEMMA RunsFacts ==
  ASSUME ConnInv, NEW name, Runs(name)
  PROVE  /\ io = "loop" /\ revents = {}
         /\ functors # <<>> /\ Head(functors) \in Functor /\ Head(functors).fn = name
         /\ functors' \in Seq(Functor) /\ spent' \in BOOLEAN
         /\ \A n \in Calls : Has(functors, n) <=> name = n \/ Has(functors', n)
         /\ told = "new" <=> name = "connectEstablished"
         /\ ~Has(functors', "connectEstablished") /\ ~Has(pending, "connectEstablished")
<1>1. /\ io = "loop" /\ functors # <<>> /\ functors \in Seq(Functor)
      /\ Head(functors).fn = name /\ functors' = Tail(functors)
      /\ spent' = (spent \/ HoldsRef(Head(functors))) /\ spent \in BOOLEAN
  BY DEF Runs, ConnInv, TypeInv
<1>2. revents = {}
  BY <1>1 DEF ConnInv, ChannelInv
<1>3. Head(functors) \in Functor /\ functors' \in Seq(Functor)
  BY <1>1, HeadTailProperties
<1>4. \A n \in Calls : Has(functors, n) <=> name = n \/ Has(functors', n)
  BY <1>1, HasTail
<1>5. spent' \in BOOLEAN
  BY <1>1 DEF HoldsRef
<1>6. CASE told = "new"
  <2>1. First(functors) /\ ~Has(pending, "connectEstablished")
    BY <1>1, <1>6 DEF ConnInv, FreshInv
  <2>2. QED BY <1>1, <1>2, <1>3, <1>4, <1>5, <1>6, <2>1 DEF First
<1>7. CASE told # "new"
  <2>1. ~Has(functors, "connectEstablished") /\ ~Has(pending, "connectEstablished")
    BY <1>7 DEF ConnInv, FreshInv
  <2>2. QED BY <1>1, <1>2, <1>3, <1>4, <1>5, <1>7, <2>1 DEF Calls
<1>8. QED BY <1>6, <1>7

LEMMA RunEstablishedStep == ASSUME ConnInv, RunEstablished PROVE ConnInv'
<1>1. /\ Runs("connectEstablished")
      /\ state' = "kConnected" /\ told' = "up" /\ io' = "up"
      /\ ch' = SetEvents(ch, ch.events \cup {"read"})
      /\ UNCHANGED <<output, pending, revents, inMap, removals, server, wire, sock,
                     worker, unsent>>
  BY DEF RunEstablished, EnableReading, serverVars, netVars, userVars
<1>2. /\ revents = {} /\ told = "new" /\ functors' \in Seq(Functor) /\ spent' \in BOOLEAN
      /\ ~Has(functors', "connectEstablished") /\ ~Has(pending, "connectEstablished")
      /\ Has(functors', "connectDestroyed") <=> Has(functors, "connectDestroyed")
  BY <1>1, RunsFacts DEF Calls
<1>3. ch = NewChannel /\ output = <<>>
  BY <1>2 DEF ConnInv, FreshInv
<1>4. ch' = [events |-> {"read"}, index |-> "kAdded", listed |-> TRUE, inEpoll |-> TRUE]
  <2>1. ch.events \cup {"read"} = {"read"} /\ ch.index = "kNew" /\ ~ch.listed
    BY <1>3 DEF NewChannel
  <2>2. Sound(ch) /\ {"read"} \in SUBSET Event /\ {"read"} # {}
    BY <1>3, NewSound DEF Event
  <2>3. SetEvents(ch, {"read"}) = [events |-> {"read"}, index |-> "kAdded",
          listed |-> ch.listed \/ ch.index = "kNew", inEpoll |-> TRUE]
    BY <2>2, SetSome
  <2>4. (ch.listed \/ ch.index = "kNew") = TRUE
    BY <2>1
  <2>5. QED BY <1>1, <2>1, <2>3, <2>4
<1>5. Sound(ch')
  BY <1>4 DEF Sound, ChannelRecord, Event
<1>6. TypeInv'
  BY <1>1, <1>2, <1>5 DEF ConnInv, TypeInv, UserPhase
<1>7. ch'.index = "kAdded" /\ "read" \in ch'.events /\ ch'.listed /\ ~IsWriting(ch')
  BY <1>4 DEF IsWriting
<1>8. FreshInv'
  BY <1>1, <1>2, <1>7 DEF FreshInv
<1>9. ChannelInv'
  BY <1>1, <1>2, <1>7 DEF ChannelInv
<1>10. UpInv' /\ KeepInv'
  <2>1. DestroyQueued' <=> DestroyQueued
    BY <1>1, <1>2 DEF DestroyQueued
  <2>2. removals = 0 /\ (DestroyQueued => server = "destroyed") /\ (inMap \/ DestroyQueued)
    BY <1>1, <1>2, RunsFacts DEF ConnInv, UpInv, KeepInv
  <2>3. QED BY <1>1, <1>7, <2>1, <2>2 DEF UpInv, KeepInv
<1>11. WaitingIsWatched'
  BY <1>1, <1>3, <1>7 DEF WaitingIsWatched
<1>12. QED BY <1>6, <1>8, <1>9, <1>10, <1>11 DEF ConnInv

(* connectDestroyed with a connection that is up: down, and told. *)
LEMMA RunDestroyedStep == ASSUME ConnInv, RunDestroyed PROVE ConnInv'
<1>1. /\ Runs("connectDestroyed")
      /\ UNCHANGED <<output, pending, revents, inMap, removals, server, wire, sock,
                     worker, unsent>>
  BY DEF RunDestroyed, serverVars, netVars, userVars
<1>2. /\ revents = {} /\ io = "loop" /\ functors' \in Seq(Functor) /\ spent' \in BOOLEAN
      /\ told # "new" /\ DestroyQueued
      /\ ~Has(functors', "connectEstablished") /\ ~Has(pending, "connectEstablished")
      /\ DestroyQueued' => DestroyQueued
  BY <1>1, RunsFacts DEF Calls, DestroyQueued
<1>3. Sound(ch) /\ ch.index # "kNew" /\ state # "kConnecting" /\ ch.listed \in BOOLEAN
  BY <1>2 DEF ConnInv, TypeInv, FreshInv, Sound, ChannelRecord
<1>4. CASE state = "kConnected"
  <2>1. ch.index = "kAdded"
    BY <1>4 DEF ConnInv, ChannelInv
  <2>2. /\ ch' = [events |-> {}, index |-> "kDeleted", listed |-> ch.listed, inEpoll |-> FALSE]
        /\ state' = "kDisconnected" /\ told' \in {"down", "down again"} /\ io' = "destroying"
    BY <1>3, <1>4, <2>1, SetNone DEF RunDestroyed, DisableAll, TellDown
  <2>3. Sound(ch') /\ ch'.index # "kNew"
    BY <1>3, <2>2 DEF Sound, ChannelRecord
  <2>4. TypeInv'
    BY <1>1, <1>2, <2>2, <2>3 DEF ConnInv, TypeInv, UserPhase
  <2>5. FreshInv' /\ ChannelInv'
    BY <1>1, <1>2, <2>2, <2>3 DEF FreshInv, ChannelInv
  <2>6. UpInv' /\ KeepInv' /\ WaitingIsWatched'
    BY <2>2 DEF UpInv, KeepInv, WaitingIsWatched
  <2>7. QED BY <2>4, <2>5, <2>6 DEF ConnInv
<1>5. CASE state # "kConnected"
  <2>1. /\ ch' = [events |-> {}, index |-> "kDeleted", listed |-> FALSE, inEpoll |-> FALSE]
        /\ UNCHANGED <<state, told, io>>
    BY <1>3, <1>5, RemoveAny DEF RunDestroyed
  <2>2. Sound(ch') /\ ch'.index # "kNew" /\ ~ch'.listed
    BY <2>1 DEF Sound, ChannelRecord
  <2>3. TypeInv'
    BY <1>1, <1>2, <2>1, <2>2 DEF ConnInv, TypeInv
  <2>4. FreshInv' /\ ChannelInv'
    BY <1>1, <1>2, <1>3, <1>5, <2>1, <2>2 DEF FreshInv, ChannelInv
  <2>5. UpInv'
    <3>1. told = "up" => EndedInShutdown'
      BY <1>1, <1>2, <1>5, <2>1 DEF ConnInv, UpInv, EndedInShutdown
    <3>2. QED BY <1>1, <1>2, <1>5, <2>1, <3>1 DEF ConnInv, UpInv
  <2>6. KeepInv' /\ WaitingIsWatched'
    BY <1>2, <2>1, <2>2 DEF KeepInv, WaitingIsWatched
  <2>7. QED BY <2>3, <2>4, <2>5, <2>6 DEF ConnInv
<1>6. QED BY <1>4, <1>5

(* A step in which units are accepted, or none, keeps the invariant. *)
LEMMA SendKeeps ==
  ASSUME ConnInv, told # "new", NEW u, SendSummary(u),
         io' = io \/ io # "destroying",
         functors' \in Seq(Functor), spent' \in BOOLEAN,
         \A n \in Calls : Has(functors', n) <=> Has(functors, n),
         functors # <<>> \/ functors' = <<>>,
         unsent' \subseteq Messages,
         UNCHANGED <<state, revents, inMap, removals, server, worker, told>>
  PROVE  ConnInv'
<1>1. /\ Sound(ch) /\ ch.index # "kNew" /\ state # "kConnecting" /\ ch.listed \in BOOLEAN
      /\ ~Has(pending, "connectEstablished") /\ ~Has(functors, "connectEstablished")
  BY DEF ConnInv, TypeInv, FreshInv, Sound, ChannelRecord
<1>2. /\ Sound(ch') /\ ch'.index # "kNew" /\ ch'.listed = ch.listed
      /\ ch.index = "kAdded" => ch'.index = "kAdded"
      /\ "read" \in ch.events => "read" \in ch'.events
  <2>1. CASE ch' = ch
    BY <1>1, <2>1
  <2>2. CASE ch' = [events |-> ch.events \cup {"write"}, index |-> "kAdded",
                    listed |-> ch.listed, inEpoll |-> TRUE]
    BY <1>1, <2>2 DEF Sound, ChannelRecord, Event
  <2>3. QED BY <2>1, <2>2 DEF SendSummary
<1>3. TypeInv'
  BY <1>2 DEF ConnInv, TypeInv, SendSummary, OnlyNotices
<1>4. FreshInv'
  BY <1>1, <1>2 DEF FreshInv, SendSummary, OnlyNotices, Calls
<1>5. ChannelInv'
  BY <1>2 DEF ConnInv, ChannelInv, SendSummary
<1>6. DestroyQueued' <=> DestroyQueued
  BY DEF DestroyQueued, SendSummary, OnlyNotices, Calls
<1>7. UpInv'
  BY <1>2, <1>6 DEF ConnInv, UpInv, EndedInShutdown, SendSummary
<1>8. KeepInv'
  BY <1>2, <1>6 DEF ConnInv, KeepInv, SendSummary
<1>9. WaitingIsWatched'
  BY <1>2 DEF ConnInv, WaitingIsWatched, SendSummary
<1>10. QED BY <1>3, <1>4, <1>5, <1>7, <1>8, <1>9 DEF ConnInv

(* A functor that neither sends nor calls connectEstablished or Destroyed. *)
LEMMA FunctorKeeps ==
  ASSUME ConnInv, NEW name, Runs(name), name \notin Calls,
         sock' \in Socket, io' \in {"loop", "notified", "fault"},
         UNCHANGED <<state, ch, output, pending, revents, inMap, removals, server,
                     wire, worker, unsent, told>>
  PROVE  ConnInv'
<1>1. /\ io = "loop" /\ revents = {} /\ functors' \in Seq(Functor) /\ spent' \in BOOLEAN
      /\ told # "new"
      /\ \A n \in Calls : Has(functors', n) <=> Has(functors, n)
  BY RunsFacts DEF Calls
<1>2. DestroyQueued' <=> DestroyQueued
  BY <1>1 DEF DestroyQueued, Calls
<1>3. TypeInv'
  BY <1>1 DEF ConnInv, TypeInv, UserPhase
<1>4. FreshInv'
  BY <1>1 DEF ConnInv, FreshInv, Calls
<1>5. ChannelInv'
  BY <1>1 DEF ConnInv, ChannelInv
<1>6. UpInv' /\ KeepInv' /\ WaitingIsWatched'
  BY <1>1, <1>2 DEF ConnInv, UpInv, KeepInv, EndedInShutdown, WaitingIsWatched
<1>7. QED BY <1>3, <1>4, <1>5, <1>6 DEF ConnInv

LEMMA RunSendStep == ASSUME ConnInv, RunSend PROVE ConnInv'
<1> DEFINE f == Head(functors)
<1>1. /\ Runs("sendInLoop")
      /\ UNCHANGED <<state, revents, inMap, removals, server, worker, unsent, told>>
  BY DEF RunSend, serverVars, userVars
<1>2. /\ functors # <<>> /\ functors' \in Seq(Functor) /\ spent' \in BOOLEAN
      /\ io = "loop" /\ told # "new" /\ f.msg \in Messages
      /\ \A n \in Calls : Has(functors', n) <=> Has(functors, n)
  <2>1. f \in Functor /\ f.fn = "sendInLoop"
    BY <1>1, RunsFacts
  <2>2. f.msg \in Messages
    BY <2>1 DEF Functor
  <2>3. QED BY <1>1, <2>2, RunsFacts DEF Calls
<1>3. sock \in Socket /\ unsent \subseteq Messages /\ TypeInv /\ ch.index # "kNew"
  BY <1>2 DEF ConnInv, TypeInv, FreshInv
<1>4. CASE Alive
  <2>1. PICK m \in {f.msg, Garbage} : SendInLoop(Unit(m))
    BY <1>4 DEF RunSend
  <2>2. m \in Messages \cup {Garbage}
    BY <1>2, <2>1
  <2>3. SendSummary(Unit(m))
    BY <1>3, <2>1, <2>2, SendStep
  <2> DEFINE u == Unit(m)
  <2> HIDE DEF u
  <2>4. SendSummary(u)
    BY <2>3 DEF u
  <2>5. QED BY <1>1, <1>2, <1>3, <2>4, SendKeeps
<1>5. CASE ~Alive
  <2>1. /\ io' = "fault"
        /\ UNCHANGED <<ch, output, pending, wire, sock>>
    BY <1>5 DEF RunSend, netVars
  <2>2. "sendInLoop" \notin Calls
    BY DEF Calls
  <2>3. QED BY <1>1, <1>3, <2>1, <2>2, FunctorKeeps
<1>6. QED BY <1>4, <1>5

LEMMA RunOtherStep == ASSUME ConnInv, RunShutdown \/ RunCallback PROVE ConnInv'
<1>1. sock \in Socket /\ TypeInv
  BY DEF ConnInv, TypeInv
<1>2. "shutdownInloop" \notin Calls /\ "writeComplete" \notin Calls /\ "highWaterMark" \notin Calls
  BY DEF Calls
<1>3. CASE RunShutdown
  <2>1. /\ Runs("shutdownInloop") /\ io = "loop"
        /\ UNCHANGED <<state, ch, output, pending, revents, inMap, removals, server,
                       wire, worker, unsent, told>>
    BY <1>3 DEF RunShutdown, Runs, connVars, serverVars, userVars
  <2>2. sock' \in Socket
    BY <1>1, <1>3, ShutdownWriteType DEF RunShutdown, ShutdownInloop
  <2>3. io' \in {"loop", "notified", "fault"}
    BY <1>3, <2>1 DEF RunShutdown
  <2>4. QED BY <1>2, <2>1, <2>2, <2>3, FunctorKeeps
<1>4. CASE RunCallback
  <2>1. /\ io' = "notified" /\ sock' = sock
        /\ UNCHANGED <<state, ch, output, pending, revents, inMap, removals, server,
                       wire, worker, unsent, told>>
        /\ Runs("writeComplete") \/ Runs("highWaterMark")
    BY <1>4 DEF RunCallback, connVars, serverVars, netVars, userVars
  <2>2. QED BY <1>1, <1>2, <2>1, FunctorKeeps
<1>5. QED BY <1>3, <1>4

-----------------------------------------------------------------------------
(* User code, on the io thread and on the workers.                         *)

LEMMA UserSendStep == ASSUME ConnInv, NEW m \in Messages, UserSend(m) PROVE ConnInv'
<1>1. /\ io \in UserPhase /\ unsent' \subseteq Messages
      /\ functors' \in Seq(Functor) /\ spent' \in BOOLEAN /\ sock \in Socket
      /\ UNCHANGED <<state, functors, spent, revents, inMap, removals, server, worker, told>>
      /\ TypeInv
  BY DEF UserSend, serverVars, ConnInv, TypeInv
<1>2. told # "new" /\ ch.index # "kNew"
  BY <1>1, NotNew DEF UserPhase
<1> DEFINE u == Unit(m)
<1>3. SendSummary(u) /\ (io' = io \/ io # "destroying")
  <2>1. CASE state = "kConnected"
    <3>1. io # "destroying"
      BY <2>1 DEF ConnInv, ChannelInv
    <3>2. SendInLoop(Unit(m)) /\ m \in Messages \cup {Garbage}
      BY <2>1 DEF UserSend
    <3>3. SendSummary(Unit(m))
      BY <1>1, <1>2, <3>2, SendStep
    <3>4. QED BY <3>1, <3>3
  <2>2. CASE state # "kConnected"
    <3>1. UNCHANGED <<ch, output, pending, io, wire, sock>>
      BY <2>2 DEF UserSend, netVars
    <3>2. OnlyNotices
      BY <1>1, <3>1, NothingQueued
    <3> HIDE DEF u
    <3>3. QED BY <1>1, <3>1, <3>2 DEF SendSummary, Accepts, TypeInv
  <2>3. QED BY <2>1, <2>2
<1> HIDE DEF u
<1>4. QED BY <1>1, <1>2, <1>3, SendKeeps DEF ConnInv, TypeInv

LEMMA UserShutdownStep == ASSUME ConnInv, UserShutdown PROVE ConnInv'
<1>1. /\ io \in UserPhase /\ state = "kConnected" /\ state' = "kDisconnecting"
      /\ UNCHANGED <<ch, output, pending, functors, spent, io, revents, inMap, removals,
                     server, worker, unsent, told, wire>>
  BY DEF UserShutdown, loopVars, ioVars, serverVars, userVars
<1>2. told = "up" /\ ch.listed
  BY <1>1 DEF ConnInv, ChannelInv
<1>3. sock' \in Socket
  <2>1. TypeInv /\ sock \in Socket
    BY DEF ConnInv, TypeInv
  <2>2. QED BY <2>1, ShutdownWriteType DEF UserShutdown, ShutdownInloop
<1>4. TypeInv'
  BY <1>1, <1>3 DEF ConnInv, TypeInv
<1>5. FreshInv' /\ ChannelInv'
  BY <1>1, <1>2 DEF ConnInv, FreshInv, ChannelInv
<1>6. UpInv' /\ KeepInv' /\ WaitingIsWatched'
  BY <1>1, <1>2 DEF ConnInv, UpInv, KeepInv, DestroyQueued, EndedInShutdown, WaitingIsWatched
<1>7. QED BY <1>4, <1>5, <1>6 DEF ConnInv

(* A worker goes on, and queues nothing that touches the channel.          *)
LEMMA TaskKeeps ==
  ASSUME ConnInv, told # "new", worker' \in [Workers -> Task],
         unsent' \subseteq Messages, OnlyNotices,
         state' = state \/ (state' = "kDisconnecting" /\ state # "kConnecting"),
         UNCHANGED <<ch, output, functors, spent, io, revents, inMap, removals, server,
                     wire, sock, told>>
  PROVE  ConnInv'
<1>1. DestroyQueued' <=> DestroyQueued
  BY DEF DestroyQueued, OnlyNotices, Calls
<1>2. TypeInv'
  BY DEF ConnInv, TypeInv, OnlyNotices
<1>3. FreshInv'
  BY DEF ConnInv, FreshInv, OnlyNotices, Calls
<1>4. ChannelInv'
  BY DEF ConnInv, ChannelInv
<1>5. UpInv' /\ KeepInv' /\ WaitingIsWatched'
  BY <1>1 DEF ConnInv, UpInv, KeepInv, EndedInShutdown, WaitingIsWatched
<1>6. QED BY <1>2, <1>3, <1>4, <1>5 DEF ConnInv

LEMMA StartCallStep ==
  ASSUME ConnInv, NEW w \in Workers, NEW call \in WorkerCalls,
         NEW m \in Messages \cup {NoMessage}, StartCall(w, call, m)
  PROVE  ConnInv'
<1>1. /\ worker[w].at = "done" \/ io \in UserPhase
      /\ call = "send" => m \in unsent
      /\ unsent' = unsent \ {m}
      /\ worker' = [worker EXCEPT ![w] = [at |-> "call", call |-> call, msg |-> m]]
      /\ UNCHANGED <<state, ch, output, pending, functors, spent, io, revents, inMap, removals,
                     server, wire, sock, told>>
      /\ TypeInv
  BY DEF StartCall, connVars, loopVars, ioVars, serverVars, netVars, ConnInv
<1>2. told # "new"
  BY <1>1, NotNew DEF UserPhase
<1>3. [at |-> "call", call |-> call, msg |-> m] \in Task
  BY <1>1, CallAssumption DEF Task, TypeInv
<1>4. worker' \in [Workers -> Task] /\ unsent' \subseteq Messages
  BY <1>1, <1>3 DEF TypeInv
<1>5. OnlyNotices
  BY <1>1, NothingQueued
<1>6. QED BY <1>1, <1>2, <1>4, <1>5, TaskKeeps

LEMMA WorkerStepStep == ASSUME ConnInv, NEW w \in Workers, WorkerStep(w) PROVE ConnInv'
<1>1. /\ worker[w].at # "none"
      /\ UNCHANGED <<ch, output, functors, spent, io, revents, inMap, removals, server,
                     wire, sock, unsent, told>>
      /\ TypeInv /\ unsent' \subseteq Messages
  BY DEF WorkerStep, CheckState, QueueSend, SetDisconnecting, QueueShutdown, EndTask,
         connVars, loopVars, ioVars, serverVars, netVars, ConnInv, TypeInv
<1>2. told # "new" /\ state # "kConnecting"
  BY <1>1, NotNew
<1>3. worker[w] \in Task /\ worker \in [Workers -> Task]
  BY <1>1 DEF TypeInv
<1>4. worker' \in [Workers -> Task]
  <2>1. CASE \E a \in {"checked", "done", "set"} :
               worker' = [worker EXCEPT ![w].at = a] /\ (a = "checked" => worker[w].at = "call")
    <3>1. PICK a \in {"checked", "done", "set"} :
               worker' = [worker EXCEPT ![w].at = a] /\ (a = "checked" => worker[w].at = "call")
      BY <2>1
    <3>2. /\ worker[w].call \in Call \cup {"none"} /\ worker[w].msg \in Messages \cup {NoMessage}
          /\ worker[w].at = "call" /\ worker[w].call = "send" => worker[w].msg \in Messages
      BY <1>3 DEF Task
    <3>3. worker' = [worker EXCEPT ![w] = [at |-> a, call |-> worker[w].call, msg |-> worker[w].msg]]
      BY <1>1, <3>1, GoesToRecord DEF GoesTo
    <3>4. [at |-> a, call |-> worker[w].call, msg |-> worker[w].msg] \in Task
      BY <3>1, <3>2 DEF Task
    <3>5. QED BY <1>3, <3>3, <3>4
  <2>2. CASE worker' = [worker EXCEPT ![w] = Idle]
    <3>1. Idle \in Task
      BY DEF Idle, Task
    <3>2. QED BY <1>3, <2>2, <3>1
  <2>3. QED BY <2>1, <2>2
          DEF WorkerStep, CheckState, QueueSend, SetDisconnecting, QueueShutdown, EndTask, GoesTo
<1>5. OnlyNotices
  <2>1. CASE pending' = pending
    BY <1>1, <2>1, NothingQueued
  <2>2. ASSUME NEW e \in Functor, e.fn \notin Calls, pending' = Append(pending, e)
        PROVE  OnlyNotices
    <3>1. pending \in Seq(Functor) /\ pending' \in Seq(Functor)
      BY <1>1, <2>2, AppendProperties DEF TypeInv
    <3>2. \A n \in Calls : Has(pending', n) <=> Has(pending, n)
      BY <2>2, <3>1, HasAppend
    <3>3. QED BY <3>1, <3>2 DEF OnlyNotices
  <2>3. CASE QueueSend(w)
    <3>1. SendFn(worker[w].msg, w) \in Functor
      BY <1>3, <2>3, FnType DEF QueueSend, Task
    <3>2. SendFn(worker[w].msg, w).fn \notin Calls
      BY DEF SendFn, Calls
    <3>3. QED BY <2>2, <2>3, <3>1, <3>2 DEF QueueSend
  <2>4. CASE QueueShutdown(w)
    <3>1. Fn("shutdownInloop") \in Functor /\ Fn("shutdownInloop").fn \notin Calls
      BY FnType DEF Fn, Calls
    <3>2. QED BY <2>2, <2>4, <3>1 DEF QueueShutdown
  <2>5. QED BY <2>1, <2>3, <2>4
          DEF WorkerStep, CheckState, SetDisconnecting, EndTask, loopVars
<1>6. state' = state \/ state' = "kDisconnecting"
  BY DEF WorkerStep, CheckState, QueueSend, SetDisconnecting, QueueShutdown, EndTask, connVars
<1>7. QED BY <1>1, <1>2, <1>4, <1>5, <1>6, TaskKeeps

-----------------------------------------------------------------------------
(* The removal of the connection.                                          *)

LEMMA ClosingReturnsStep == ASSUME ConnInv, ClosingReturns PROVE ConnInv'
<1>1. /\ io = "closing" /\ io' = "loop" /\ removals' = removals + 1
      /\ UNCHANGED <<state, ch, output, pending, functors, spent, revents, inMap, server,
                     wire, sock, worker, unsent, told>>
  BY DEF ClosingReturns, connVars, loopVars, netVars, userVars
<1>2. told \notin {"new", "up"}
  BY <1>1, NotNew DEF ConnInv, UpInv
<1>3. TypeInv'
  <2>1. removals \in Nat
    BY DEF ConnInv, TypeInv
  <2>2. removals' \in Nat
    BY <1>1, <2>1
  <2>3. io' \in UserPhase \cup {"loop", "fault"}
    BY <1>1
  <2>4. QED BY <1>1, <2>2, <2>3 DEF ConnInv, TypeInv
<1>4. FreshInv' /\ ChannelInv' /\ UpInv' /\ KeepInv' /\ WaitingIsWatched'
  BY <1>1, <1>2
  DEF ConnInv, FreshInv, ChannelInv, UpInv, KeepInv, DestroyQueued, WaitingIsWatched
<1>5. QED BY <1>3, <1>4 DEF ConnInv

LEMMA DestroyingReturnsStep == ASSUME ConnInv, DestroyingReturns PROVE ConnInv'
<1>1. /\ io = "destroying" /\ io' = "loop" /\ ch' = RemoveChannel(ch)
      /\ UNCHANGED <<state, output, pending, functors, spent, revents, inMap, removals, server,
                     wire, sock, worker, unsent, told>>
  BY DEF DestroyingReturns, loopVars, serverVars, netVars, userVars
<1>2. told \notin {"new", "up"} /\ revents = {} /\ state # "kConnected" /\ ch.index # "kNew"
      /\ Sound(ch)
  BY <1>1, NotNew DEF ConnInv, UpInv, ChannelInv, TypeInv
<1>3. ch' = [events |-> {}, index |-> "kDeleted", listed |-> FALSE, inEpoll |-> FALSE]
  BY <1>1, <1>2, RemoveAny
<1>4. Sound(ch') /\ ch'.index # "kNew" /\ ~ch'.listed
  BY <1>3 DEF Sound, ChannelRecord
<1>5. TypeInv' /\ FreshInv' /\ ChannelInv'
  BY <1>1, <1>2, <1>4 DEF ConnInv, TypeInv, FreshInv, ChannelInv
<1>6. UpInv' /\ KeepInv' /\ WaitingIsWatched'
  BY <1>1, <1>2, <1>4 DEF UpInv, KeepInv, WaitingIsWatched
<1>7. QED BY <1>5, <1>6 DEF ConnInv

(* connectDestroyed is queued, behind connectEstablished if that waits. *)
LEMMA DestroyedQueued ==
  ASSUME ConnInv, pending' = Append(pending, Fn("connectDestroyed")), functors' = functors
  PROVE  /\ pending' \in Seq(Functor)
         /\ Has(pending', "connectDestroyed")
         /\ Has(pending', "connectEstablished") <=> Has(pending, "connectEstablished")
         /\ First(pending) => First(pending')
<1>1. /\ pending \in Seq(Functor) /\ Fn("connectDestroyed") \in Functor
      /\ Fn("connectDestroyed").fn = "connectDestroyed"
  BY FnType DEF ConnInv, TypeInv, Fn
<1>2. /\ pending' \in Seq(Functor)
      /\ \A n : Has(pending', n) <=> Has(pending, n) \/ n = "connectDestroyed"
  BY <1>1, HasAppend
<1>3. ASSUME First(pending) PROVE First(pending')
  <2>1. pending # <<>> /\ Tail(pending) \in Seq(Functor)
    BY <1>1, <1>3 DEF First
  <2>2. /\ pending' # <<>> /\ Head(pending') = Head(pending)
        /\ Tail(pending') = Append(Tail(pending), Fn("connectDestroyed"))
    BY <1>1, <2>1
  <2>3. ~Has(Tail(pending'), "connectEstablished")
    BY <1>1, <1>3, <2>1, <2>2, HasAppend DEF First
  <2>4. QED BY <1>3, <2>2, <2>3 DEF First
<1>4. QED BY <1>2, <1>3

LEMMA RemoveStep == ASSUME ConnInv, RemoveConnectionInLoop \/ DestroyServer PROVE ConnInv'
<1>1. /\ inMap' = FALSE /\ server = "running"
      /\ UNCHANGED <<state, ch, output, functors, spent, io, revents, wire, sock,
                     worker, unsent, told>>
  BY DEF RemoveConnectionInLoop, DestroyServer, connVars, ioVars, netVars, userVars
<1>2. /\ removals' \in Nat /\ server' \in {"running", "destroyed"}
      /\ told \in {"new", "up"} => server' = "destroyed" /\ removals' = 0
  <2>1. removals \in Nat /\ (told \in {"new", "up"} => removals = 0)
    BY DEF ConnInv, UpInv, TypeInv
  <2>2. CASE RemoveConnectionInLoop
    BY <1>1, <2>1, <2>2 DEF RemoveConnectionInLoop
  <2>3. CASE DestroyServer
    BY <1>1, <2>1, <2>3 DEF DestroyServer
  <2>4. QED BY <2>2, <2>3
<1>3. /\ pending' \in Seq(Functor)
      /\ Has(pending', "connectEstablished") <=> Has(pending, "connectEstablished")
      /\ First(pending) => First(pending')
      /\ inMap \/ DestroyQueued => DestroyQueued'
  <2>1. CASE pending' = Append(pending, Fn("connectDestroyed"))
    BY <1>1, <2>1, DestroyedQueued DEF DestroyQueued
  <2>2. CASE pending' = pending /\ ~inMap
    BY <1>1, <2>2 DEF DestroyQueued, ConnInv, TypeInv
  <2>3. QED BY <2>1, <2>2 DEF RemoveConnectionInLoop, DestroyServer
<1>4. TypeInv' /\ ChannelInv'
  BY <1>1, <1>2, <1>3 DEF ConnInv, TypeInv, ChannelInv
<1>5. FreshInv'
  BY <1>1, <1>3 DEF ConnInv, FreshInv
<1>6. UpInv' /\ KeepInv' /\ WaitingIsWatched'
  BY <1>1, <1>2, <1>3 DEF ConnInv, UpInv, KeepInv, EndedInShutdown, WaitingIsWatched
<1>7. QED BY <1>4, <1>5, <1>6 DEF ConnInv

LEMMA NextStep == ConnInv /\ Next => ConnInv'
<1> SUFFICES ASSUME ConnInv, Next PROVE ConnInv'
  OBVIOUS
<1>1. CASE IoStep
  BY <1>1, QuietStep, SwapStep, EventHupStep, EventInStep, EventOutStep, RunEstablishedStep,
     RunDestroyedStep, RunSendStep, RunOtherStep, ClosingReturnsStep, DestroyingReturnsStep
     DEF IoStep
<1>2. CASE UserCall
  BY <1>2, UserShutdownStep, UserSendStep, StartCallStep DEF UserCall
<1>3. CASE \E w \in Workers : WorkerStep(w)
  BY <1>3, WorkerStepStep
<1>4. CASE \E writable \in BOOLEAN : Poll(writable)
  BY <1>4, PollStep
<1>5. CASE PeerStep \/ RemoveConnectionInLoop \/ DestroyServer
  BY <1>5, QuietStep, RemoveStep
<1>6. QED BY <1>1, <1>2, <1>3, <1>4, <1>5 DEF Next

LEMMA StutterStep == ConnInv /\ UNCHANGED vars => ConnInv'
<1> SUFFICES ASSUME ConnInv, UNCHANGED vars PROVE ConnInv'
  OBVIOUS
<1> USE DEF vars, connVars, loopVars, ioVars, serverVars, netVars, userVars
<1>1. TypeInv' /\ FreshInv'
  BY DEF ConnInv, TypeInv, FreshInv
<1>2. ChannelInv' /\ UpInv' /\ KeepInv' /\ WaitingIsWatched'
  BY DEF ConnInv, ChannelInv, UpInv, KeepInv, DestroyQueued, EndedInShutdown, WaitingIsWatched
<1>3. QED BY <1>1, <1>2 DEF ConnInv

LEMMA ConnInvariant == Spec => []ConnInv
<1>1. ConnInv /\ [Next]_vars => ConnInv'
  BY NextStep, StutterStep
<1>2. QED BY InitInv, <1>1, PTL DEF Spec

-----------------------------------------------------------------------------
(* What holds whatever user code calls, on whatever thread.                *)

(* TypeOK: every variable keeps its type, through every handler.           *)
THEOREM TypeCorrect == Spec => []TypeOK
<1>1. ConnInv => TypeOK
  BY TypeInvOK DEF ConnInv
<1>2. QED BY ConnInvariant, <1>1, PTL

(* Registered: the detour of Epollpoller::removeChannel included, a        *)
(* channel is in the epoll set exactly while it has an interest.           *)
THEOREM RegisteredWithInterest == Spec => []Registered
<1>1. ConnInv => Registered
  BY DEF ConnInv, TypeInv, Sound, Registered
<1>2. QED BY ConnInvariant, <1>1, PTL

(* WaitingIsWatched: EPOLLOUT is asked for exactly while data waits in     *)
(* OutputBuffer_ of an open connection.                                    *)
THEOREM WaitingDataIsWatched == Spec => []WaitingIsWatched
<1>1. ConnInv => WaitingIsWatched
  BY DEF ConnInv
<1>2. QED BY ConnInvariant, <1>1, PTL

(* RemovedWasReported: handleClose and connectDestroyed between them       *)
(* report every connection down that leaves the poller, but for a server   *)
(* that ends in the middle of a shutdown().                                *)
THEOREM RemovedReported == Spec => []RemovedWasReported
<1>1. ConnInv => RemovedWasReported
  BY DEF ConnInv, UpInv, Removed, RemovedWasReported
<1>2. QED BY ConnInvariant, <1>1, PTL

LEMMA FinStep ==
  ASSUME ConnInv, Next, sock'.fin # sock.fin, told = "up", ch.listed
  PROVE  output' = <<>>
<1>1. TypeInv /\ sock \in Socket /\ ch.index # "kNew"
  BY NotNew DEF ConnInv, TypeInv, FreshInv
<1>2. output # <<>> <=> IsWriting(ch)
  BY DEF ConnInv, WaitingIsWatched
<1>3. ASSUME NEW m \in Messages \cup {Garbage} PROVE ~SendInLoop(Unit(m))
  <2>1. SUFFICES ASSUME SendInLoop(Unit(m)) PROVE FALSE
    OBVIOUS
  <2>2. SendSummary(Unit(m))
    BY <1>1, <2>1, SendStep
  <2>3. QED BY <2>2 DEF SendSummary
<1>4. CASE EventOut
  BY <1>1, <1>4, WriteFailsType DEF EventOut, netVars
<1>5. CASE RunShutdown \/ UserShutdown
  BY <1>2, <1>5 DEF RunShutdown, UserShutdown, ShutdownInloop, connVars
<1>6. CASE RunSend
  <2>1. Head(functors).msg \in Messages
    BY <1>6, RunsFacts DEF RunSend, Functor
  <2>2. Alive
    BY <1>6 DEF RunSend, netVars
  <2>3. QED BY <1>3, <1>6, <2>1, <2>2 DEF RunSend
<1>7. CASE \E m \in Messages : UserSend(m)
  BY <1>3, <1>7 DEF UserSend, netVars
<1>8. CASE EventHup \/ EventErr \/ EventIn \/ PeerStep
  BY <1>1, <1>8 DEF EventHup, EventErr, EventIn, PeerStep, PeerSends, PeerCloses, PeerResets,
                    netVars, Socket
<1>9. CASE UNCHANGED sock
  BY <1>9
<1>10. QED
  BY <1>4, <1>5, <1>6, <1>7, <1>8, <1>9
  DEF Next, IoStep, UserCall, WorkerStep, Swap, EndBatch, RunEstablished, RunDestroyed,
      RunCallback, UserReturns, ClosingReturns, DestroyingReturns, StartCall, CheckState,
      QueueSend, SetDisconnecting, QueueShutdown, EndTask, Poll, RemoveConnectionInLoop,
      DestroyServer, netVars

(* FinAfterData: shutdownInloop and handleWrite shut the write side of an  *)
(* open connection down only with an empty OutputBuffer_.                  *)
THEOREM FinFollowsData == Spec => FinAfterData
<1>1. ConnInv /\ [Next]_vars =>
        [sock'.fin # sock.fin /\ told = "up" /\ ch.listed => output' = <<>>]_vars
  BY FinStep
<1>2. QED BY ConnInvariant, <1>1, PTL DEF FinAfterData, Spec

-----------------------------------------------------------------------------
(* What holds if only the io thread shuts a connection down.  A worker     *)
(* that has tested state_ calls setState(kDisconnecting) later, and may    *)
(* undo a kDisconnected.                                                   *)

NoWorkerShutdown == "shutdown" \notin WorkerCalls

(* The user was told down exactly when state_ says so, once, and then the  *)
(* channel is out of the epoll set for good.                               *)
DownInv ==
  /\ \A w \in Workers : worker[w].call # "shutdown" /\ worker[w].at # "set"
  /\ told # "down again"
  /\ told = "down" <=> state = "kDisconnected"
  /\ told = "down" => ch.index = "kDeleted"

LEMMA InitDown == Init => DownInv
<1> SUFFICES ASSUME Init PROVE DownInv
  OBVIOUS
<1>1. \A w \in Workers : worker[w] = Idle
  BY DEF Init
<1>2. QED BY <1>1 DEF Init, DownInv, Idle

LEMMA WorkersSend ==
  ASSUME NoWorkerShutdown, ConnInv, DownInv, [Next]_vars
  PROVE  /\ \A w \in Workers : worker'[w].call # "shutdown" /\ worker'[w].at # "set"
         /\ \A w \in Workers : ~SetDisconnecting(w)
<1>1. worker \in [Workers -> Task]
  BY DEF ConnInv, TypeInv
<1>2. \A w \in Workers : ~SetDisconnecting(w) /\ ~QueueShutdown(w)
  BY DEF DownInv, SetDisconnecting, QueueShutdown
<1>3. CASE UNCHANGED worker
  BY <1>2, <1>3 DEF DownInv
<1>4. CASE \E w \in Workers : WorkerStep(w)
  <2>1. PICK w \in Workers : WorkerStep(w)
    BY <1>4
  <2>2. CASE EndTask(w)
    <3>1. worker' = [worker EXCEPT ![w] = Idle]
      BY <2>2 DEF EndTask
    <3>2. QED BY <1>1, <1>2, <3>1 DEF DownInv, Idle
  <2>3. CASE \E a \in {"checked", "done"} : GoesTo(w, a)
    <3>1. PICK a \in {"checked", "done"} : worker' = [worker EXCEPT ![w].at = a]
      BY <2>3 DEF GoesTo
    <3>2. worker[w].call # "shutdown"
      BY DEF DownInv
    <3>3. worker' = [worker EXCEPT ![w] =
                       [at |-> a, call |-> worker[w].call, msg |-> worker[w].msg]]
      BY <3>1, GoesToRecord DEF GoesTo, ConnInv
    <3>4. QED BY <1>1, <1>2, <3>2, <3>3 DEF DownInv
  <2>4. QED BY <1>2, <2>1, <2>2, <2>3 DEF WorkerStep, CheckState, QueueSend
<1>5. CASE \E w \in Workers, call \in WorkerCalls, m \in Messages \cup {NoMessage} :
             StartCall(w, call, m)
  <2>1. PICK w \in Workers, call \in WorkerCalls, m \in Messages \cup {NoMessage} :
             worker' = [worker EXCEPT ![w] = [at |-> "call", call |-> call, msg |-> m]]
    BY <1>5 DEF StartCall
  <2>2. call # "shutdown"
    BY DEF NoWorkerShutdown
  <2>3. QED BY <1>1, <1>2, <2>1, <2>2 DEF DownInv
<1>6. CASE UserShutdown \/ \E m \in Messages : UserSend(m)
  BY <1>3, <1>6 DEF UserShutdown, UserSend, userVars
<1>7. QED
  BY <1>3, <1>4, <1>5, <1>6
  DEF vars, userVars, Next, IoStep, UserCall, EventHup, EventErr, EventIn, EventOut, Swap,
      EndBatch, RunEstablished, RunDestroyed, RunSend, RunShutdown, RunCallback, UserReturns,
      ClosingReturns, DestroyingReturns, Poll, RemoveConnectionInLoop, DestroyServer, PeerStep

(* What a step may do to what the user sees of the connection.             *)
Quiet ==
  /\ told' = told /\ UNCHANGED <<wire, output>>
  /\ told = "down" => ch' \in {ch, RemoveChannel(ch)}
  /\ state' = "kDisconnected" <=> state = "kDisconnected"

Opens ==
  /\ told = "new" /\ told' = "up" /\ UNCHANGED <<wire, output>>
  /\ state' # "kDisconnected"

Closes ==
  /\ told = "up" /\ told' = "down" /\ UNCHANGED <<wire, output>>
  /\ state' = "kDisconnected" /\ ch'.index = "kDeleted"

Moves ==
  /\ told = "up" /\ told' = "up"
  /\ state' # "kDisconnected"
  /\ wire' \in Seq(Units) /\ output' \in Seq(Units)
  /\ \E x \in Seq(Units) : wire' = wire \o x
  /\ \/ wire' \o output' = wire \o output
     \/ \E m \in Messages \cup {Garbage} : wire' \o output' = (wire \o output) \o Unit(m)

LEMMA CloseMoves ==
  ASSUME ConnInv, DownInv, HandleClose, "HUP" \in revents \/ "IN" \in revents,
         UNCHANGED <<wire, output>>
  PROVE  Closes
<1>1. Sound(ch) /\ ch.index = "kAdded" /\ told = "up"
  <2>1. Sound(ch) /\ ch.index = "kAdded" /\ told # "new"
    BY NotNew DEF ConnInv, TypeInv, ChannelInv
  <2>2. told \in {"new", "up", "down", "down again"}
    BY DEF ConnInv, TypeInv
  <2>3. QED BY <2>1, <2>2 DEF DownInv
<1>2. ch'.index = "kDeleted"
  BY <1>1, SetNone DEF HandleClose, DisableAll
<1>3. QED BY <1>1, <1>2 DEF HandleClose, TellDown, Closes

LEMMA SendMoves ==
  ASSUME ConnInv, DownInv, told # "new", UNCHANGED <<state, told>>,
         NEW m \in Messages \cup {Garbage}, SendInLoop(Unit(m))
  PROVE  Quiet \/ Moves
<1>1. TypeInv /\ ch.index # "kNew" /\ told \in {"new", "up", "down", "down again"}
  BY NotNew DEF ConnInv, FreshInv, TypeInv
<1>2. CASE state = "kDisconnected"
  BY <1>1, <1>2 DEF SendInLoop, GiveUp, netVars, Quiet
<1>3. CASE state # "kDisconnected"
  <2>1. told = "up"
    BY <1>1, <1>3 DEF DownInv
  <2>2. SendSummary(Unit(m))
    BY <1>1, SendStep
  <2>3. CASE UNCHANGED <<wire, output, ch>>
    BY <2>1, <2>3 DEF Quiet
  <2>4. CASE /\ wire' \o output' = (wire \o output) \o Unit(m)
             /\ \E x \in Seq(Units) : wire' = wire \o x
    BY <1>3, <2>1, <2>2, <2>4 DEF Moves, SendSummary
  <2>5. QED BY <2>2, <2>3, <2>4 DEF SendSummary, Accepts
<1>4. QED BY <1>2, <1>3

LEMMA OutMoves == ASSUME ConnInv, DownInv, EventOut PROVE Quiet \/ Moves
<1>1. /\ UNCHANGED <<state, told>> /\ told \in {"new", "up", "down", "down again"}
      /\ output \in Seq(Units) /\ wire \in Seq(Units)
  BY DEF EventOut, ConnInv, TypeInv
<1>2. CASE UNCHANGED <<wire, output, ch>>
  BY <1>1, <1>2 DEF Quiet
<1>3. ASSUME IsWriting(ch), NEW n \in 1 .. Len(output),
             wire' = wire \o SubSeq(output, 1, n),
             output' = SubSeq(output, n + 1, Len(output))
      PROVE  Moves
  <2>1. told = "up" /\ state # "kDisconnected"
    <3>1. ch.index = "kAdded"
      BY <1>3 DEF IsWriting, ConnInv, TypeInv, Sound
    <3>2. told # "new"
      BY <3>1, NotNew
    <3>3. QED BY <1>1, <3>1, <3>2 DEF DownInv
  <2> DEFINE a == SubSeq(output, 1, n)
             b == SubSeq(output, n + 1, Len(output))
  <2>2. a \in Seq(Units) /\ b \in Seq(Units) /\ a \o b = output
    <3>1. n \in 0 .. Len(output)
      OBVIOUS
    <3>2. QED BY <1>1, <3>1, SplitUnits
  <2>3. wire' = wire \o a /\ output' = b
    BY <1>3
  <2> HIDE DEF a, b
  <2>4. wire' \in Seq(Units)
    BY <1>1, <2>2, <2>3, ConcatProperties
  <2>5. (wire \o a) \o b = wire \o (a \o b)
    BY <1>1, <2>2, UnitsAssociative
  <2>6. wire' \o output' = wire \o output
    BY <2>2, <2>3, <2>5
  <2>7. QED BY <1>1, <2>1, <2>2, <2>3, <2>4, <2>6 DEF Moves
<1>4. QED BY <1>2, <1>3 DEF EventOut, netVars

LEMMA StepMoves ==
  ASSUME NoWorkerShutdown, ConnInv, DownInv, Next
  PROVE  Quiet \/ Opens \/ Closes \/ Moves
<1>1. told \in {"new", "up", "down", "down again"} /\ Sound(ch) /\ sock \in Socket
  BY DEF ConnInv, TypeInv
<1>2. CASE UNCHANGED <<state, ch, output, wire, told>>
  BY <1>2 DEF Quiet
<1>3. CASE EventHup
  BY <1>2, <1>3, CloseMoves DEF EventHup, Dispatch, netVars
<1>4. CASE EventIn
  BY <1>2, <1>4, CloseMoves DEF EventIn, Dispatch
<1>5. CASE RunEstablished
  BY <1>5, RunsFacts DEF RunEstablished, netVars, Opens
<1>6. CASE RunDestroyed
  <2>1. told # "new" /\ UNCHANGED <<wire, output>>
    BY <1>6, RunsFacts DEF RunDestroyed, netVars
  <2>2. CASE state = "kConnected"
    <3>1. ch.index = "kAdded" /\ told = "up"
      BY <2>2 DEF ConnInv, ChannelInv
    <3>2. ch'.index = "kDeleted"
      BY <1>1, <1>6, <2>2, <3>1, SetNone DEF RunDestroyed, DisableAll
    <3>3. QED BY <1>6, <2>1, <2>2, <3>1, <3>2 DEF RunDestroyed, TellDown, Closes
  <2>3. CASE state # "kConnected"
    BY <1>6, <2>1, <2>3 DEF RunDestroyed, Quiet
  <2>4. QED BY <2>2, <2>3
<1>7. CASE RunSend
  <2>1. /\ told # "new" /\ UNCHANGED <<state, told>>
        /\ Head(functors).msg \in Messages
    BY <1>7, RunsFacts DEF RunSend, Functor
  <2>2. CASE Alive
    <3>1. PICK m \in {Head(functors).msg, Garbage} : SendInLoop(Unit(m))
      BY <1>7, <2>2 DEF RunSend
    <3>2. m \in Messages \cup {Garbage}
      BY <2>1
    <3>3. QED BY <2>1, <3>1, <3>2, SendMoves
  <2>3. CASE ~Alive
    BY <1>2, <1>7, <2>3 DEF RunSend, netVars
  <2>4. QED BY <2>2, <2>3
<1>8. CASE \E m \in Messages : UserSend(m)
  <2>1. PICK m \in Messages : UserSend(m)
    BY <1>8
  <2>2. UNCHANGED <<state, told>> /\ told # "new"
    BY <2>1, NotNew DEF UserSend, UserPhase
  <2>3. CASE state = "kConnected"
    <3>1. SendInLoop(Unit(m)) /\ m \in Messages \cup {Garbage}
      BY <2>1, <2>3 DEF UserSend
    <3>2. QED BY <2>2, <3>1, SendMoves
  <2>4. CASE state # "kConnected"
    BY <1>2, <2>1, <2>2, <2>4 DEF UserSend, netVars
  <2>5. QED BY <2>3, <2>4
<1>9. CASE UserShutdown
  BY <1>9 DEF UserShutdown, Quiet
<1>10. CASE DestroyingReturns
  BY <1>10 DEF DestroyingReturns, netVars, Quiet
<1>11. \A w \in Workers : ~SetDisconnecting(w)
  BY WorkersSend
<1>12. CASE Swap \/ EndBatch \/ EventErr \/ RunShutdown \/ RunCallback \/ UserReturns
             \/ ClosingReturns \/ PeerStep \/ RemoveConnectionInLoop \/ DestroyServer
             \/ \E writable \in BOOLEAN : Poll(writable)
  BY <1>2, <1>12
  DEF connVars, netVars, Swap, EndBatch, EventErr, RunShutdown, RunCallback, UserReturns,
      ClosingReturns, PeerStep, RemoveConnectionInLoop, DestroyServer, Poll
<1>13. CASE \/ \E w \in Workers : WorkerStep(w)
            \/ \E w \in Workers, call \in WorkerCalls, m \in Messages \cup {NoMessage} :
                 StartCall(w, call, m)
  BY <1>2, <1>11, <1>13
  DEF connVars, netVars, WorkerStep, CheckState, QueueSend, QueueShutdown, EndTask, StartCall
<1>14. QED
  BY <1>3, <1>4, <1>5, <1>6, <1>7, <1>8, <1>9, <1>10, <1>12, <1>13, OutMoves
  DEF Next, IoStep, UserCall

LEMMA DownStays ==
  ASSUME NoWorkerShutdown, ConnInv, DownInv, [Next]_vars
  PROVE  DownInv'
<1>1. \A w \in Workers : worker'[w].call # "shutdown" /\ worker'[w].at # "set"
  BY WorkersSend
<1>2. CASE UNCHANGED vars
  BY <1>1, <1>2 DEF vars, connVars, DownInv
<1>3. CASE Next
  <2>1. CASE Quiet
    <3>1. ASSUME told = "down" PROVE ch'.index = "kDeleted"
      <4>1. ch.index = "kDeleted" /\ Sound(ch)
        BY <3>1 DEF DownInv, ConnInv, TypeInv
      <4>2. RemoveChannel(ch).index = "kDeleted"
        BY <4>1, RemoveAny
      <4>3. QED BY <2>1, <3>1, <4>1, <4>2 DEF Quiet
    <3>2. QED BY <1>1, <2>1, <3>1 DEF Quiet, DownInv
  <2>2. CASE Opens \/ Closes \/ Moves
    BY <1>1, <2>2 DEF Opens, Closes, Moves, DownInv
  <2>3. QED BY <1>3, <2>1, <2>2, StepMoves
<1>4. QED BY <1>2, <1>3

LEMMA DownInvariant == ASSUME NoWorkerShutdown PROVE Spec => [](ConnInv /\ DownInv)
<1>1. ConnInv /\ DownInv /\ [Next]_vars => DownInv'
  BY DownStays
<1>2. QED BY InitDown, ConnInvariant, <1>1, PTL DEF Spec

(* RemovalIsFinal: nothing registers a removed channel again: a send that  *)
(* is queued behind connectDestroyed finds kDisconnected and gives up, and *)
(* a second connectDestroyed leaves the channel as it is.                  *)
THEOREM RemovedForGood == ASSUME NoWorkerShutdown PROVE Spec => RemovalIsFinal
<1>1. ASSUME ConnInv, DownInv, Next, Removed, ~EndedInShutdown PROVE UNCHANGED ch
  <2>1. told = "down"
    <3>1. told # "new" /\ told \in {"new", "up", "down", "down again"}
      BY <1>1, NotNew DEF Removed, ConnInv, TypeInv
    <3>2. QED BY <1>1, <3>1 DEF Removed, ConnInv, UpInv, DownInv
  <2>2. ch' \in {ch, RemoveChannel(ch)}
    BY <1>1, <2>1, StepMoves DEF Quiet, Opens, Closes, Moves
  <2>3. ch = [events |-> {}, index |-> "kDeleted", listed |-> FALSE, inEpoll |-> FALSE]
    BY <1>1 DEF Removed, ConnInv, TypeInv, Sound, ChannelRecord
  <2>4. RemoveChannel(ch) =
          [events |-> {}, index |-> "kDeleted", listed |-> FALSE, inEpoll |-> FALSE]
    BY <1>1, RemoveAny DEF Removed, ConnInv, TypeInv
  <2>5. QED BY <2>2, <2>3, <2>4
<1>2. ConnInv /\ DownInv /\ [Next]_vars => [Removed /\ ~EndedInShutdown => UNCHANGED ch]_vars
  BY <1>1
<1>3. QED BY DownInvariant, <1>2, PTL DEF RemovalIsFinal, Spec

(* GoneIsUnregistered: connectDestroyed, which holds the connection while  *)
(* it runs, takes the channel out of the poller before the last            *)
(* ConnectionPtr can be gone.                                              *)
THEOREM GoneUnregistered == ASSUME NoWorkerShutdown PROVE Spec => []GoneIsUnregistered
<1>1. ASSUME ConnInv, ~Alive PROVE ~ch.listed /\ told # "new"
  <2>1. ~inMap /\ io # "destroying"
    BY <1>1 DEF Alive, UserPhase
  <2>2. ~DestroyQueued
    <3>1. HoldsRef(Fn("connectDestroyed")) /\ "connectDestroyed" \notin {"sendInLoop", "shutdownInloop"}
      BY DEF HoldsRef, Fn
    <3>2. ASSUME NEW s \in {pending, functors}, Has(s, "connectDestroyed") PROVE FALSE
      <4>1. PICK i \in DOMAIN s : s[i].fn = "connectDestroyed"
        BY <3>2 DEF Has
      <4>2. s[i] \in Range(pending) \cup Range(functors)
        BY <4>1 DEF Range
      <4>3. HoldsRef(s[i])
        BY <4>1 DEF HoldsRef
      <4>4. QED BY <1>1, <4>2, <4>3 DEF Alive
    <3>3. QED BY <3>2 DEF DestroyQueued
  <2>3. QED BY <1>1, <2>1, <2>2 DEF ConnInv, KeepInv
<1>2. ASSUME ConnInv, DownInv, ~Alive, ch.inEpoll PROVE EndedInShutdown
  <2>1. ~ch.listed /\ told # "new"
    BY <1>1, <1>2
  <2>2. ch.index = "kAdded" /\ told \in {"new", "up", "down", "down again"}
    BY <1>2 DEF ConnInv, TypeInv, Sound
  <2>3. told = "up"
    BY <1>2, <2>1, <2>2 DEF DownInv
  <2>4. QED BY <1>2, <2>1, <2>3 DEF ConnInv, UpInv
<1>3. ConnInv /\ DownInv => GoneIsUnregistered
  BY <1>1, <1>2 DEF GoneIsUnregistered
<1>4. QED BY DownInvariant, <1>3, PTL

(* NoWriteAfterDown: what the message in sendInLoop says is so; a worker's *)
(* shutdown() is all that can break it.                                    *)
THEOREM NothingAfterDown == ASSUME NoWorkerShutdown PROVE Spec => NoWriteAfterDown
<1>1. ConnInv /\ DownInv /\ [Next]_vars =>
        [UNCHANGED <<wire, output>> \/ told \in {"new", "up"}]_vars
  BY StepMoves DEF Quiet, Opens, Closes, Moves
<1>2. QED BY DownInvariant, <1>1, PTL DEF NoWriteAfterDown, Spec

LEMMA PrefixOfConcat ==
  ASSUME NEW s \in Seq(Units), NEW t \in Seq(Units)
  PROVE  Stream!IsPrefixOf(s, s \o t)
<1>1. Len(s) \in Nat /\ Len(t) \in Nat /\ Len(s \o t) = Len(s) + Len(t)
  BY ConcatProperties, LenProperties
<1>2. s = SubSeq(s \o t, 1, Len(s))
  BY SubSeqOfConcat1, SubSeqFull, <1>1
<1>3. QED BY <1>1, <1>2 DEF Stream!IsPrefixOf

(* StreamRefined: the connection is a ByteStream.  A send accepts its      *)
(* units behind all that was accepted, whether it writes them, buffers     *)
(* them or both; handleWrite moves them in order; the user is told up once *)
(* and down once, and nothing moves afterwards.                            *)
THEOREM ConnectionIsStream == ASSUME NoWorkerShutdown PROVE Spec => StreamRefined
<1>1. Init => Stream!Init
  BY DEF Init, Stream!Init
<1>2. ASSUME ConnInv, DownInv, [Next]_vars PROVE [Stream!Next]_(Stream!vars)
  <2>1. CASE UNCHANGED vars
    BY <2>1 DEF vars, connVars, netVars, Stream!vars
  <2>2. CASE Quiet
    BY <2>2 DEF Quiet, Stream!vars
  <2>3. CASE Opens
    BY <2>3 DEF Opens, Stream!Next, Stream!Open
  <2>4. CASE Closes
    BY <2>4 DEF Closes, Stream!Next, Stream!Close
  <2>5. CASE Moves
    <3>1. Stream!IsPrefixOf(wire, wire') /\ Stream!IsPrefixOf(wire', wire' \o output')
      BY <1>2, <2>5, PrefixOfConcat DEF Moves, ConnInv, TypeInv
    <3>2. QED BY <2>5, <3>1 DEF Moves, Stream!Next, Stream!Progress
  <2>6. QED BY <1>2, <2>1, <2>2, <2>3, <2>4, <2>5, StepMoves
<1>3. QED BY DownInvariant, <1>1, <1>2, PTL DEF StreamRefined, Stream!Spec, Spec

===============================================================================
