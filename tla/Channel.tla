-------------------------------- MODULE Channel --------------------------------
(***************************************************************************)
(* A Channel and what its poller keeps about it.  Every call that changes  *)
(* the interest of a channel ends in Epollpoller::updateChannel, which     *)
(* chooses the epoll_ctl operation by the channel's index_.                *)
(*                                                                         *)
(* A channel is a record                                                   *)
(*   events  events_, a subset of Event                                    *)
(*   index   index_: kNew, kAdded or kDeleted                              *)
(*   listed  its descriptor is a key of the poller's channels_             *)
(*   inEpoll its descriptor is in the epoll set                            *)
(***************************************************************************)

Event == {"read", "write"}    \* kReadEvent, kWriteEvent

ChannelRecord ==
  [events : SUBSET Event, index : {"kNew", "kAdded", "kDeleted"},
   listed : BOOLEAN, inEpoll : BOOLEAN]

NewChannel ==
  [events |-> {}, index |-> "kNew", listed |-> FALSE, inEpoll |-> FALSE]

IsWriting(c) == "write" \in c.events

(* Epollpoller::updateChannel: EPOLL_CTL_ADD for a channel that is not     *)
(* added, whatever its interest; DEL for one without interest; else MOD.   *)
UpdateChannel(c) ==
  CASE c.index # "kAdded" ->
         [c EXCEPT !.index = "kAdded", !.inEpoll = TRUE,
                   !.listed = c.listed \/ c.index = "kNew"]
    [] c.index = "kAdded" /\ c.events = {} ->
         [c EXCEPT !.index = "kDeleted", !.inEpoll = FALSE]
    [] OTHER -> c

SetEvents(c, events) == UpdateChannel([c EXCEPT !.events = events])

EnableReading(c)  == SetEvents(c, c.events \cup {"read"})
EnableWriting(c)  == SetEvents(c, c.events \cup {"write"})

(* Faulty variant: events_ &= kNoneEvent. *)
DisableWriting_All(c) == SetEvents(c, {})

DisableWriting(c) == SetEvents(c, c.events \ {"write"})

DisableAll(c) == SetEvents(c, {})

(* Faulty variant: a channel whose index says deleted is left as           *)
(* disableAll made it.                                                     *)
RemoveChannel_NoSecondUpdate(c) == DisableAll([c EXCEPT !.listed = FALSE])

(* Epollpoller::removeChannel: out of channels_, then disableAll, which    *)
(* re-enters updateChannel and adds a deleted channel again, then another  *)
(* updateChannel if that left it added.                                    *)
RemoveChannel(c) ==
  LET d == DisableAll([c EXCEPT !.listed = FALSE])
  IN IF d.index = "kAdded" THEN UpdateChannel(d) ELSE d

===============================================================================
