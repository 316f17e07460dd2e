------------------------------ MODULE Channel ------------------------------
(***************************************************************************)
(* net/src/channel.cpp with the registration half of net/src/poller.cpp: a  *)
(* Channel is its interest set and its flag, and every change of the        *)
(* interest goes through Poller::update_channel at once.  The Poller keeps  *)
(* a channel in channels_ while the flag is not "UNADD", and epoll watches   *)
(* the descriptor while it is "ADDED".                                      *)
(***************************************************************************)
EXTENDS Sequences

Interest == {"read", "write"}
Flags    == {"UNADD", "ADDED", "DELETED"}
Channels == [events : SUBSET Interest, flag : Flags]

\* FLAG_UNADD, as constructed.
NewChannel == [events |-> {}, flag |-> "UNADD"]

\* Mutant: a channel without interest stays in epoll.
UpdateKeepsAdded(ch) == [ch EXCEPT !.flag = "ADDED"]

\* Poller::update_channel: a channel that is not in epoll is added, whatever its
\* interest; one that is there leaves epoll, not channels_, when it has none.
UpdateChannel(ch) ==
  [ch EXCEPT !.flag = IF ch.flag = "ADDED" /\ ch.events = {} THEN "DELETED" ELSE "ADDED"]

Enable(ch, e)  == UpdateChannel([ch EXCEPT !.events = @ \cup {e}])
Disable(ch, e) == UpdateChannel([ch EXCEPT !.events = @ \ {e}])
DisableAll(ch) == UpdateChannel([ch EXCEPT !.events = {}])

IsReading(ch) == "read" \in ch.events
IsWriting(ch) == "write" \in ch.events

\* The assertions of Channel::remove and Poller::remove_channel, and what the
\* removal leaves.
Removable(ch) == ch.events = {} /\ ch.flag # "UNADD"
Removed(ch)   == [ch EXCEPT !.flag = "UNADD"]

\* handle_event_with_guard: the callbacks of a channel whose active events are
\* 'active', in order.
Dispatch(active) ==
     (IF "HUP" \in active /\ "IN" \notin active THEN <<"handle_close">> ELSE <<>>)
  \o (IF "ERR" \in active THEN <<"handle_error">> ELSE <<>>)
  \o (IF {"IN", "HUP"} \cap active # {} THEN <<"handle_read">> ELSE <<>>)
  \o (IF "OUT" \in active THEN <<"handle_write">> ELSE <<>>)
=============================================================================
