------------------------------- MODULE Badge -------------------------------
(***************************************************************************)
(* The unread badge of one browser tab: web/src/lib/chat-live.ts over the  *)
(* event stream of src/services/realtime.ts.  The server's count is taken  *)
(* as it is (Chats.tla says what it is); this is about the tab that shows  *)
(* it, its stream, its timer and the requests it has under way.            *)
(***************************************************************************)
EXTENDS Naturals

CONSTANTS
  Counts,       \* bound: the numbers the badge can show, from 0
  Calls,        \* bound: requests of the tab under way at the same time
  MaxChanges,   \* bound: changes of the count
  Free, Asked,  \* states of a call
  MaxTroubles   \* bound: requests that fail and streams that break

BadgeAssumption == Counts \in Nat

VARIABLES
  unread,       \* what GET /chats/unread answers
  shown,        \* the badge
  stream,       \* "open", "broken" when the server has not noticed, "closed", or "none"
  timer,        \* the coalescing timer of soon() is set
  call,         \* call[i]: Free, Asked, or the number on its way back
  mounted,      \* the component that shows the badge is on the page
  changes, troubles

badgeVars == <<unread, shown, stream, timer, call, mounted, changes, troubles>>

Numbers == 0..Counts

Init ==
  /\ unread \in Numbers /\ shown = 0
  /\ stream = "none" /\ timer = FALSE
  /\ call = [i \in Calls |-> Free]
  /\ mounted = FALSE
  /\ changes = 0 /\ troubles = 0

(* refresh: a request of its own each time; nothing waits for the others.  *)
Refresh == \E i \in Calls : call[i] = Free /\ call' = [call EXCEPT ![i] = Asked]

(* The first listener opens the stream, and the count is fetched at once.  *)
Mount ==
  /\ ~mounted /\ mounted' = TRUE
  /\ stream' = "open" /\ Refresh
  /\ UNCHANGED <<unread, shown, timer, changes, troubles>>

(* The last listener closes it; what is on its way is not shown.           *)
Unmount ==
  /\ mounted /\ mounted' = FALSE
  /\ stream' = "none" /\ timer' = FALSE
  /\ call' = [i \in Calls |-> Free]
  /\ UNCHANGED <<unread, shown, changes, troubles>>

(* publish: the count changes and every stream that is open says so.       *)
Change ==
  /\ changes < MaxChanges /\ changes' = changes + 1
  /\ unread' \in Numbers \ {unread}
  /\ timer' = (timer \/ stream = "open")
  /\ UNCHANGED <<shown, stream, call, mounted, troubles>>

(* The laptop sleeps or the proxy gives up; the server writes on into it   *)
(* until a write fails, and the tab reconnects by itself, with a refetch.  *)
Break ==
  /\ stream = "open" /\ troubles < MaxTroubles
  /\ stream' = "broken" /\ troubles' = troubles + 1
  /\ UNCHANGED <<unread, shown, timer, call, mounted, changes>>

Drop ==
  /\ stream = "broken" /\ stream' = "closed"
  /\ UNCHANGED <<unread, shown, timer, call, mounted, changes, troubles>>

Reconnect ==
  /\ stream = "closed" /\ stream' = "open" /\ timer' = TRUE
  /\ UNCHANGED <<unread, shown, call, mounted, changes, troubles>>

TimerFires ==
  /\ timer /\ timer' = FALSE /\ Refresh
  /\ UNCHANGED <<unread, shown, stream, mounted, changes, troubles>>

(* Fault: the backstop is left out.                                        *)
NeverPolls == FALSE

Polls == mounted

(* The poll every two minutes.                                             *)
Poll ==
  /\ Polls /\ Refresh
  /\ UNCHANGED <<unread, shown, stream, timer, mounted, changes, troubles>>

Serve(i) ==
  /\ call[i] = Asked /\ call' = [call EXCEPT ![i] = unread]
  /\ UNCHANGED <<unread, shown, stream, timer, mounted, changes, troubles>>

(* Answers arrive in any order, and the last to arrive is shown.           *)
Arrive(i) ==
  /\ call[i] \in Numbers
  /\ shown' = call[i] /\ call' = [call EXCEPT ![i] = Free]
  /\ UNCHANGED <<unread, stream, timer, mounted, changes, troubles>>

Fail(i) ==
  /\ call[i] # Free /\ troubles < MaxTroubles
  /\ call' = [call EXCEPT ![i] = Free] /\ troubles' = troubles + 1
  /\ UNCHANGED <<unread, shown, stream, timer, mounted, changes>>

Next ==
  \/ Mount \/ Unmount \/ Change \/ Break \/ Drop \/ Reconnect \/ TimerFires \/ Poll
  \/ \E i \in Calls : Serve(i) \/ Arrive(i) \/ Fail(i)

(* Timers fire, a request is answered, and a browser that finds its stream *)
(* closed opens it again.  Nobody need come back to the page.              *)
Fairness ==
  /\ WF_badgeVars(Poll) /\ WF_badgeVars(TimerFires) /\ WF_badgeVars(Reconnect)
  /\ \A i \in Calls : WF_badgeVars(Serve(i)) /\ WF_badgeVars(Arrive(i))

Spec == Init /\ [][Next]_badgeVars

-----------------------------------------------------------------------------
(* Properties.                                                             *)

(* The badge shows a number the server once answered, and a page that is   *)
(* left has neither stream nor timer.                                      *)
TypeOK ==
  /\ unread \in Numbers /\ shown \in Numbers
  /\ stream \in {"open", "broken", "closed", "none"}
  /\ \A i \in Calls : call[i] \in {Free, Asked} \/ call[i] \in Numbers
  /\ ~mounted => stream = "none" /\ ~timer

(* When nothing changes any more the badge comes to the server's number    *)
(* and stays there, whatever events were lost and in whatever order the    *)
(* answers came; unless the page is left.                                  *)
BadgeCatchesUp == <>[](mounted => shown = unread) \/ []<>(~mounted)
=============================================================================
