----------------------------- MODULE LiveStream -----------------------------
(***************************************************************************)
(* The hook useRealtimeEvents of the dashboard                             *)
(* (dashboard/src/hooks/useRealtimeEvents.ts): one page that keeps one     *)
(* WebSocket to the selected tenant's stream, connects again a delay after *)
(* a socket closes, and lets go of everything when the page goes away.     *)
(*                                                                         *)
(* The three refs of the hook outlive a change of the tenant; the          *)
(* callbacks of a socket and of a timer keep the `connect` they were made  *)
(* with, so each remembers its own tenant.  close() only begins to close:  *)
(* the browser calls onclose in a later turn, and that turn may come after *)
(* the next tenant was selected.  Every action is one turn of the event    *)
(* loop.  The server is external: it accepts, refuses, drops and pushes.   *)
(***************************************************************************)
EXTENDS Naturals, FiniteSets

CONSTANTS Tenants,       \* the streams a page may select
          Sockets,       \* slots for WebSocket objects; a closed one is reused
          Timers,        \* slots for setTimeout handles
          MaxSelects,    \* how often the selection changes
          None           \* null

ASSUME LiveStreamAssumption ==
  /\ None \notin Sockets \cup Timers \cup Tenants
  /\ MaxSelects \in Nat /\ IsFiniteSet(Sockets) /\ IsFiniteSet(Timers)

VARIABLES
  tenant,        \* the selected tenant; None once the page is unmounted
  selects,       \* changes of the selection so far
  teardownRef,   \* teardownRef.current
  wsRef,         \* wsRef.current, a socket or None
  timerRef,      \* reconnectTimerRef.current: a handle, perhaps of a past timer
  ping,          \* pingTimerRef.current is an armed interval
  connected,     \* the state isConnected
  sock,          \* each socket: its readyState, tenant, and whether we closed it
  armed,         \* timers waiting to fire: handle -> the tenant of its connect
  raced          \* a socket closed on purpose reported it to a later selection

page  == <<tenant, selects>>
refs  == <<teardownRef, wsRef, timerRef, ping>>
hookVars  == <<page, refs, connected, sock, armed, raced>>

Free == [ready |-> "free", tenant |-> None, ours |-> FALSE]
Live(s) == sock[s].ready \in {"connecting", "open"}
Mounted == tenant # None
Handles == {t \in Timers : armed[t] # None}

HookTypeOK ==
  /\ tenant \in Tenants \cup {None} /\ selects \in 0 .. MaxSelects
  /\ teardownRef \in BOOLEAN /\ ping \in BOOLEAN
  /\ wsRef \in Sockets \cup {None} /\ timerRef \in Timers \cup {None}
  /\ connected \in BOOLEAN /\ raced \in BOOLEAN
  /\ sock \in [Sockets -> [ready : {"free", "connecting", "open", "closing"},
                           tenant : Tenants \cup {None}, ours : BOOLEAN]]
  /\ armed \in [Timers -> Tenants \cup {None}]

-----------------------------------------------------------------------------
(* connect of tenant t, given the sockets and the ref it finds: it does not *)
(* stack a socket on a live one, else opens one and remembers it.           *)
Connect(t, ref, socks) ==
  IF ref # None /\ socks[ref].ready \in {"connecting", "open"}
  THEN sock' = socks /\ wsRef' = ref
  ELSE \E s \in Sockets :
         /\ socks[s] = Free
         /\ sock' = [socks EXCEPT ![s] =
                       [ready |-> "connecting", tenant |-> t, ours |-> FALSE]]
         /\ wsRef' = s

(* The effect's cleanup: flag first, then the reconnect timer, the ping and *)
(* the socket the ref names.                                                *)
Cleared == IF timerRef = None THEN armed ELSE [armed EXCEPT ![timerRef] = None]
Closing == IF wsRef # None /\ Live(wsRef)
           THEN [sock EXCEPT ![wsRef].ready = "closing", ![wsRef].ours = TRUE]
           ELSE sock

HookInit ==
  /\ tenant \in Tenants /\ selects = 0
  /\ teardownRef = FALSE /\ timerRef = None /\ ping = FALSE
  /\ connected = FALSE /\ raced = FALSE
  /\ armed = [t \in Timers |-> None]
  /\ wsRef \in Sockets
  /\ sock = [s \in Sockets |->
               IF s = wsRef
               THEN [ready |-> "connecting", tenant |-> tenant, ours |-> FALSE]
               ELSE Free]

-----------------------------------------------------------------------------
(* Another tenant is selected: `connect` is a new function, so the effect   *)
(* is cleaned up and run again in one commit; the flag is set and reset.    *)
Select(t) ==
  /\ Mounted /\ t # tenant /\ selects < MaxSelects
  /\ tenant' = t /\ selects' = selects + 1
  /\ teardownRef' = FALSE /\ timerRef' = None /\ ping' = FALSE
  /\ armed' = Cleared
  /\ Connect(t, None, Closing)
  /\ UNCHANGED <<connected, raced>>

(* The page goes away: the cleanup alone.  State setters do nothing after.  *)
Unmount ==
  /\ Mounted
  /\ tenant' = None
  /\ teardownRef' = TRUE /\ timerRef' = None /\ ping' = FALSE /\ wsRef' = None
  /\ armed' = Cleared /\ sock' = Closing
  /\ UNCHANGED <<selects, connected, raced>>

(* onopen: the page is connected and a new ping interval replaces the old.  *)
Opened(s) ==
  /\ sock[s].ready = "connecting"
  /\ sock' = [sock EXCEPT ![s].ready = "open"]
  /\ connected' = (connected \/ Mounted)
  /\ ping' = TRUE
  /\ UNCHANGED <<page, teardownRef, wsRef, timerRef, armed, raced>>

(* Slip: only a page that was connected is connected again. *)
OnCloseOfOpen(s) ==
  /\ sock' = [sock EXCEPT ![s] = Free]
  /\ connected' = FALSE /\ wsRef' = None /\ ping' = FALSE
  /\ IF teardownRef \/ ~connected
     THEN UNCHANGED <<armed, timerRef>>
     ELSE \E h \in Timers \ (Handles \cup {timerRef}) :
            armed' = [armed EXCEPT ![h] = sock[s].tenant] /\ timerRef' = h
  /\ raced' = (raced \/ (sock[s].ours /\ ~teardownRef))
  /\ UNCHANGED <<page, teardownRef>>

(* onclose of socket s, whichever socket the refs are about by now: only    *)
(* the flag decides whether its tenant is connected again.                  *)
OnClose(s) ==
  /\ sock' = [sock EXCEPT ![s] = Free]
  /\ connected' = (connected /\ ~Mounted)
  /\ wsRef' = None /\ ping' = FALSE
  /\ IF teardownRef
     THEN UNCHANGED <<armed, timerRef>>
     ELSE \E h \in Timers \ (Handles \cup {timerRef}) :
            armed' = [armed EXCEPT ![h] = sock[s].tenant] /\ timerRef' = h
  /\ raced' = (raced \/ (sock[s].ours /\ ~teardownRef))
  /\ UNCHANGED <<page, teardownRef>>

(* The server refuses or drops a socket, or the network does.               *)
Drop(s) == Live(s) /\ OnClose(s)

(* The close we asked for completes.                                        *)
CloseEnds(s) == sock[s].ready = "closing" /\ OnClose(s)

(* The reconnect delay is over: the timer's own connect runs.               *)
Fire(h) ==
  /\ armed[h] # None
  /\ armed' = [armed EXCEPT ![h] = None]
  /\ Connect(armed[h], wsRef, sock)
  /\ UNCHANGED <<page, teardownRef, timerRef, ping, connected, raced>>

Network == \E s \in Sockets : Opened(s) \/ Drop(s) \/ CloseEnds(s)
HookNext ==
  \/ \E t \in Tenants : Select(t)
  \/ Unmount
  \/ Network
  \/ \E h \in Timers : Fire(h)

HookSpec == HookInit /\ [][HookNext]_hookVars

(* Timers fire and closes end; a socket that is tried again and again is    *)
(* accepted in the end.  Nobody has to leave the page or change the tenant. *)
HookFairness ==
  /\ \A h \in Timers : WF_hookVars(Fire(h))
  /\ \A s \in Sockets : WF_hookVars(CloseEnds(s)) /\ SF_hookVars(Opened(s))

-----------------------------------------------------------------------------
(* A mounted page never stops trying, however often the tenant changed and  *)
(* in whatever order closes were reported: a socket is live, or a close is  *)
(* still to be reported, or a reconnect timer is armed (lines 118-130).     *)
StreamNeverStops ==
  Mounted => Handles # {} \/ \E s \in Sockets : sock[s] # Free

(* As long as no selection was told of an earlier one's close, the page has *)
(* one live socket at most, to the selected tenant and known to the refs,   *)
(* and once it is gone no socket, timer or ping of it is left (46-50, 143). *)
UnracedPageLetsGo ==
  ~raced =>
    /\ \A s \in Sockets : Live(s) => s = wsRef /\ sock[s].tenant = tenant
    /\ \A h \in Handles : h = timerRef /\ armed[h] = tenant
    /\ ~Mounted => ~ping

(* While the server is up now and then, a page that stays mounted is        *)
(* connected again and again: the delay is not a dead end (131-133).        *)
StreamComesBack ==
  [](Mounted => <>(~Mounted \/ \E s \in Sockets : sock[s].ready = "open"))

(* "Every unmount left an immortal socket behind, and a tenant change left  *)
(* two" is what lines 46-50 say the flag ended: nothing is live after it.   *)
NothingOutlivesThePage ==
  ~Mounted => \A s \in Sockets : ~Live(s)
=============================================================================
