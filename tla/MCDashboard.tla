----------------------------- MODULE MCDashboard -----------------------------
(* One browser tab of the dashboard: it shows a live page, whose hook is    *)
(* LiveStream, or the page with the analyst chat, which is Chat.  The two   *)
(* share no state, so a tab shows one of them from the start and the other  *)
(* stays as it is when nothing of it is mounted.                            *)
EXTENDS Chat, LiveStream

VARIABLE view

chatVars == vars
tabVars  == <<view, chatVars, hookVars>>

Unmounted ==
  /\ tenant = None /\ selects = 0 /\ teardownRef = TRUE
  /\ wsRef = None /\ timerRef = None /\ ping = FALSE /\ connected = FALSE /\ raced = FALSE
  /\ sock = [s \in Sockets |-> Free] /\ armed = [t \in Timers |-> None]

TabInit ==
  \/ view = "live" /\ HookInit /\ Init /\ ~blocked /\ who = CHOOSE k \in Identities : TRUE
  \/ view = "chat" /\ Init /\ Unmounted
TabNext ==
  /\ UNCHANGED view
  /\ \/ view = "live" /\ HookNext /\ UNCHANGED chatVars
     \/ view = "chat" /\ Next /\ UNCHANGED hookVars
TabSpec == TabInit /\ [][TabNext]_tabVars /\ HookFairness
=============================================================================
