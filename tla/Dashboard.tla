------------------------------ MODULE Dashboard ------------------------------
(***************************************************************************)
(* One open page of server/static/index.html: the refresh that renders the  *)
(* slots and the host cards, the countdown and the button that start the    *)
(* next one, the buttons that release a slot, and the history panel of a    *)
(* card.  The functions are async: refreshes and history loads overlap.     *)
(*                                                                          *)
(* One host is enough: cards do not interact.  Of the data a refresh        *)
(* fetches, the table of slots is followed; the server answers it at some   *)
(* time between the start of the refresh and its end.                       *)
(***************************************************************************)
EXTENDS Naturals, SlotIdentifiers

CONSTANTS
  Calls,   \* invocations of refresh and reapSlot that may be in flight
  Timers,  \* handles of setInterval
  MaxLoads,  \* bound: no more than so many history loads are asked for at once
  None

ASSUME PageAssumption == MaxLoads \in Nat \ {0} /\ None \notin Slots \union Timers

VARIABLES
  table,      \* ids in the server's table slots
  adapter,    \* the chart adapter, from a CDN: its onload refreshes the page
  live,       \* intervals that still tick
  countdown,  \* countdownTimer
  call,       \* where an invocation of refresh is, and what it was told
  shown,      \* ids with a Release button: in the cards, and on the tab Dev Slots
  card,       \* the host's card: absent, folded or expanded
  panel,      \* its history panel
  loads       \* invocations of loadHistory in flight for that panel

page == <<adapter, live, countdown, call, shown, card, panel, loads>>

pageVars == <<table, page>>

Rest == [at |-> "idle", id |-> None, told |-> {}]

PageInit ==
  /\ table = {}
  /\ adapter = "loading"
  /\ live = {}
  /\ countdown = None
  /\ call = [c \in Calls |-> Rest]
  /\ shown = [hosts |-> {}, devSlots |-> {}]
  /\ card = "absent"
  /\ panel = "empty"
  /\ loads = 0

Idle(c) == call[c] = Rest

Refresh(c) == call' = [call EXCEPT ![c] = [Rest EXCEPT !.at = "asking"]]

-----------------------------------------------------------------------------
(* Starting a refresh: the adapter's onload, the countdown, the two buttons. *)

AdapterLoads(c) ==
  /\ adapter = "loading"
  /\ Idle(c)
  /\ adapter' = "ready"
  /\ Refresh(c)
  /\ UNCHANGED <<table, live, countdown, shown, card, panel, loads>>

\* No onload: the page waits for somebody who presses Refresh.
AdapterFails ==
  /\ adapter = "loading"
  /\ adapter' = "failed"
  /\ UNCHANGED <<table, live, countdown, call, shown, card, panel, loads>>

\* The button is there from the start, whatever becomes of the adapter, and the
\* countdown goes on meanwhile.
PressRefresh(c) ==
  /\ Idle(c)
  /\ Refresh(c)
  /\ UNCHANGED <<table, adapter, live, countdown, shown, card, panel, loads>>

\* secondsLeft is 0: the callback clears countdownTimer, whichever that is.
Fire(t, c) ==
  /\ t \in live
  /\ Idle(c)
  /\ live' = live \ {countdown}
  /\ Refresh(c)
  /\ UNCHANGED <<table, adapter, countdown, shown, card, panel, loads>>

Click(id, c) ==
  /\ id \in shown.hosts \union shown.devSlots
  /\ Idle(c)
  /\ call' = [call EXCEPT ![c] = [Rest EXCEPT !.at = "reaping", !.id = id]]
  /\ UNCHANGED <<table, adapter, live, countdown, shown, card, panel, loads>>

\* DELETE is served, 204 or 404: fetch resolves.
Reaped(c) ==
  /\ call[c].at = "reaping"
  /\ table' = table \ {call[c].id}
  /\ Refresh(c)
  /\ UNCHANGED <<adapter, live, countdown, shown, card, panel, loads>>

\* It is lost, on its way or on its way back; the page refreshes all the same.
ReapLost(c) ==
  /\ call[c].at = "reaping"
  /\ table' \in {table, table \ {call[c].id}}
  /\ Refresh(c)
  /\ UNCHANGED <<adapter, live, countdown, shown, card, panel, loads>>

-----------------------------------------------------------------------------
(* The rest of refresh. *)

\* GET /api/slots is served: every row, also of expired slots.
Told(c) ==
  /\ call[c].at = "asking"
  /\ call' = [call EXCEPT ![c].at = "told", ![c].told = table]
  /\ UNCHANGED <<table, adapter, live, countdown, shown, card, panel, loads>>

\* Mutated form of ResetCountdown: clearInterval is missing.
ResetCountdownOnly ==
  \E t \in Timers \ live :
    /\ live' = live \union {t}
    /\ countdown' = t

ResetCountdown ==
  \E t \in Timers \ live :
    /\ live' = (live \ {countdown}) \union {t}
    /\ countdown' = t

\* Mutated form of Rerender: what was expanded is expanded again, and left empty.
RerenderUnloaded ==
  /\ card' = IF card = "expanded" THEN "expanded" ELSE "folded"
  /\ panel' = "empty"
  /\ loads' = 0

\* tab-hosts gets a new card; one that is expanded at this moment is expanded
\* again, and its history loaded anew.  What is in flight for the old panel writes
\* to an element that is no longer in the page.
Rerender ==
  \/ /\ card # "expanded"
     /\ card' = "folded" /\ panel' = "empty" /\ loads' = 0
  \/ /\ card = "expanded"
     /\ card' = "expanded" /\ panel' = "loading" /\ loads' = 1

\* Every answer is there and well formed.
Render(c) ==
  /\ call[c].at = "told"
  /\ shown' = [hosts |-> call[c].told, devSlots |-> call[c].told]
  /\ Rerender
  /\ ResetCountdown
  /\ call' = [call EXCEPT ![c] = Rest]
  /\ UNCHANGED <<table, adapter>>

\* Mutated form of RefreshFails: `return` in the catch, before resetCountdown.
RefreshFailsUnarmed(c) ==
  /\ call[c].at \in {"asking", "told"}
  /\ call' = [call EXCEPT ![c] = Rest]
  /\ UNCHANGED <<table, adapter, live, countdown, shown, card, panel, loads>>

\* No connection, or an answer that is not what it should be and is found out
\* before the cards are replaced: the catch, and the countdown all the same.
RefreshFails(c) ==
  /\ call[c].at \in {"asking", "told"}
  /\ ResetCountdown
  /\ call' = [call EXCEPT ![c] = Rest]
  /\ UNCHANGED <<table, adapter, shown, card, panel, loads>>

\* Found out by the renderer of a later tab: the cards are new, Dev Slots is not.
RenderFails(c) ==
  /\ call[c].at = "told"
  /\ shown' = [shown EXCEPT !.hosts = call[c].told]
  /\ Rerender
  /\ ResetCountdown
  /\ call' = [call EXCEPT ![c] = Rest]
  /\ UNCHANGED <<table, adapter>>

-----------------------------------------------------------------------------
(* toggleExpand and loadHistory. *)

\* Mutated form of Fold: the load is called off, in flight or not.
FoldCallsOff ==
  /\ card = "expanded"
  /\ card' = "folded"
  /\ loads' = loads - 1
  /\ UNCHANGED <<table, adapter, live, countdown, call, shown, panel>>

Fold ==
  /\ card = "expanded"
  /\ card' = "folded"
  /\ UNCHANGED <<table, adapter, live, countdown, call, shown, panel, loads>>

Expand ==
  /\ card = "folded"
  /\ card' = "expanded"
  /\ panel' = "loading"
  /\ loads < MaxLoads
  /\ loads' = loads + 1
  /\ UNCHANGED <<table, adapter, live, countdown, call, shown>>

\* The panel that loadHistory looked up gets the charts, or the error.
LoadEnds ==
  /\ loads > 0
  /\ panel' \in {"charts", "error"}
  /\ loads' = loads - 1
  /\ UNCHANGED <<table, adapter, live, countdown, call, shown, card>>

-----------------------------------------------------------------------------
(* The page amid all others who change the table: callers, the reaper, pages. *)

Others ==
  /\ table' \in SUBSET Slots
  /\ UNCHANGED page

PageNext ==
  \/ Others
  \/ AdapterFails \/ Fold \/ Expand \/ LoadEnds
  \/ \E c \in Calls :
       \/ AdapterLoads(c) \/ PressRefresh(c)
       \/ (\E t \in Timers : Fire(t, c)) \/ (\E id \in Slots : Click(id, c))
       \/ Reaped(c) \/ ReapLost(c)
       \/ Told(c) \/ Render(c) \/ RefreshFails(c) \/ RenderFails(c)

PageSpec == PageInit /\ [][PageNext]_pageVars

\* Requests are answered or fail, timers fire, and a page that tries again and
\* again gets through again and again.
Fairness ==
  /\ WF_pageVars(\E t \in Timers, c \in Calls : Fire(t, c))
  /\ \A c \in Calls :
       WF_pageVars(Reaped(c) \/ ReapLost(c)) /\ SF_pageVars(Told(c)) /\ SF_pageVars(Render(c))

FairPageSpec == PageSpec /\ Fairness

-----------------------------------------------------------------------------
\* The type invariant; a call that has not been told yet has no list.
PageTypeOK ==
  /\ table \subseteq Slots
  /\ adapter \in {"loading", "ready", "failed"}
  /\ live \subseteq Timers
  /\ countdown \in Timers \union {None}
  /\ call \in [Calls -> [at : {"idle", "reaping", "asking", "told"},
                         id : Slots \union {None}, told : SUBSET Slots]]
  /\ \A c \in Calls : call[c].at # "told" => call[c].told = {}
  /\ shown \in [hosts : SUBSET Slots, devSlots : SUBSET Slots]
  /\ card \in {"absent", "folded", "expanded"}
  /\ panel \in {"empty", "loading", "charts", "error"}
  /\ loads \in 0..MaxLoads

\* The page has been refreshed, or is about to be.
Begun == adapter = "ready" \/ countdown # None

\* The page never stops refreshing and never refreshes twice as often: however
\* refreshes overlap and fail, and whoever starts them, one countdown runs at most,
\* and while none does a refresh is on its way that will start one
\* (index.html:269, 377-384, 853-923).
OneCountdown ==
  /\ live \subseteq {countdown}
  /\ Begun /\ live = {} => \E c \in Calls : ~Idle(c)

\* A panel that says "Loading" has a load in flight that will find it, although
\* refreshes replace the panel under loads (index.html:789-846, 869-898).
PanelLoads ==
  card = "expanded" =>
    /\ panel # "empty"
    /\ panel = "loading" => loads > 0

\* The page follows the server: once it was refreshed for the first time, it shows
\* a slot that stays in the end, and never shows one for ever that has gone, in
\* cards and table alike, although refreshes overtake each other and fail midway,
\* and an older list may be rendered last (index.html:853-923).
PageFollows ==
  \A id \in Slots :
    /\ <>[](id \in table) /\ <>Begun => <>[](id \in shown.hosts /\ id \in shown.devSlots)
    /\ <>[](id \notin table) => <>[](id \notin shown.hosts \union shown.devSlots)
=============================================================================
