----------------------------- MODULE DetailPanel -----------------------------
(***************************************************************************)
(* The browser's detail panel (stores/detail.svelte.ts, RowDetail.svelte,  *)
(* poll.svelte.ts): it loads what a tab shows when the tab is opened,      *)
(* refreshes it silently every three seconds while the page is visible,   *)
(* and changes file priorities and trackers.  Requests are answered, and   *)
(* the answers arrive, in any order; the server's side is ApiRequests.     *)
(*                                                                         *)
(* What a tab shows is the torrent it is of and the version of that        *)
(* torrent's state it was read from.  refreshSeq is compared for equality  *)
(* with the latest alone: a flight keeps whether it is the latest.         *)
(***************************************************************************)
EXTENDS Integers

CONSTANTS
    Hashes,         \* torrents
    NoHash,         \* the panel is closed
    Tabs,           \* "general", which shows the pieces, and tabs with mutations
    Slots,          \* bound: requests that may be out at once
    MaxVersion,     \* bound: versions of a torrent's state
    MaxActs         \* bound: what the user does altogether

ASSUME PanelAssumption ==
    /\ "general" \in Tabs /\ NoHash \notin Hashes
    /\ MaxVersion \in Nat /\ MaxActs \in Nat

VARIABLES
    active,     \* activeHash
    tab,
    shown,      \* per tab: what it holds, files, peers and trackers or pieces
    busy,
    inView,     \* lifecycle.visible
    flights,    \* per slot: a request that is out
    version,    \* per torrent: the daemon's state, as what changed it
    refreshed,  \* ghost: per torrent and tab, the version a refresh has shown there last
    acts        \* what the user has done, counted

panelVars == <<active, tab, shown, busy, inView, flights, version, refreshed, acts>>

Nothing == [of |-> NoHash, version |-> 0]
NoFlight == [kind |-> "none", of |-> NoHash, tab |-> "general", latest |-> FALSE, got |-> -1]

PanelTypeOK ==
    /\ active \in Hashes \cup {NoHash} /\ tab \in Tabs
    /\ shown \in [Tabs -> [of : Hashes \cup {NoHash}, version : 0..MaxVersion]]
    /\ busy \in BOOLEAN /\ inView \in BOOLEAN
    /\ flights \in [Slots -> [kind : {"none", "load", "refresh", "mutation", "reload"},
                              of : Hashes \cup {NoHash}, tab : Tabs, latest : BOOLEAN,
                              got : -1..MaxVersion]]
    /\ version \in [Hashes -> 0..MaxVersion]
    /\ refreshed \in [Hashes -> [Tabs -> 0..MaxVersion]]
    /\ acts \in 0..MaxActs

Free == {f \in Slots : flights[f].kind = "none"}
Flight(kind, hash, of) ==
    [kind |-> kind, of |-> hash, tab |-> of, latest |-> kind = "refresh", got |-> -1]

\* A request leaves in some free slot.
Launched(out, request) ==
    [out EXCEPT ![CHOOSE f \in Slots : out[f].kind = "none"] = request]

\* Mutant of Superseded: a refresh does not put an end to earlier ones.
SupersededNever(out) == out

\* ++refreshSeq: no earlier refresh is the latest any more.
Superseded(out) == [f \in Slots |-> [out[f] EXCEPT !.latest = FALSE]]

\* refreshActive, of the panel as it is after an action.
Refreshed(out, hash, of) ==
    IF busy THEN out ELSE Launched(Superseded(out), Flight("refresh", hash, of))

-----------------------------------------------------------------------------
(* The user. *)

\* open: the panel loads, and refreshes at once when that mounts it.  open of the
\* torrent that is open is Close.
OpenPanel(h) ==
    /\ h # active /\ \E f, g \in Free : f # g
    /\ active' = h /\ tab' = "general"
    /\ shown' = [shown EXCEPT !["general"] = Nothing]
    /\ LET loading == Launched(flights, Flight("load", h, "general"))
       IN flights' = IF inView /\ active = NoHash THEN Refreshed(loading, h, "general") ELSE loading
    /\ UNCHANGED <<busy, inView, version, refreshed>>

Close ==
    /\ active # NoHash /\ active' = NoHash
    /\ UNCHANGED <<tab, shown, busy, inView, flights, version, refreshed>>

SetTab(t) ==
    /\ active # NoHash /\ Free # {}
    /\ tab' = t
    /\ flights' = Launched(flights, Flight("load", active, t))
    /\ UNCHANGED <<active, shown, busy, inView, version, refreshed>>

\* setFilePriority, toggleTracker: the row that was clicked is one that is shown.
Mutate ==
    /\ active # NoHash /\ tab # "general" /\ shown[tab] # Nothing /\ Free # {}
    /\ busy' = TRUE
    /\ flights' = Launched(flights, Flight("mutation", active, tab))
    /\ UNCHANGED <<active, tab, shown, inView, version, refreshed>>

\* A page that is shown again refreshes at once.
Look ==
    /\ inView' = ~inView
    /\ IF inView' /\ active # NoHash
       THEN Free # {} /\ flights' = Refreshed(flights, active, tab)
       ELSE UNCHANGED flights
    /\ UNCHANGED <<active, tab, shown, busy, version, refreshed>>

-----------------------------------------------------------------------------
(* The interval, the server and the network. *)

\* pollWhileVisible.
PollPanel ==
    /\ inView /\ active # NoHash /\ ~busy /\ Free # {}
    /\ flights' = Refreshed(flights, active, tab)
    /\ UNCHANGED <<active, tab, shown, busy, inView, version, refreshed, acts>>

\* The server reads or changes the torrent's state.
Serve(f) ==
    /\ flights[f].kind # "none" /\ flights[f].got = -1
    /\ LET h == flights[f].of
           now == IF flights[f].kind = "mutation" THEN version[h] + 1 ELSE version[h]
       IN /\ now <= MaxVersion
          /\ version' = [version EXCEPT ![h] = now]
          /\ flights' = [flights EXCEPT ![f].got = now]
    /\ UNCHANGED <<active, tab, shown, busy, inView, refreshed, acts>>

Answered(f) == [of |-> flights[f].of, version |-> flights[f].got]
Lands(f, kind) == flights[f].kind = kind /\ flights[f].got # -1

\* load: whatever has become of the panel, the answer is shown in its tab.
LoadArrives(f) ==
    /\ Lands(f, "load")
    /\ shown' = [shown EXCEPT ![flights[f].tab] = Answered(f)]
    /\ flights' = [flights EXCEPT ![f] = NoFlight]
    /\ UNCHANGED <<active, tab, busy, inView, version, refreshed, acts>>

\* Mutant of Applies: the torrent is not compared.
AppliesToAny(f) == flights[f].latest /\ tab = flights[f].tab /\ ~busy

\* Mutant of Applies: the tab is not compared.
AppliesToAnyTab(f) == flights[f].latest /\ active = flights[f].of /\ ~busy

\* refreshActive, after its await.
Applies(f) ==
    flights[f].latest /\ active = flights[f].of /\ tab = flights[f].tab /\ ~busy

RefreshArrives(f) ==
    /\ Lands(f, "refresh")
    /\ IF Applies(f)
       THEN /\ shown' = [shown EXCEPT ![flights[f].tab] = Answered(f)]
            /\ refreshed' = [refreshed EXCEPT ![flights[f].of][flights[f].tab] = flights[f].got]
       ELSE UNCHANGED <<shown, refreshed>>
    /\ flights' = [flights EXCEPT ![f] = NoFlight]
    /\ UNCHANGED <<active, tab, busy, inView, version, acts>>

\* A mutation is followed by a load of what is open then.
MutationArrives(f) ==
    /\ Lands(f, "mutation")
    /\ flights' = [flights EXCEPT ![f] =
           IF active = NoHash THEN NoFlight ELSE Flight("reload", active, tab)]
    /\ busy' = (busy /\ active # NoHash)
    /\ UNCHANGED <<active, tab, shown, inView, version, refreshed, acts>>

ReloadArrives(f) ==
    /\ Lands(f, "reload")
    /\ shown' = [shown EXCEPT ![flights[f].tab] = Answered(f)]
    /\ flights' = [flights EXCEPT ![f] = NoFlight]
    /\ busy' = FALSE
    /\ UNCHANGED <<active, tab, inView, version, refreshed, acts>>

\* Mutant of Fails: busy is cleared when all has gone well only.
FailsBusy(f) ==
    /\ flights[f].kind # "none"
    /\ flights' = [flights EXCEPT ![f] = NoFlight]
    /\ UNCHANGED <<active, tab, shown, busy, inView, version, refreshed, acts>>

\* A request that fails leaves what is shown; busy ends with its mutation.
Fails(f) ==
    /\ flights[f].kind # "none"
    /\ flights' = [flights EXCEPT ![f] = NoFlight]
    /\ busy' = IF flights[f].kind \in {"mutation", "reload"} THEN FALSE ELSE busy
    /\ UNCHANGED <<active, tab, shown, inView, version, refreshed, acts>>

-----------------------------------------------------------------------------

PanelInit ==
    /\ active = NoHash /\ tab = "general"
    /\ shown = [t \in Tabs |-> Nothing]
    /\ busy = FALSE /\ inView = TRUE
    /\ flights = [f \in Slots |-> NoFlight]
    /\ version = [h \in Hashes |-> 0]
    /\ refreshed = [h \in Hashes |-> [t \in Tabs |-> 0]]
    /\ acts = 0

UserActs ==
    /\ acts < MaxActs /\ acts' = acts + 1
    /\ \/ \E h \in Hashes : OpenPanel(h)
       \/ Close
       \/ \E t \in Tabs : SetTab(t)
       \/ Mutate \/ Look

Ends(f) ==
    LoadArrives(f) \/ RefreshArrives(f) \/ MutationArrives(f) \/ ReloadArrives(f) \/ Fails(f)

Work == PollPanel \/ \E f \in Slots : Serve(f) \/ Ends(f)

PanelNext == UserActs \/ Work

PanelSpec == PanelInit /\ [][PanelNext]_panelVars

\* The interval fires and every request ends; and now and then a refresh is
\* answered before the next one leaves.  A server that always takes longer than
\* three seconds keeps every answer from being shown.
FairPanelSpec ==
    /\ PanelSpec /\ WF_panelVars(PollPanel)
    /\ \A f \in Slots :
           /\ WF_panelVars(Serve(f)) /\ WF_panelVars(Ends(f))
           /\ SF_panelVars(flights[f].latest /\ Serve(f))
           /\ SF_panelVars(RefreshArrives(f) /\ Applies(f))

-----------------------------------------------------------------------------
(* Properties. *)

\* What silent refreshes show of a torrent in a tab never goes back in time, and a
\* refresh changes the tab on display alone, where it shows the open torrent,
\* whichever answer overtakes which and wherever the user has been meanwhile
\* (refreshActive: refreshSeq and what it checks again).
RefreshesKeepTheirPlace ==
    [][/\ \A h \in Hashes, t \in Tabs : refreshed'[h][t] >= refreshed[h][t]
       /\ \A f \in Slots : (Lands(f, "refresh") /\ flights'[f] = NoFlight /\ shown' # shown) =>
              /\ shown'[tab].of = active
              /\ \A t \in Tabs \ {tab} : shown'[t] = shown[t]]_panelVars

\* Whatever a late answer has put on display, a panel that is left open shows the
\* daemon's state of its torrent in the end, and a mutation never leaves it
\* unrefreshed (pollWhileVisible, busy).
Current == active # NoHash /\ shown[tab] = [of |-> active, version |-> version[active]]
PanelCatchesUp ==
    (<>[][~UserActs]_panelVars /\ <>[](inView /\ active # NoHash)) => <>[]Current

\* The pieces on display are the open torrent's: a load that open() has started
\* is guarded like the refreshes it races (RowDetail.svelte).
PiecesAreOfTheTorrent ==
    (active # NoHash /\ shown["general"] # Nothing) => shown["general"].of = active
=============================================================================
