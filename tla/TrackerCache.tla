----------------------------- MODULE TrackerCache -----------------------------
(***************************************************************************)
(* The cache of each torrent's primary tracker host (rpc/torrents.go       *)
(* enrichTrackers, rpc/detail.go SetTrackerEnabled).                       *)
(*                                                                         *)
(* A poll (a flight here: the poll loop, or a request for the list) takes  *)
(* the daemon's torrent list, looks the hosts up in the cache, and asks    *)
(* the daemon for the ones it lacks without holding trackerMu.  Meanwhile  *)
(* other flights, tracker toggles and the torrents themselves come and go. *)
(* A section under trackerMu is one step, and so is what the daemon does   *)
(* for one request.                                                        *)
(*                                                                         *)
(* A flight's marker is its identity.  The code numbers flights instead;   *)
(* reusing an identity once the flight has ended is the same, because no   *)
(* marker outlives its flight (MarkersOwned, checked and proved).          *)
(***************************************************************************)

CONSTANTS
    Hashes,     \* torrents
    Hosts,      \* tracker hosts
    Flights,    \* polls that may be under way at the same time
    Toggles,    \* tracker toggles that may be under way at the same time
    NoHost,     \* the empty host: no tracker, a failed row, a failed batch
    Absent,     \* no entry in the cache
    NoHash      \* a toggle that is not under way

ASSUME DistinctValues ==
    /\ NoHost \notin Hosts /\ NoHash \notin Hashes
    /\ Absent \notin Hosts \cup Flights
    /\ Hosts \cap Flights = {}

VARIABLES
    present,    \* daemon: the torrents it has
    primary,    \* daemon: primaryTrackerHost of each torrent's tracker list
    cache,      \* client: trackerCache, an entry is a host or a marker
    flight,     \* per flight: where it is
    listed,     \* per flight: the torrents of its list
    need,       \* per flight: the torrents it parked its marker for
    answered,     \* per flight: the hosts the daemon answered
    toggling,   \* per toggle: the torrent the daemon has changed, until it returns
    missed,     \* ghost: stale since a toggle whose reply was lost
    replaced    \* ghost: stale since the torrent was replaced between two polls

torrentsOfDaemon == <<present, primary>>
flights == <<flight, listed, need, answered>>
ghosts == <<missed, replaced>>
cacheVars == <<torrentsOfDaemon, cache, flights, toggling, ghosts>>

CacheTypeOK ==
    /\ present \subseteq Hashes
    /\ primary \in [Hashes -> Hosts \cup {NoHost}]
    /\ cache \in [Hashes -> Hosts \cup Flights \cup {Absent}]
    /\ flight \in [Flights -> {"idle", "listed", "fetching", "fetched"}]
    /\ listed \in [Flights -> SUBSET Hashes]
    /\ need \in [Flights -> SUBSET Hashes]
    /\ answered \in [Flights -> [Hashes -> Hosts \cup {NoHost}]]
    /\ toggling \in [Toggles -> Hashes \cup {NoHash}]
    /\ missed \subseteq Hashes
    /\ replaced \subseteq Hashes

NoLocals == [h \in Hashes |-> NoHost]

CacheInit ==
    /\ present \in SUBSET Hashes
    /\ primary \in [Hashes -> Hosts \cup {NoHost}]
    /\ cache = [h \in Hashes |-> Absent]
    /\ flight = [f \in Flights |-> "idle"]
    /\ listed = [f \in Flights |-> {}]
    /\ need = [f \in Flights |-> {}]
    /\ answered = [f \in Flights |-> NoLocals]
    /\ toggling = [t \in Toggles |-> NoHash]
    /\ missed = {} /\ replaced = {}

\* The cache holds, or is about to be given, a host other than this one.
StaleFor(h, host) ==
    \/ cache[h] \in Hosts \ {host}
    \/ \E f \in Flights : /\ cache[h] = f
                          /\ flight[f] = "fetched"
                          /\ answered[f][h] \notin {host, NoHost}

\* A torrent without an entry is looked up afresh: it is no longer stale.
ForgetGhosts ==
    /\ missed' = {h \in missed : cache'[h] # Absent}
    /\ replaced' = {h \in replaced : cache'[h] # Absent}

\* The lists of a poll are its locals: they are gone when it returns.
EndFlight(f) ==
    /\ flight' = [flight EXCEPT ![f] = "idle"]
    /\ listed' = [listed EXCEPT ![f] = {}]
    /\ need' = [need EXCEPT ![f] = {}]
    /\ answered' = [answered EXCEPT ![f] = NoLocals]

-----------------------------------------------------------------------------
(* The daemon's torrents. *)

RemoveTorrent(h) ==
    /\ h \in present
    /\ present' = present \ {h}
    /\ UNCHANGED <<primary, cache, flights, toggling, ghosts>>

\* The same torrent may come back with other trackers.
AddTorrent(h, host) ==
    /\ h \notin present
    /\ present' = present \cup {h}
    /\ primary' = [primary EXCEPT ![h] = host]
    /\ replaced' = IF StaleFor(h, host) THEN replaced \cup {h} ELSE replaced
    /\ UNCHANGED <<cache, flights, toggling, missed>>

-----------------------------------------------------------------------------
(* Poll and enrichTrackers. *)

\* d.multicall2 returns.
ListTorrents(f) ==
    /\ flight[f] = "idle"
    /\ flight' = [flight EXCEPT ![f] = "listed"]
    /\ listed' = [listed EXCEPT ![f] = present]
    /\ UNCHANGED <<torrentsOfDaemon, cache, need, answered, toggling, ghosts>>

\* First section under trackerMu: entries of torrents that are not listed are
\* pruned, whosever they are, and a marker is parked for each listed torrent
\* without an entry.  With nothing to look up the poll is over.
Park(f) ==
    LET lacking == {h \in listed[f] : cache[h] = Absent}
    IN  /\ flight[f] = "listed"
        /\ cache' = [h \in Hashes |-> IF h \in lacking THEN f
                                      ELSE IF h \in listed[f] THEN cache[h] ELSE Absent]
        /\ IF lacking = {}
           THEN EndFlight(f)
           ELSE /\ need' = [need EXCEPT ![f] = lacking]
                /\ flight' = [flight EXCEPT ![f] = "fetching"]
                /\ UNCHANGED <<listed, answered>>
        /\ ForgetGhosts
        /\ UNCHANGED <<torrentsOfDaemon, toggling>>

\* The batch of t.multicall is answered.  A row fails when the torrent is gone,
\* and any may fail; all of them do when the transport does.
Fetch(f, failed) ==
    /\ flight[f] = "fetching"
    /\ flight' = [flight EXCEPT ![f] = "fetched"]
    /\ answered' = [answered EXCEPT ![f] =
            [h \in Hashes |-> IF h \in (need[f] \cap present) \ failed
                              THEN primary[h] ELSE NoHost]]
    /\ UNCHANGED <<torrentsOfDaemon, cache, listed, need, toggling, ghosts>>

\* Mutants of Commit: a marker is left where no host
\* came; the host is stored whoever's marker, or none, is there.
CommitHostsOnly(f) ==
    /\ flight[f] = "fetched"
    /\ cache' = [h \in Hashes |->
            IF h \in need[f] /\ cache[h] = f /\ answered[f][h] # NoHost
            THEN answered[f][h] ELSE cache[h]]
    /\ EndFlight(f)
    /\ ForgetGhosts
    /\ UNCHANGED <<torrentsOfDaemon, toggling>>

CommitUnasked(f) ==
    /\ flight[f] = "fetched"
    /\ cache' = [h \in Hashes |->
            IF h \in need[f]
            THEN IF answered[f][h] = NoHost THEN Absent ELSE answered[f][h]
            ELSE cache[h]]
    /\ EndFlight(f)
    /\ ForgetGhosts
    /\ UNCHANGED <<torrentsOfDaemon, toggling>>

\* Second section under trackerMu: only where the flight's own marker is still
\* parked is the host stored, or the marker cleared when there is no host.
Commit(f) ==
    /\ flight[f] = "fetched"
    /\ cache' = [h \in Hashes |->
            IF h \in need[f] /\ cache[h] = f
            THEN IF answered[f][h] = NoHost THEN Absent ELSE answered[f][h]
            ELSE cache[h]]
    /\ EndFlight(f)
    /\ ForgetGhosts
    /\ UNCHANGED <<torrentsOfDaemon, toggling>>

-----------------------------------------------------------------------------
(* SetTrackerEnabled. *)

\* The daemon enables or disables a tracker, which may change the primary one.
ToggleApplied(t, h, host) ==
    /\ toggling[t] = NoHash
    /\ h \in present
    /\ primary' = [primary EXCEPT ![h] = host]
    /\ toggling' = [toggling EXCEPT ![t] = h]
    /\ UNCHANGED <<present, cache, flights, ghosts>>

\* Mutant of ToggleReturns: a marker is left alone.
ToggleSparesMarkers(t) ==
    /\ toggling[t] # NoHash
    /\ cache' = [cache EXCEPT ![toggling[t]] = IF @ \in Flights THEN @ ELSE Absent]
    /\ toggling' = [toggling EXCEPT ![t] = NoHash]
    /\ ForgetGhosts
    /\ UNCHANGED <<torrentsOfDaemon, flights>>

\* The reply arrives: the entry, host or marker, is deleted under trackerMu.
ToggleReturns(t) ==
    /\ toggling[t] # NoHash
    /\ cache' = [cache EXCEPT ![toggling[t]] = Absent]
    /\ toggling' = [toggling EXCEPT ![t] = NoHash]
    /\ ForgetGhosts
    /\ UNCHANGED <<torrentsOfDaemon, flights>>

\* The reply is lost (timeout, daemon restart, request cancelled): the call
\* returns its error before it reaches the deletion.
ToggleFails(t) ==
    LET h == toggling[t]
    IN  /\ h # NoHash
        /\ toggling' = [toggling EXCEPT ![t] = NoHash]
        /\ missed' = IF StaleFor(h, primary[h]) THEN missed \cup {h} ELSE missed
        /\ UNCHANGED <<torrentsOfDaemon, cache, flights, replaced>>

-----------------------------------------------------------------------------
Torrents ==
    \E h \in Hashes :
        RemoveTorrent(h) \/ \E host \in Hosts \cup {NoHost} : AddTorrent(h, host)

Poll(f) ==
    ListTorrents(f) \/ Park(f) \/ (\E failed \in SUBSET Hashes : Fetch(f, failed)) \/ Commit(f)

Toggle(t) ==
    \/ \E h \in Hashes, host \in Hosts \cup {NoHost} : ToggleApplied(t, h, host)
    \/ ToggleReturns(t)
    \/ ToggleFails(t)

CacheNext ==
    \/ Torrents
    \/ \E f \in Flights : Poll(f)
    \/ \E t \in Toggles : Toggle(t)

\* Polls keep coming (the poll loop never ends) and each runs to its end; a
\* daemon that keeps being asked answers in full now and then.
Fairness ==
    \A f \in Flights :
        /\ WF_cacheVars(ListTorrents(f)) /\ WF_cacheVars(Park(f)) /\ WF_cacheVars(Commit(f))
        /\ WF_cacheVars(\E failed \in SUBSET Hashes : Fetch(f, failed))
        /\ SF_cacheVars(Fetch(f, {}))

CacheSpec == CacheInit /\ [][CacheNext]_cacheVars
FairCacheSpec == CacheSpec /\ Fairness

-----------------------------------------------------------------------------
(* Properties. *)

Toggling(h) == \E t \in Toggles : toggling[t] = h

\* A cached host is the daemon's primary tracker, but for a toggle that has not
\* returned yet and for two changes nobody told the cache about: in particular
\* no flight ever writes back a host from before a toggle that has returned.
CacheFresh ==
    \A h \in present :
        cache[h] \in Hosts => \/ cache[h] = primary[h]
                              \/ Toggling(h)
                              \/ h \in missed \cup replaced

\* A marker belongs to a flight that is still out for that torrent.  A marker
\* left behind would keep the torrent's tracker blank for ever, since every
\* later poll would wait for a result that never comes.
MarkersOwned ==
    \A h \in Hashes, f \in Flights :
        cache[h] = f => flight[f] \in {"fetching", "fetched"} /\ h \in need[f]

\* Once torrents and trackers stay as they are, every torrent with a tracker
\* gets a host for good, however often lookups failed or were thrown away.
EveryTorrentResolved ==
    (<>[][~Torrents /\ (\A t \in Toggles : ~Toggle(t))]_cacheVars)
        => \A h \in Hashes : <>[](h \in present /\ primary[h] # NoHost => cache[h] \in Hosts)

=============================================================================
