------------------------------ MODULE ApiRequests ------------------------------
(***************************************************************************)
(* Requests to the JSON API (api/server.go, actions.go, detail.go, fs.go,  *)
(* rpc_passthrough.go, rpc_proxy.go; rpc/actions.go, rpc/methods.go): each *)
(* passes the guards, runs its commands at the daemon one after the other, *)
(* and is answered.  A caller may stop waiting while the daemon still      *)
(* works, and several requests run at once.  Removing data and browsing    *)
(* also work on the file system.                                           *)
(***************************************************************************)
EXTENDS PathSafe, Guards, FiniteSets

CONSTANTS
    Slots,          \* the requests of a behaviour, one each
    Hashes,
    Worlds,         \* bound: the configurations, reports and requests explored
    Tree,           \* the file system at first
    DirCap, ScanCap \* browseDirCap, browseScanCap

ASSUME FileSystemAssumption == Tree \subseteq Seq(Names) /\ DirCap \in Nat /\ ScanCap \in Nat

\* Whatever is configured, reported or asked for has its place in the file system.
ASSUME WorldsAssumption ==
    \A world \in Worlds :
        /\ \A h \in Hashes :
               world.base[h].abs => Clean(world.base[h].parts) \in DOMAIN Target
        /\ \A s \in Slots :
               /\ world.req[s].form \in {"good", "malformed", "dollar"}
               /\ world.req[s].route \in Routes /\ world.req[s].hash \in Hashes
               /\ world.req[s].path.abs => Clean(world.req[s].path.parts) \in DOMAIN Target
        /\ {world.cfg.mock, world.cfg.passthrough, world.cfg.deleteWithData} \subseteq BOOLEAN

VARIABLES
    cfg,            \* the configuration
    base,           \* per torrent: what the daemon reports as d.base_path
    session,        \* the torrents rtorrent has
    tree,           \* the file system
    req,            \* per slot: the request that arrives some time
    at,             \* per slot: which of its steps is next
    phase,          \* per slot: "idle", "ready", "sent", "unlinking", "listing", "answered"
    wire,           \* slots whose command is in the daemon's hands
    reply,          \* per slot: the daemon's reply, "none", "ok" or "fault"
    executed,       \* per slot: how many of its commands the daemon has executed
    target,         \* per slot: the directory to unlink or to list
    removers,       \* slots with an os.RemoveAll at work
    deleted,        \* ghost: per slot, the paths it has unlinked
    answer          \* per slot: [code, entries, truncated]

vars == <<cfg, base, session, tree, req, at, phase, wire, reply, executed, target, removers,
          deleted, answer>>

Nowhere == <<"nowhere">>    \* no target; no path of the file system
NoAnswer == [code |-> "none", entries |-> {}, truncated |-> FALSE]

Codes == {"none", "ok", "page", "forbidden", "unauthorized", "bad_request", "unavailable",
          "rpc_error", "unreachable", "untrusted_path", "erased", "erased_with_data",
          "data_delete_failed", "bad_path", "outside", "not_found", "listed", "list_failed",
          "timeout"}

TypeOK ==
    /\ session \subseteq Hashes /\ tree \subseteq Tree
    /\ at \in [Slots -> Nat \ {0}]
    /\ phase \in [Slots -> {"idle", "ready", "sent", "unlinking", "listing", "answered"}]
    /\ wire \subseteq Slots /\ reply \in [Slots -> {"none", "ok", "fault"}]
    /\ executed \in [Slots -> Nat] /\ target \in [Slots -> Seq(Names) \cup {Nowhere}]
    /\ removers \subseteq Slots /\ deleted \in [Slots -> SUBSET Tree]
    /\ answer \in [Slots -> [code : Codes, entries : SUBSET Seq(Names), truncated : BOOLEAN]]

-----------------------------------------------------------------------------
(* The steps of a request: commands of the daemon, and work of its own. *)

OwnWork == {"validate", "unlink", "list"}

\* Mutant of DataSteps: unlinking comes before the torrent is erased.
DataStepsUnlinkFirst == <<"d.base_path", "validate", "unlink", "d.erase">>

\* handleErase with data: the path is read while the torrent is still there, and
\* unlinked once it is gone.
DataSteps == <<"d.base_path", "validate", "d.erase", "unlink">>

Steps(q) ==
    CASE q.route = "eraseData" -> DataSteps
      [] q.route = "erase" -> <<"d.erase">>
      [] q.route = "add" -> <<"load">>
      [] q.route = "pause" -> <<"d.stop", "d.close">>
      [] q.route = "throttle" -> <<"throttle.down", "throttle.up">>
      [] q.route = "filePriority" -> <<"f.priority.set", "d.update_priorities">>
      [] q.route = "trackerEnabled" -> <<"t.is_enabled.set">>
      [] q.route \in {"start", "stop", "recheck", "announce", "label", "priority", "directory"}
         -> <<"d.command">>
      [] q.route \in {"rpc", "proxy"} -> <<"any">>
      [] q.route \in {"files", "peers", "trackers", "pieces"} -> <<"read">>
      [] q.route \in {"torrents", "stats", "health"} -> <<"look">>
      [] q.route = "version" -> <<"look", "look">>
      [] q.route = "browse" -> <<"list">>
      [] q.route = "config" -> <<>>

\* In mock mode torrents and their details are made up, without a daemon.
MadeUp == (Gets \ {"version", "browse"}) \cup {"filePriority", "trackerEnabled"}
StepsOf(s) == IF cfg.mock /\ req[s].route \in MadeUp THEN <<>> ELSE Steps(req[s])
Finished(s) == at[s] > Len(StepsOf(s))
Step(s) == StepsOf(s)[at[s]]
Commanding(s) == ~Finished(s) /\ Step(s) \notin OwnWork
Changing == {"d.erase", "load", "d.stop", "d.close", "throttle.down", "throttle.up",
             "f.priority.set", "d.update_priorities", "t.is_enabled.set", "d.command", "any"}

\* What a command needs, and what may become of the torrents.
Serves(command, hash) ==
    command \in {"load", "throttle.down", "throttle.up", "look", "any"} \/ hash \in session
AfterCommand(command, hash) ==
    CASE command = "d.erase" -> {session \ {hash}}
      [] command = "load" -> {session \cup {hash}}
      [] command = "any" -> {session, session \ {hash}}
      [] OTHER -> {session}

-----------------------------------------------------------------------------
(* Arriving and being answered. *)

Answered(s, code) ==
    /\ phase' = [phase EXCEPT ![s] = "answered"]
    /\ answer' = [answer EXCEPT ![s] = [NoAnswer EXCEPT !.code = code]]

\* ServeHTTP: the guards, then the handler.
Arrive(s) ==
    /\ phase[s] = "idle"
    /\ IF Verdict(cfg, req[s]) = "pass"
       THEN phase' = [phase EXCEPT ![s] = "ready"] /\ UNCHANGED answer
       ELSE Answered(s, Verdict(cfg, req[s]))
    /\ UNCHANGED <<cfg, base, session, tree, req, at, wire, reply, executed, target, removers,
                   deleted>>

\* writeOK, after the last step.
Finish(s) ==
    /\ phase[s] = "ready" /\ Finished(s)
    /\ Answered(s, IF req[s].route \in Deletes THEN "erased" ELSE "ok")
    /\ UNCHANGED <<cfg, base, session, tree, req, at, wire, reply, executed, target, removers,
                   deleted>>

-----------------------------------------------------------------------------
(* Commands: rpc.Client.Call. *)

Send(s) ==
    /\ phase[s] = "ready" /\ Commanding(s)
    /\ phase' = [phase EXCEPT ![s] = "sent"]
    /\ wire' = wire \cup {s}
    /\ UNCHANGED <<cfg, base, session, tree, req, at, reply, executed, target, removers,
                   deleted, answer>>

\* The daemon executes a command or refuses it, whoever still waits for it.
Execute(s) ==
    /\ s \in wire
    /\ wire' = wire \ {s}
    /\ \/ /\ Serves(Step(s), req[s].hash)
          /\ session' \in AfterCommand(Step(s), req[s].hash)
          /\ executed' = [executed EXCEPT ![s] = @ + 1]
          /\ reply' = [reply EXCEPT ![s] = "ok"]
       \/ /\ reply' = [reply EXCEPT ![s] = "fault"]
          /\ UNCHANGED <<session, executed>>
    /\ UNCHANGED <<cfg, base, tree, req, at, phase, target, removers, deleted, answer>>

\* The version is shown without what could not be read (handleVersion); the proxy
\* passes a refusal on as it is (handleRPCProxy).
Optional(s) == req[s].route = "version"
Indifferent(s) == req[s].route \in {"version", "proxy"}
Complaint(s) == IF req[s].route = "health" THEN "unreachable" ELSE "rpc_error"

\* Mutant of Reply: a refusal of the daemon is taken for an answer.
ReplyUnread(s) ==
    /\ phase[s] = "sent" /\ reply[s] # "none"
    /\ reply' = [reply EXCEPT ![s] = "none"]
    /\ at' = [at EXCEPT ![s] = @ + 1]
    /\ phase' = [phase EXCEPT ![s] = "ready"] /\ UNCHANGED answer
    /\ UNCHANGED <<cfg, base, session, tree, req, wire, executed, target, removers, deleted>>

Reply(s) ==
    /\ phase[s] = "sent" /\ reply[s] # "none"
    /\ reply' = [reply EXCEPT ![s] = "none"]
    /\ IF reply[s] = "ok" \/ Indifferent(s)
       THEN /\ at' = [at EXCEPT ![s] = @ + 1]
            /\ phase' = [phase EXCEPT ![s] = "ready"] /\ UNCHANGED answer
       ELSE Answered(s, Complaint(s)) /\ UNCHANGED at
    /\ UNCHANGED <<cfg, base, session, tree, req, wire, executed, target, removers, deleted>>

\* writeRPCErr: the daemon could not be reached, or the request was given up:
\* its deadline passed, the connection broke, or its client went away.
Unanswered(s, code) ==
    /\ Answered(s, code)
    /\ UNCHANGED <<cfg, base, session, tree, req, at, wire, reply, executed, target, removers,
                   deleted>>
Unreachable(s) ==
    /\ phase[s] = "ready" /\ Commanding(s)
    /\ IF Optional(s)
       THEN /\ at' = [at EXCEPT ![s] = @ + 1]
            /\ UNCHANGED <<cfg, base, session, tree, req, phase, wire, reply, executed, target,
                           removers, deleted, answer>>
       ELSE Unanswered(s, "unreachable")

\* Mutant of GiveUp: a command that was sent has no deadline.
GiveUpUnsent(s) ==
    /\ phase[s] = "ready" /\ Commanding(s)
    /\ Unanswered(s, IF Optional(s) THEN "ok" ELSE Complaint(s))

GiveUp(s) ==
    /\ phase[s] \in {"ready", "sent"} /\ Commanding(s)
    /\ Unanswered(s, IF Optional(s) THEN "ok" ELSE Complaint(s))

-----------------------------------------------------------------------------
(* Removing data: the middle and the end of handleErase, osDeleter. *)

\* Both gates: whether there is something to unlink, and it may be.
DataAt(given) ==
    LET lexical == ValidateBasePath(given, CleanRoots)
        resolved == ResolveAndRevalidate(Clean(given.parts), tree)
    IN IF lexical = "empty" \/ (lexical = "ok" /\ resolved = "gone") THEN "nothing"
       ELSE IF lexical = "ok" /\ resolved = "ok" THEN "inside" ELSE "outside"

Validate(s) ==
    /\ phase[s] = "ready" /\ ~Finished(s) /\ Step(s) = "validate"
    /\ \E data \in {DataAt(base[req[s].hash])} :
           \/ /\ data = "nothing"
              /\ at' = [at EXCEPT ![s] = @ + 1]
              /\ UNCHANGED <<phase, answer, target>>
           \/ /\ data = "inside"
              /\ at' = [at EXCEPT ![s] = @ + 1]
              /\ target' = [target EXCEPT ![s] = Target[Clean(base[req[s].hash].parts)]]
              /\ UNCHANGED <<phase, answer>>
           \/ /\ data = "outside"
              /\ Answered(s, "untrusted_path")
              /\ UNCHANGED <<at, target>>
    /\ UNCHANGED <<cfg, base, session, tree, req, wire, reply, executed, removers, deleted>>

\* There is nothing to unlink, or os.RemoveAll starts under its watchdog.
Unlink(s) ==
    /\ phase[s] = "ready" /\ ~Finished(s) /\ Step(s) = "unlink"
    /\ IF target[s] = Nowhere
       THEN at' = [at EXCEPT ![s] = @ + 1] /\ UNCHANGED <<phase, removers>>
       ELSE /\ phase' = [phase EXCEPT ![s] = "unlinking"]
            /\ removers' = removers \cup {s} /\ UNCHANGED at
    /\ UNCHANGED <<cfg, base, session, tree, req, wire, reply, executed, target, deleted, answer>>

Beneath(path) == {p \in tree : IsPrefix(path, p)}

\* One unlink or rmdir of os.RemoveAll, which follows no link.
RemoveOne(s) ==
    /\ s \in removers
    /\ \E p \in Beneath(target[s]) :
           /\ Beneath(p) = {p}
           /\ tree' = tree \ {p}
           /\ deleted' = [deleted EXCEPT ![s] = @ \cup {p}]
    /\ UNCHANGED <<cfg, base, session, req, at, phase, wire, reply, executed, target, removers,
                   answer>>

\* It is done or has failed; whoever still waits is told.
RemoverEnds(s, code) ==
    /\ removers' = removers \ {s}
    /\ IF phase[s] = "unlinking" THEN Answered(s, code) ELSE UNCHANGED <<phase, answer>>
    /\ UNCHANGED <<cfg, base, session, tree, req, at, wire, reply, executed, target, deleted>>
Removed(s) == s \in removers /\ Beneath(target[s]) = {} /\ RemoverEnds(s, "erased_with_data")
RemoveFails(s) ==
    s \in removers /\ Beneath(target[s]) # {} /\ RemoverEnds(s, "data_delete_failed")

\* Mutant of Watchdog: it waits for the removal to end.
WatchdogPatient(s) ==
    /\ phase[s] = "unlinking" /\ s \notin removers
    /\ Answered(s, "data_delete_failed")
    /\ UNCHANGED <<cfg, base, session, tree, req, at, wire, reply, executed, target, removers,
                   deleted>>

\* The budget bounds the wait; the goroutine is abandoned, not stopped.
Watchdog(s) ==
    /\ phase[s] = "unlinking"
    /\ Answered(s, "data_delete_failed")
    /\ UNCHANGED <<cfg, base, session, tree, req, at, wire, reply, executed, target, removers,
                   deleted>>

-----------------------------------------------------------------------------
(* Browsing: handleFS and listDirs. *)

Listed(s, entries, truncated) ==
    /\ phase' = [phase EXCEPT ![s] = "answered"]
    /\ answer' = [answer EXCEPT ![s] =
           [code |-> "listed", entries |-> entries, truncated |-> truncated]]

\* The roots, or the lexical gate.
Browse(s) ==
    /\ phase[s] = "ready" /\ ~Finished(s) /\ Step(s) = "list"
    /\ \E roots \in {BrowseRoots(tree)} :
           \E lexical \in {ValidateBrowsePath(req[s].path, roots)} :
              IF roots = {} THEN Answered(s, "unavailable")
              ELSE IF req[s].path = NoPath THEN Listed(s, roots, FALSE)
              ELSE IF lexical # "ok" THEN Answered(s, lexical)
              ELSE phase' = [phase EXCEPT ![s] = "listing"] /\ UNCHANGED answer
    /\ UNCHANGED <<cfg, base, session, tree, req, at, wire, reply, executed, target, removers,
                   deleted>>

\* In a goroutine: where the path leads.
Locate(s) ==
    /\ phase[s] = "listing" /\ target[s] = Nowhere
    /\ \E clean \in {Clean(req[s].path.parts)} :
           \E resolved \in {ResolveBrowsePath(clean, BrowseRoots(tree), tree)} :
              IF resolved = "ok"
              THEN target' = [target EXCEPT ![s] = Target[clean]] /\ UNCHANGED <<phase, answer>>
              ELSE Answered(s, resolved) /\ UNCHANGED target
    /\ UNCHANGED <<cfg, base, session, tree, req, at, wire, reply, executed, removers, deleted>>

Children(path) == {p \in tree : Len(p) = Len(path) + 1 /\ IsPrefix(path, p)}

\* Mutant of ScanStops: the caps are not reported.
ScanStopsSilently(seen) == FALSE

\* A listing stops at either cap.
ScanStops(seen) == Cardinality(seen \cap Directories) >= DirCap \/ Cardinality(seen) >= ScanCap

\* The entries that are read, in whatever order: all of them or up to a cap.
ScannedOf(path) ==
    {seen \in SUBSET Children(path) :
        /\ Cardinality(seen \cap Directories) <= DirCap /\ Cardinality(seen) <= ScanCap
        /\ seen # Children(path) =>
               Cardinality(seen \cap Directories) = DirCap \/ Cardinality(seen) = ScanCap}

List(s) ==
    /\ phase[s] = "listing" /\ target[s] # Nowhere
    /\ IF target[s] \in tree \cap Directories
       THEN \E seen \in ScannedOf(target[s]) :
                Listed(s, seen \cap Directories, ScanStops(seen))
       ELSE Answered(s, "list_failed")
    /\ UNCHANGED <<cfg, base, session, tree, req, at, wire, reply, executed, target, removers,
                   deleted>>

BrowseTimeout(s) == phase[s] = "listing" /\ Unanswered(s, "timeout")

-----------------------------------------------------------------------------

Init ==
    /\ \E world \in Worlds : cfg = world.cfg /\ base = world.base /\ req = world.req
    /\ session = Hashes /\ tree = Tree
    /\ at = [s \in Slots |-> 1]
    /\ phase = [s \in Slots |-> "idle"]
    /\ wire = {} /\ reply = [s \in Slots |-> "none"]
    /\ executed = [s \in Slots |-> 0]
    /\ target = [s \in Slots |-> Nowhere]
    /\ removers = {} /\ deleted = [s \in Slots |-> {}]
    /\ answer = [s \in Slots |-> NoAnswer]

\* What a handler does next, the deadline that bounds it, and the removal.
Handle(s) ==
    \/ Finish(s) \/ Send(s) \/ Reply(s) \/ Unreachable(s) \/ GiveUp(s)
    \/ Validate(s) \/ Unlink(s) \/ Watchdog(s)
    \/ Browse(s) \/ Locate(s) \/ List(s) \/ BrowseTimeout(s)
Remover(s) == RemoveOne(s) \/ Removed(s) \/ RemoveFails(s)

Next == \E s \in Slots : Arrive(s) \/ Handle(s) \/ Execute(s) \/ Remover(s)

Spec == Init /\ [][Next]_vars

\* Deadlines pass and handlers run.  The daemon may hang, and the disk where a goroutine
\* unlinks or lists; that the handler's own look at links returns is assumed.
FairSpec == Spec /\ \A s \in Slots : WF_vars(Handle(s))

-----------------------------------------------------------------------------
(* Properties. *)

Erased(s) == executed[s] >= (IF req[s].route = "eraseData" THEN 2 ELSE 1)

\* What is unlinked lies strictly within the real place of a download root, and
\* what is listed is one or lies within one, whatever path the daemon or the client gave,
\* whatever links there are, and whatever other requests remove meanwhile
\* (pathsafe.go, osDeleter, listDirs).  So a root is never unlinked itself, unless
\* it lies within another root: nothing keeps roots apart, and what is within one
\* of them may be unlinked.
StaysInsideTheRoots ==
    \A s \in Slots :
        /\ \A p \in deleted[s] : \E root \in RealRoots : StrictlyWithin(p, root)
        /\ \A p \in answer[s].entries :
               p \in RealRoots \/ \E root \in RealRoots : Within(p, root)

\* The answer is what happened: "erased" only when the daemon has erased the
\* torrent, with its data only when nothing is left of it; nothing is unlinked
\* before the torrent is erased or behind an answer that does not say so; "ok"
\* when every command was executed; a listing that is not truncated complete
\* when it was read (handleErase, actionHandler, listDirs).
AnswersAreTrue ==
    \A s \in Slots :
        LET code == answer[s].code
        IN /\ deleted[s] # {} \/ s \in removers => Erased(s)
           /\ code \in {"erased", "erased_with_data", "data_delete_failed"} => Erased(s)
           /\ code = "erased_with_data" => Beneath(target[s]) = {}
           /\ code \notin {"none", "erased_with_data", "data_delete_failed"} =>
                  deleted[s] = {} /\ s \notin removers
           /\ (code = "ok" /\ ~Indifferent(s)) => executed[s] = Len(StepsOf(s))
           /\ (code = "listed" /\ ~answer[s].truncated /\ target[s] # Nowhere) =>
                  Children(target[s]) \cap Directories \subseteq answer[s].entries

\* Nothing is asked of the daemon, or unlinked, for a request that has not passed
\* what is configured: credentials, for all but the health check; the origin,
\* for whatever could change something; the method lists, whose denials win;
\* the switches (SameOriginGuard around BasicAuth around the routes).
GuardsHold ==
    \A s \in Slots : (executed[s] > 0 \/ s \in wire \/ deleted[s] # {}) =>
        LET q == req[s]
            commands == {StepsOf(s)[n] : n \in DOMAIN StepsOf(s)}
            elsewhere == q.origin = "other" \/ (q.origin = "absent" /\ q.referer = "other")
        IN /\ cfg.auth = "basic" => q.known \/ q.route = "health"
           /\ elsewhere => commands \cap Changing = {}
           /\ cfg.hosts # {} => q.host \in cfg.hosts
           /\ q.route = "rpc" => /\ cfg.passthrough /\ ~Matches(DefaultDeny \cup cfg.deny, q.name)
                                 /\ cfg.allow = {} \/ Matches(cfg.allow, q.name)
           /\ deleted[s] # {} => cfg.deleteWithData /\ ~cfg.mock
           /\ q.route = "add" => q.form = "good"

\* Every request is answered, though the daemon, a removal or a listing hangs (reqCtx, the
\* watchdog, the browser's deadline).
EveryRequestIsAnswered ==
    \A s \in Slots : (phase[s] \notin {"idle", "answered"}) ~> (phase[s] = "answered")

=============================================================================
