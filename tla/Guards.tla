-------------------------------- MODULE Guards --------------------------------
(***************************************************************************)
(* What stands between a request and its handler: the same-origin guard,   *)
(* basic authentication, the router, and the method lists of the           *)
(* pass-through (api/guard.go, middleware.go, rpc_passthrough.go,          *)
(* rpc_proxy.go, config/methodset.go).                                     *)
(*                                                                         *)
(* A request is [route, host, origin, referer, known, form, name]: origin  *)
(* and referer are "absent", "same" or "other" (malformed ones included),  *)
(* known says whether it carries valid credentials, form whether its body  *)
(* is "good", "malformed" or has a "dollar" value, and name is the method  *)
(* of a pass-through call, a sequence of the parts of its name.            *)
(***************************************************************************)
EXTENDS Sequences, SequencesExt

CONSTANT DefaultDeny    \* defaultRPCDenylist: patterns [name, star]

\* The routes that are mounted, by their HTTP method.
Gets == {"health", "version", "config", "torrents", "stats", "files", "peers", "trackers",
         "pieces", "browse"}
Posts == {"add", "start", "stop", "pause", "recheck", "announce", "rpc", "proxy"}
Puts == {"label", "priority", "directory", "throttle", "filePriority", "trackerEnabled"}
Deletes == {"erase", "eraseData"}
Routes == Gets \cup Posts \cup Puts \cup Deletes

\* Mutant of Unsafe: DELETE is not looked at.
UnsafeWithoutDelete == Posts \cup Puts

\* The methods whose origin is looked at.
Unsafe == Posts \cup Puts \cup Deletes

\* SameOriginGuard: the Origin decides if there is one, else the Referer.
OriginPasses(q) ==
    q.route \in Unsafe => IF q.origin # "absent" THEN q.origin = "same"
                          ELSE q.referer \in {"absent", "same"}
HostPasses(cfg, q) == cfg.hosts # {} => q.host \in cfg.hosts

\* Mutant of AuthPasses: every GET is exempt.
AuthPassesGets(cfg, q) == cfg.auth = "basic" => q.route \in Gets \/ q.known

\* BasicAuth: the health check alone is open.
AuthPasses(cfg, q) == cfg.auth = "basic" => q.route = "health" \/ q.known

\* MethodSet.Matches.
Matches(patterns, name) ==
    \E p \in patterns : IF p.star THEN IsPrefix(p.name, name) ELSE p.name = name

\* mergeDenylist: what is configured only adds to the defaults.
DenyList(cfg) == DefaultDeny \cup cfg.deny

\* Mutant of PassThrough: a method that is allowed is not denied.
AllowFirst(cfg, q) ==
    IF ~cfg.passthrough THEN "forbidden"
    ELSE IF q.form = "malformed" THEN "bad_request"
    ELSE IF cfg.allow # {} /\ Matches(cfg.allow, q.name) THEN "pass"
    ELSE IF cfg.allow # {} \/ Matches(DenyList(cfg), q.name) THEN "forbidden" ELSE "pass"

\* handleRPCPassthrough: deny wins over allow.
PassThrough(cfg, q) ==
    IF ~cfg.passthrough THEN "forbidden"
    ELSE IF q.form = "malformed" THEN "bad_request"
    ELSE IF Matches(DenyList(cfg), q.name) THEN "forbidden"
    ELSE IF cfg.allow # {} /\ ~Matches(cfg.allow, q.name) THEN "forbidden" ELSE "pass"

\* The routes with a body or an index that is parsed first.
Parsed == Puts \cup {"add"}

\* What a request is told before its handler starts to work, "pass" if nothing.
Verdict(cfg, q) ==
    IF ~HostPasses(cfg, q) \/ ~OriginPasses(q) THEN "forbidden"
    ELSE IF ~AuthPasses(cfg, q) THEN "unauthorized"
    ELSE CASE q.route = "rpc" -> PassThrough(cfg, q)
           [] q.route = "proxy" -> IF ~cfg.proxy THEN "page"
                                   ELSE IF q.form = "malformed" THEN "bad_request" ELSE "pass"
           [] q.route \in Parsed -> IF \/ q.form = "malformed"
                                       \/ q.route = "add" /\ q.form = "dollar"
                                    THEN "bad_request" ELSE "pass"
           [] q.route = "eraseData" -> IF cfg.mock \/ ~cfg.deleteWithData
                                       THEN "forbidden" ELSE "pass"
           [] q.route = "browse" -> IF cfg.browse THEN "pass" ELSE "unavailable"
           [] OTHER -> "pass"
=============================================================================
