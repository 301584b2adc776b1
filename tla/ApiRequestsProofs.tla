--------------------------- MODULE ApiRequestsProofs ---------------------------
(* Theorems about ApiRequests, for every file system, configuration and request. *)
EXTENDS ApiRequests, TLAPS

-----------------------------------------------------------------------------
(* Paths. *)

LEMMA PrefixPointwise ==
    ASSUME NEW a \in Seq(Names), NEW b \in Seq(Names)
    PROVE  IsPrefix(a, b) <=> Len(a) <= Len(b) /\ \A i \in 1..Len(a) : a[i] = b[i]
<1>1. CASE Len(a) <= Len(b)
  <2>1. SubSeq(a, 1, Len(a)) \in Seq(Names) /\ SubSeq(b, 1, Len(a)) \in Seq(Names)
    BY <1>1
  <2>2. Len(SubSeq(a, 1, Len(a))) = Len(a) /\ Len(SubSeq(b, 1, Len(a))) = Len(a)
    BY <1>1
  <2>3. \A i \in 1..Len(a) : SubSeq(a, 1, Len(a))[i] = a[i] /\ SubSeq(b, 1, Len(a))[i] = b[i]
    BY <1>1
  <2>4. SubSeq(a, 1, Len(a)) = SubSeq(b, 1, Len(a)) <=>
            \A i \in 1..Len(a) : SubSeq(a, 1, Len(a))[i] = SubSeq(b, 1, Len(a))[i]
    BY <2>1, <2>2
  <2>5. QED
    BY <1>1, <2>3, <2>4 DEF IsPrefix
<1>2. QED
  BY <1>1 DEF IsPrefix

\* What lies beneath a path lies within whatever the path lies within.
LEMMA BeneathIsWithin ==
    ASSUME NEW root \in Seq(Names), NEW path \in Seq(Names), NEW p \in Seq(Names),
           StrictlyWithin(path, root) \/ Within(path, root), IsPrefix(path, p)
    PROVE  /\ StrictlyWithin(path, root) => StrictlyWithin(p, root)
           /\ Within(path, root) => Within(p, root)
<1>1. IsPrefix(root, path) /\ root # Slash
  BY DEF StrictlyWithin, Within, IsStrictPrefix
<1>2. Len(root) <= Len(path) /\ Len(path) <= Len(p)
  BY <1>1, PrefixPointwise
<1>3. \A i \in 1..Len(root) : root[i] = path[i] /\ path[i] = p[i]
  BY <1>1, <1>2, PrefixPointwise
<1>4. IsPrefix(root, p)
  BY <1>2, <1>3, PrefixPointwise
<1>5. root # path => root # p
  <2>1. SUFFICES ASSUME root = p PROVE root = path
    OBVIOUS
  <2>2. Len(path) = Len(root)
    BY <1>2, <2>1
  <2>3. QED
    BY <1>3, <2>2
<1>6. QED
  BY <1>1, <1>4, <1>5 DEF StrictlyWithin, Within, IsStrictPrefix

\* Both gates let only real paths within real roots through.
LEMMA RootsAreReal ==
    /\ RealRoots \subseteq Seq(Names)
    /\ \A files : ResolvedRoots(files) \subseteq RealRoots /\ BrowseRoots(files) \subseteq RealRoots
BY TargetsAreFinal DEF RealRoots, ResolvedRoots, BrowseRoots

LEMMA DeleteGate ==
    ASSUME NEW clean \in DOMAIN Target, NEW files, ResolveAndRevalidate(clean, files) = "ok"
    PROVE  /\ Target[clean] \in Seq(Names)
           /\ \E root \in RealRoots : StrictlyWithin(Target[clean], root)
<1>1. ValidateBasePath([abs |-> TRUE, parts |-> Target[clean]], ResolvedRoots(files)) = "ok"
  BY DEF ResolveAndRevalidate
<1>2. [abs |-> TRUE, parts |-> Target[clean]] # NoPath
  BY DEF NoPath
<1>3. \E root \in ResolvedRoots(files) : StrictlyWithin(Clean(Target[clean]), root)
  BY <1>1, <1>2 DEF ValidateBasePath
<1>4. QED
  BY <1>3, RootsAreReal, TargetsAreFinal

LEMMA BrowseGate ==
    ASSUME NEW clean \in DOMAIN Target, NEW files,
           ResolveBrowsePath(clean, BrowseRoots(files), files) = "ok"
    PROVE  /\ Target[clean] \in Seq(Names)
           /\ \E root \in RealRoots : Within(Target[clean], root)
<1>1. ValidateBrowsePath([abs |-> TRUE, parts |-> Target[clean]], BrowseRoots(files)) = "ok"
  BY DEF ResolveBrowsePath
<1>2. \E root \in BrowseRoots(files) : Within(Clean(Target[clean]), root)
  BY <1>1 DEF ValidateBrowsePath
<1>3. QED
  BY <1>2, RootsAreReal, TargetsAreFinal

-----------------------------------------------------------------------------
(* What a request consists of. *)

\* The configuration and the requests are those of some world.
Provenance == \E world \in Worlds : cfg = world.cfg /\ base = world.base /\ req = world.req

LEMMA RequestsAreSound ==
    ASSUME Provenance, NEW s \in Slots
    PROVE  /\ req[s].form \in {"good", "malformed", "dollar"}
           /\ req[s].route \in Routes /\ req[s].hash \in Hashes
           /\ base[req[s].hash].abs => Clean(base[req[s].hash].parts) \in DOMAIN Target
           /\ req[s].path.abs => Clean(req[s].path.parts) \in DOMAIN Target
           /\ cfg.mock \in BOOLEAN /\ cfg.passthrough \in BOOLEAN
           /\ cfg.deleteWithData \in BOOLEAN
BY WorldsAssumption DEF Provenance

\* The sequences of commands, and what is in them.
Asking == {<<"read">>, <<"look">>, <<"look", "look">>, <<>>}
Ordering ==
    {<<"d.erase">>, <<"load">>, <<"d.stop", "d.close">>, <<"throttle.down", "throttle.up">>,
     <<"f.priority.set", "d.update_priorities">>, <<"t.is_enabled.set">>, <<"d.command">>,
     <<"any">>}

LEMMA CommandsAreNotWork ==
    ASSUME NEW steps \in Asking \cup Ordering \cup {<<"list">>, DataSteps}
    PROVE  /\ DOMAIN steps = 1..Len(steps) /\ Len(steps) \in Nat
           /\ steps \in Asking \cup Ordering =>
                  \A n \in DOMAIN steps : steps[n] \notin OwnWork
           /\ steps \in Asking \cup {<<"list">>} =>
                  \A n \in DOMAIN steps : steps[n] \notin Changing
<1>1. CASE steps \in {<<"read">>, <<"look">>, <<"list">>}
  BY <1>1 DEF Asking, Ordering, OwnWork, Changing
<1>2. CASE steps \in {<<"look", "look">>, <<>>}
  BY <1>2 DEF Asking, Ordering, OwnWork, Changing
<1>3. CASE steps \in {<<"d.erase">>, <<"load">>, <<"t.is_enabled.set">>, <<"d.command">>, <<"any">>}
  BY <1>3 DEF Asking, Ordering, OwnWork, Changing
<1>4. CASE steps \in {<<"d.stop", "d.close">>, <<"throttle.down", "throttle.up">>,
                     <<"f.priority.set", "d.update_priorities">>}
  BY <1>4 DEF Asking, Ordering, OwnWork, Changing
<1>5. CASE steps = DataSteps
  BY <1>5 DEF DataSteps, Asking, Ordering
<1>6. QED
  BY <1>1, <1>2, <1>3, <1>4, <1>5 DEF Asking, Ordering

LEMMA StepsOfRequests ==
    ASSUME Provenance, NEW s \in Slots
    PROVE  /\ DOMAIN StepsOf(s) = 1..Len(StepsOf(s)) /\ Len(StepsOf(s)) \in Nat
           /\ req[s].route = "eraseData" => StepsOf(s) = DataSteps
           /\ req[s].route = "erase" => StepsOf(s) = <<"d.erase">>
           /\ req[s].route = "browse" => StepsOf(s) = <<"list">>
           /\ req[s].route \notin {"eraseData", "browse"} =>
                  \A n \in DOMAIN StepsOf(s) : StepsOf(s)[n] \notin OwnWork
           /\ req[s].route \in Gets =>
                  \A n \in DOMAIN StepsOf(s) : StepsOf(s)[n] \notin Changing
<1> DEFINE route == req[s].route
<1>1. route \in Routes
  BY RequestsAreSound
<1>2. \/ StepsOf(s) = <<>> /\ cfg.mock /\ route \in MadeUp
      \/ StepsOf(s) = Steps(req[s])
  BY DEF StepsOf
<1>3. route \in Gets \ {"browse"} => Steps(req[s]) \in Asking
  BY DEF Gets, Steps, Asking
<1>4. route = "browse" => Steps(req[s]) = <<"list">>
  BY DEF Steps
<1>5. route = "erase" => Steps(req[s]) = <<"d.erase">>
  BY DEF Steps
<1>6. route = "eraseData" => Steps(req[s]) = DataSteps
  BY DEF Steps
<1>7. route \in Posts => Steps(req[s]) \in Ordering
  BY DEF Posts, Steps, Ordering
<1>8. route \in Puts => Steps(req[s]) \in Ordering
  BY DEF Puts, Steps, Ordering
<1>9. route \in MadeUp => route \notin {"erase", "eraseData", "browse"}
  BY DEF MadeUp, Gets
<1>10. <<>> \in Asking /\ <<"d.erase">> \in Ordering
  BY DEF Asking, Ordering
<1>11. /\ route \in Gets \ {"browse"} => StepsOf(s) \in Asking
       /\ route = "browse" => StepsOf(s) = <<"list">>
       /\ route = "erase" => StepsOf(s) = <<"d.erase">>
       /\ route = "eraseData" => StepsOf(s) = DataSteps
       /\ route \notin Gets \cup {"eraseData"} => StepsOf(s) \in Asking \cup Ordering
  BY <1>1, <1>2, <1>3, <1>4, <1>5, <1>6, <1>7, <1>8, <1>9, <1>10 DEF Routes, Deletes
<1>12. "browse" \in Gets /\ "eraseData" \notin Gets
  BY DEF Gets
<1>13. QED
  BY <1>11, <1>12, CommandsAreNotWork

\* The work that is the server's own belongs to two routes.
LEMMA OwnSteps ==
    ASSUME Provenance, NEW s \in Slots, at[s] \in Nat \ {0}, ~Finished(s)
    PROVE  /\ at[s] \in DOMAIN StepsOf(s)
           /\ Step(s) = "validate" => req[s].route = "eraseData" /\ at[s] = 2
           /\ Step(s) = "unlink" => req[s].route = "eraseData" /\ at[s] = 4
           /\ Step(s) = "list" => req[s].route = "browse" /\ at[s] = 1
           /\ req[s].route = "eraseData" /\ Commanding(s) => at[s] \in {1, 3}
           /\ req[s].route = "browse" => ~Commanding(s)
<1>1. at[s] \in DOMAIN StepsOf(s)
  BY StepsOfRequests DEF Finished
<1>2. CASE req[s].route = "eraseData"
  <2>1. StepsOf(s) = DataSteps
    BY <1>2, StepsOfRequests
  <2>2. at[s] \in 1..4
    BY <1>1, <2>1 DEF DataSteps
  <2>3. QED
    BY <1>1, <1>2, <2>1, <2>2 DEF DataSteps, Step, Commanding, OwnWork
<1>3. CASE req[s].route = "browse"
  BY <1>1, <1>3, StepsOfRequests DEF Step, Commanding, OwnWork
<1>4. CASE req[s].route \notin {"eraseData", "browse"}
  BY <1>1, <1>4, StepsOfRequests DEF Step, OwnWork
<1>5. QED
  BY <1>1, <1>2, <1>3, <1>4

-----------------------------------------------------------------------------
(* Types. *)

\* The configuration and the requests never change, and all else keeps its type.
Typed == TypeOK /\ Provenance

LEMMA InitTyped == Init => Typed
BY DEF Init, Typed, TypeOK, Provenance, NoAnswer, Codes

\* What the guards answer is a code.
LEMMA VerdictsAreCodes == \A q : Verdict(cfg, q) \in Codes \cup {"pass"}
BY DEF Verdict, PassThrough, Codes

LEMMA GatesAnswer ==
    /\ \A path, roots : ValidateBrowsePath(path, roots) \in Codes
    /\ \A path, roots, files : ResolveBrowsePath(path, roots, files) \in Codes
BY DEF ValidateBrowsePath, ResolveBrowsePath, Codes

\* A change of nothing but where one slot stands.
LEMMA NextTyped ==
    ASSUME Typed, Next, \A t \in Slots : phase[t] = "listing" => req[t].path.abs
    PROVE  Typed'
<1>1. PICK s \in Slots : Arrive(s) \/ Handle(s) \/ Execute(s) \/ Remover(s)
  BY DEF Next
<1>2. Provenance'
  BY <1>1 DEF Typed, Provenance, Arrive, Handle, Execute, Remover, Finish, Send, Reply,
       Unreachable, GiveUp, Unanswered, Validate, Unlink, RemoveOne, Removed, RemoveFails,
       RemoverEnds, Watchdog, Browse, Locate, List, BrowseTimeout
<1> USE DEF Typed, TypeOK
<1>3. \A code \in Codes : Answered(s, code) =>
          /\ phase' \in [Slots -> {"idle", "ready", "sent", "unlinking", "listing", "answered"}]
          /\ answer' \in [Slots -> [code : Codes, entries : SUBSET Seq(Names),
                                    truncated : BOOLEAN]]
  <2>1. SUFFICES ASSUME NEW code \in Codes, Answered(s, code)
                 PROVE  /\ phase' \in [Slots -> {"idle", "ready", "sent", "unlinking", "listing", "answered"}]
                        /\ answer' \in [Slots -> [code : Codes, entries : SUBSET Seq(Names),
                                                  truncated : BOOLEAN]]
    OBVIOUS
  <2>2. [NoAnswer EXCEPT !.code = code] \in [code : Codes, entries : SUBSET Seq(Names), truncated : BOOLEAN]
    BY DEF NoAnswer
  <2>3. QED
    BY <2>1, <2>2 DEF Answered
<1> HIDE DEF Codes, NoAnswer
<1>20. /\ [at EXCEPT ![s] = @ + 1] \in [Slots -> Nat \ {0}]
       /\ [executed EXCEPT ![s] = @ + 1] \in [Slots -> Nat]
       /\ [reply EXCEPT ![s] = "none"] \in [Slots -> {"none", "ok", "fault"}]
       /\ [phase EXCEPT ![s] = "ready"] \in [Slots -> {"idle", "ready", "sent", "unlinking", "listing", "answered"}]
  <2>1. at[s] \in Nat \ {0} /\ at[s] + 1 \in Nat \ {0}
    OBVIOUS
  <2>2. QED
    BY <2>1
<1>21. \A path \in Seq(Names) : [target EXCEPT ![s] = path] \in [Slots -> Seq(Names) \cup {Nowhere}]
  OBVIOUS
<1>4. CASE Arrive(s)
  <2>1. Verdict(cfg, req[s]) \in Codes \cup {"pass"}
    BY VerdictsAreCodes
  <2>2. QED
    BY <1>2, <1>3, <1>4, <2>1 DEF Arrive
<1>5. CASE Finish(s)
  <2>1. "erased" \in Codes /\ "ok" \in Codes
    BY DEF Codes
  <2>2. QED
    BY <1>2, <1>3, <1>5, <2>1 DEF Finish
<1>6. CASE Send(s)
  BY <1>2, <1>6 DEF Send
<1>7. CASE Execute(s)
  <2>1. session' \subseteq Hashes
    BY <1>7, RequestsAreSound DEF Execute, AfterCommand
  <2>2. executed' \in [Slots -> Nat]
    BY <1>7, <1>20 DEF Execute
  <2>3. reply' \in [Slots -> {"none", "ok", "fault"}] /\ wire' \subseteq Slots
    BY <1>7 DEF Execute
  <2>4. QED
    BY <1>2, <1>7, <2>1, <2>2, <2>3 DEF Execute
<1>8. CASE Reply(s)
  <2>1. Complaint(s) \in Codes
    BY DEF Complaint, Codes
  <2>2. QED
    BY <1>2, <1>3, <1>8, <1>20, <2>1 DEF Reply
<1>9. CASE Unreachable(s)
  <2>1. "unreachable" \in Codes
    BY DEF Codes
  <2>2. QED
    BY <1>2, <1>3, <1>9, <1>20, <2>1 DEF Unreachable, Unanswered
<1>10. CASE GiveUp(s)
  <2>1. Complaint(s) \in Codes /\ "ok" \in Codes
    BY DEF Complaint, Codes
  <2>2. QED
    BY <1>2, <1>3, <1>10, <2>1 DEF GiveUp, Unanswered
<1>11. CASE Validate(s)
  <2>1. "untrusted_path" \in Codes
    BY DEF Codes
  <2>2. DataAt(base[req[s].hash]) = "inside" => Target[Clean(base[req[s].hash].parts)] \in Seq(Names)
    BY RequestsAreSound, TargetsAreFinal DEF DataAt, ValidateBasePath
  <2>3. QED
    BY <1>2, <1>3, <1>11, <1>20, <1>21, <2>1, <2>2 DEF Validate
<1>12. CASE Unlink(s)
  <2>1. [phase EXCEPT ![s] = "unlinking"] \in [Slots -> {"idle", "ready", "sent", "unlinking", "listing", "answered"}]
    OBVIOUS
  <2>2. at' \in [Slots -> Nat \ {0}] /\ removers' \subseteq Slots
    <3>1. CASE target[s] = Nowhere
      BY <1>12, <1>20, <3>1 DEF Unlink
    <3>2. CASE target[s] # Nowhere
      BY <1>12, <3>2 DEF Unlink
    <3>3. QED
      BY <3>1, <3>2
  <2>3. phase' \in [Slots -> {"idle", "ready", "sent", "unlinking", "listing", "answered"}]
    BY <1>12, <2>1 DEF Unlink
  <2>4. QED
    BY <1>2, <1>12, <2>2, <2>3 DEF Unlink
<1>13. CASE RemoveOne(s)
  BY <1>2, <1>13 DEF RemoveOne, Beneath
<1>14. CASE Removed(s) \/ RemoveFails(s) \/ Watchdog(s) \/ BrowseTimeout(s)
  <2>1. {"erased_with_data", "data_delete_failed", "timeout"} \subseteq Codes
    BY DEF Codes
  <2>2. QED
    BY <1>2, <1>3, <1>14, <2>1
       DEF Removed, RemoveFails, RemoverEnds, Watchdog, BrowseTimeout, Unanswered
<1>15. \A entries \in SUBSET Seq(Names), truncated \in BOOLEAN :
          Listed(s, entries, truncated) =>
             /\ phase' \in [Slots -> {"idle", "ready", "sent", "unlinking", "listing", "answered"}]
             /\ answer' \in [Slots -> [code : Codes, entries : SUBSET Seq(Names),
                                       truncated : BOOLEAN]]
  BY DEF Listed, Codes
<1>16. CASE Browse(s)
  <2>1. "unavailable" \in Codes /\ BrowseRoots(tree) \subseteq Seq(Names)
        /\ ValidateBrowsePath(req[s].path, BrowseRoots(tree)) \in Codes
    BY RootsAreReal, GatesAnswer DEF Codes
  <2>2. QED
    BY <1>2, <1>3, <1>15, <1>16, <2>1 DEF Browse
<1>17. CASE Locate(s)
  <2>1. Target[Clean(req[s].path.parts)] \in Seq(Names)
    BY <1>17, RequestsAreSound, TargetsAreFinal DEF Locate
  <2> DEFINE resolved == ResolveBrowsePath(Clean(req[s].path.parts), BrowseRoots(tree), tree)
  <2>2. CASE resolved = "ok"
    <3>1. target' = [target EXCEPT ![s] = Target[Clean(req[s].path.parts)]]
      BY <1>17, <2>2 DEF Locate
    <3>2. target' \in [Slots -> Seq(Names) \cup {Nowhere}]
      BY <1>21, <2>1, <3>1
    <3>3. UNCHANGED <<cfg, base, session, tree, req, at, phase, wire, reply, executed, removers,
                      deleted, answer>>
      BY <1>17, <2>2 DEF Locate
    <3>4. QED
      BY <1>2, <3>2, <3>3
  <2>3. CASE resolved # "ok"
    <3>1. resolved \in Codes
      BY GatesAnswer
    <3>2. Answered(s, resolved) /\ target' = target
      BY <1>17, <2>3 DEF Locate
    <3>3. UNCHANGED <<cfg, base, session, tree, req, at, wire, reply, executed, removers, deleted>>
      BY <1>17 DEF Locate
    <3>4. QED
      BY <1>2, <1>3, <3>1, <3>2, <3>3
  <2>4. QED
    BY <2>2, <2>3
<1>18. CASE List(s)
  <2>1. \A seen \in ScannedOf(target[s]) : seen \cap Directories \in SUBSET Seq(Names)
    BY FileSystemAssumption DEF ScannedOf, Children
  <2>2. \A seen : ScanStops(seen) \in BOOLEAN
    BY DEF ScanStops
  <2>3. "list_failed" \in Codes
    BY DEF Codes
  <2>4. CASE target[s] \in tree \cap Directories
    BY <1>2, <1>15, <1>18, <2>1, <2>2, <2>4 DEF List
  <2>5. CASE target[s] \notin tree \cap Directories
    BY <1>2, <1>3, <1>18, <2>3, <2>5 DEF List
  <2>6. QED
    BY <2>4, <2>5
<1>19. QED
  BY <1>1, <1>4, <1>5, <1>6, <1>7, <1>8, <1>9, <1>10, <1>11, <1>12, <1>13, <1>14, <1>16,
     <1>17, <1>18 DEF Handle, Remover

-----------------------------------------------------------------------------
(* Where a request stands. *)

\* How many commands a request that relies on each reply has had executed.
Done(s) ==
    IF req[s].route = "eraseData"
    THEN IF at[s] = 1 THEN 0 ELSE IF at[s] \in {2, 3} THEN 1 ELSE 2
    ELSE at[s] - 1

\* A command is in the daemon's hands only while it is waited for, or after its
\* request was given up; only eraseData removes data, in its last step.
CourseOf(s) ==
    /\ s \in wire => phase[s] \in {"sent", "answered"} /\ reply[s] = "none"
    /\ phase[s] \in {"idle", "ready", "unlinking", "listing"} => reply[s] = "none"
    /\ phase[s] = "idle" => at[s] = 1 /\ executed[s] = 0
    /\ phase[s] = "sent" => ~Finished(s) /\ Commanding(s)
    /\ phase[s] = "unlinking" => req[s].route = "eraseData" /\ at[s] = 4
    /\ phase[s] = "listing" => req[s].route = "browse" /\ req[s].path.abs
    /\ phase[s] # "answered" => answer[s] = NoAnswer
    /\ phase[s] \in {"idle", "ready", "sent", "listing"} => s \notin removers /\ deleted[s] = {}
    /\ s \in removers \/ deleted[s] # {} => req[s].route = "eraseData" /\ at[s] = 4
    /\ req[s].route = "browse" /\ phase[s] \in {"idle", "ready"} => target[s] = Nowhere

Course == \A s \in Slots : CourseOf(s)

\* An action of one slot leaves every other slot where it stands.
LEMMA OthersStand ==
    ASSUME Typed, NEW s \in Slots, NEW t \in Slots \ {s},
           Arrive(s) \/ Handle(s) \/ Execute(s) \/ Remover(s)
    PROVE  /\ phase'[t] = phase[t] /\ at'[t] = at[t] /\ reply'[t] = reply[t]
           /\ executed'[t] = executed[t] /\ target'[t] = target[t] /\ deleted'[t] = deleted[t]
           /\ answer'[t] = answer[t] /\ (t \in wire' <=> t \in wire)
           /\ (t \in removers' <=> t \in removers) /\ req' = req /\ cfg' = cfg
<1> USE DEF Typed, TypeOK
<1>1. CASE Arrive(s) \/ Finish(s) \/ Send(s) \/ Unreachable(s) \/ GiveUp(s)
  BY <1>1 DEF Arrive, Finish, Send, Unreachable, GiveUp, Unanswered, Answered
<1>2. CASE Reply(s)
  BY <1>2 DEF Reply, Answered
<1>3. CASE Execute(s)
  BY <1>3 DEF Execute
<1>4. CASE Validate(s)
  BY <1>4 DEF Validate, Answered
<1>5. CASE Unlink(s)
  BY <1>5 DEF Unlink
<1>6. CASE Remover(s) \/ Watchdog(s) \/ BrowseTimeout(s)
  BY <1>6 DEF Remover, RemoveOne, Removed, RemoveFails, RemoverEnds, Watchdog, BrowseTimeout,
     Unanswered, Answered
<1>7. CASE Browse(s)
  BY <1>7 DEF Browse, Answered, Listed
<1>8. CASE Locate(s)
  BY <1>8 DEF Locate, Answered
<1>9. CASE List(s)
  BY <1>9 DEF List, Answered, Listed
<1>10. QED
  BY <1>1, <1>2, <1>3, <1>4, <1>5, <1>6, <1>7, <1>8, <1>9 DEF Handle

LEMMA InitCourse == Init => Course
BY DEF Init, Course, CourseOf, Finished

LEMMA NextCourse ==
    ASSUME Typed, Typed', Course, Next
    PROVE  Course'
<1>1. PICK s \in Slots : Arrive(s) \/ Handle(s) \/ Execute(s) \/ Remover(s)
  BY DEF Next
<1>2. \A t \in Slots \ {s} : CourseOf(t)'
  <2>1. TAKE t \in Slots \ {s}
  <2>2. CourseOf(t)
    BY DEF Course
  <2>3. /\ phase'[t] = phase[t] /\ at'[t] = at[t] /\ reply'[t] = reply[t]
        /\ executed'[t] = executed[t] /\ target'[t] = target[t] /\ deleted'[t] = deleted[t]
        /\ answer'[t] = answer[t] /\ (t \in wire' <=> t \in wire)
        /\ (t \in removers' <=> t \in removers) /\ req' = req /\ cfg' = cfg
    BY <1>1, OthersStand
  <2>4. QED
    BY <2>2, <2>3 DEF CourseOf, Finished, Commanding, Step, StepsOf
<1>3. SUFFICES CourseOf(s)'
  BY <1>2 DEF Course
<1> CourseOf(s)
  BY DEF Course
<1> USE DEF Typed, TypeOK, CourseOf
<1>4. \A code : Answered(s, code) => phase'[s] = "answered"
  BY DEF Answered
<1>5. CASE Arrive(s)
  BY <1>4, <1>5 DEF Arrive
<1>6. CASE Finish(s) \/ GiveUp(s) \/ Watchdog(s) \/ BrowseTimeout(s)
  BY <1>4, <1>6 DEF Finish, GiveUp, Watchdog, BrowseTimeout, Unanswered
<1>7. CASE Send(s)
  BY <1>7 DEF Send, Finished, Commanding, Step, StepsOf
<1>8. CASE Execute(s)
  BY <1>8 DEF Execute, Finished, Commanding, Step, StepsOf
<1>9. CASE Reply(s)
  BY <1>4, <1>9, OwnSteps DEF Reply
<1>10. CASE Unreachable(s)
  BY <1>4, <1>10, OwnSteps DEF Unreachable, Unanswered
<1>11. CASE Validate(s)
  BY <1>4, <1>11, OwnSteps DEF Validate
<1>12. CASE Unlink(s)
  BY <1>12, OwnSteps DEF Unlink
<1>13. CASE Remover(s)
  BY <1>4, <1>13 DEF Remover, RemoveOne, Removed, RemoveFails, RemoverEnds
<1>14. CASE Browse(s)
  BY <1>4, <1>14, OwnSteps DEF Browse, Listed, ValidateBrowsePath
<1>15. CASE Locate(s)
  BY <1>4, <1>15 DEF Locate
<1>16. CASE List(s)
  BY <1>4, <1>16 DEF List, Listed
<1>17. QED
  BY <1>1, <1>5, <1>6, <1>7, <1>8, <1>9, <1>10, <1>11, <1>12, <1>13, <1>14, <1>15, <1>16
     DEF Handle

-----------------------------------------------------------------------------
(* Paths that are removed or listed. *)

InsideRoots(p) == \E root \in RealRoots : StrictlyWithin(p, root)
AtRoots(p) == \E root \in RealRoots : Within(p, root)

AnchoredOf(s) ==
    /\ target[s] # Nowhere =>
           IF req[s].route = "browse" THEN AtRoots(target[s]) ELSE InsideRoots(target[s])
    /\ s \in removers => target[s] # Nowhere
    /\ \A p \in deleted[s] : InsideRoots(p)
    /\ \A p \in answer[s].entries : p \in RealRoots \/ AtRoots(p)

Anchored == \A s \in Slots : AnchoredOf(s)

LEMMA InitAnchored == Init => Anchored
BY DEF Init, Anchored, AnchoredOf, NoAnswer

\* What lies beneath an anchored path is anchored.
LEMMA BeneathIsAnchored ==
    ASSUME NEW path \in Seq(Names), NEW p \in Seq(Names), IsPrefix(path, p)
    PROVE  /\ InsideRoots(path) => InsideRoots(p)
           /\ AtRoots(path) => AtRoots(p)
BY BeneathIsWithin, RootsAreReal DEF InsideRoots, AtRoots

LEMMA NextAnchored ==
    ASSUME Typed, Typed', Course, Anchored, Next
    PROVE  Anchored'
<1>1. PICK s \in Slots : Arrive(s) \/ Handle(s) \/ Execute(s) \/ Remover(s)
  BY DEF Next
<1>2. \A t \in Slots \ {s} : AnchoredOf(t)'
  <2>1. TAKE t \in Slots \ {s}
  <2>2. AnchoredOf(t)
    BY DEF Anchored
  <2>3. /\ target'[t] = target[t] /\ deleted'[t] = deleted[t] /\ answer'[t] = answer[t]
        /\ (t \in removers' <=> t \in removers) /\ req' = req
    BY <1>1, OthersStand
  <2>4. QED
    BY <2>2, <2>3 DEF AnchoredOf
<1>3. SUFFICES AnchoredOf(s)'
  BY <1>2 DEF Anchored
<1> AnchoredOf(s) /\ CourseOf(s)
  BY DEF Anchored, Course
<1> USE DEF Typed, TypeOK, AnchoredOf
<1>4. \A code : Answered(s, code) => answer'[s].entries = {}
  BY DEF Answered, NoAnswer
<1>5. CASE Arrive(s) \/ Finish(s) \/ Send(s) \/ Execute(s)
  BY <1>4, <1>5 DEF Arrive, Finish, Send, Execute
<1>6. CASE Reply(s) \/ Unreachable(s) \/ GiveUp(s)
  BY <1>4, <1>6 DEF Reply, Unreachable, GiveUp, Unanswered
<1>7. CASE Watchdog(s) \/ BrowseTimeout(s) \/ Removed(s) \/ RemoveFails(s)
  BY <1>4, <1>7 DEF Watchdog, BrowseTimeout, Unanswered, Removed, RemoveFails, RemoverEnds
<1>8. CASE Unlink(s)
  BY <1>8 DEF Unlink
<1>9. CASE Validate(s)
  <2> DEFINE clean == Clean(base[req[s].hash].parts)
  <2>1. CASE DataAt(base[req[s].hash]) = "inside"
    <3>1. clean \in DOMAIN Target /\ ResolveAndRevalidate(clean, tree) = "ok"
      BY <2>1, RequestsAreSound DEF DataAt, ValidateBasePath
    <3>2. InsideRoots(Target[clean])
      BY <3>1, DeleteGate DEF InsideRoots
    <3>3. req[s].route = "eraseData"
      BY <1>9, OwnSteps DEF Validate
    <3>4. /\ target' = [target EXCEPT ![s] = Target[clean]]
          /\ UNCHANGED <<answer, removers, deleted, req>>
      BY <1>9, <2>1 DEF Validate
    <3>5. target'[s] = Target[clean] /\ s \notin removers
      BY <1>9, <3>4 DEF Validate, CourseOf
    <3>6. QED
      BY <3>2, <3>3, <3>4, <3>5
  <2>2. CASE DataAt(base[req[s].hash]) # "inside"
    BY <1>4, <1>9, <2>2 DEF Validate
  <2>3. QED
    BY <2>1, <2>2
<1>10. CASE RemoveOne(s)
  <2>1. PICK p \in Beneath(target[s]) : deleted' = [deleted EXCEPT ![s] = @ \cup {p}]
    BY <1>10 DEF RemoveOne
  <2>2. target[s] \in Seq(Names) /\ InsideRoots(target[s]) /\ s \in removers
    BY <1>10 DEF RemoveOne, CourseOf
  <2>3. p \in Seq(Names) /\ IsPrefix(target[s], p)
    BY FileSystemAssumption DEF Beneath
  <2>4. InsideRoots(p)
    BY <2>2, <2>3, BeneathIsAnchored
  <2>5. QED
    BY <1>10, <2>1, <2>4 DEF RemoveOne
<1>11. CASE Browse(s)
  <2>1. BrowseRoots(tree) \subseteq RealRoots
    BY RootsAreReal
  <2>2. answer'[s].entries \subseteq RealRoots \/ answer' = answer
    BY <1>4, <1>11, <2>1 DEF Browse, Listed
  <2>3. QED
    BY <1>11, <2>2 DEF Browse
<1>12. CASE Locate(s)
  <2> DEFINE clean == Clean(req[s].path.parts)
  <2>1. CASE ResolveBrowsePath(clean, BrowseRoots(tree), tree) = "ok"
    <3>1. clean \in DOMAIN Target /\ req[s].route = "browse"
      BY <1>12, RequestsAreSound DEF Locate, CourseOf
    <3>2. AtRoots(Target[clean])
      BY <2>1, <3>1, BrowseGate DEF AtRoots
    <3>3. QED
      BY <1>12, <2>1, <3>1, <3>2 DEF Locate
  <2>2. CASE ResolveBrowsePath(clean, BrowseRoots(tree), tree) # "ok"
    BY <1>4, <1>12, <2>2 DEF Locate
  <2>3. QED
    BY <2>1, <2>2
<1>13. CASE List(s)
  <2>1. CASE target[s] \in tree \cap Directories
    <3>1. target[s] \in Seq(Names) /\ AtRoots(target[s])
      BY <1>13, <2>1, FileSystemAssumption DEF List, CourseOf
    <3>2. \A p \in Children(target[s]) : AtRoots(p)
      BY <3>1, BeneathIsAnchored, FileSystemAssumption DEF Children
    <3>3. PICK seen \in ScannedOf(target[s]) :
              Listed(s, seen \cap Directories, ScanStops(seen))
      BY <1>13, <2>1 DEF List
    <3>4. answer'[s].entries \subseteq Children(target[s])
      BY <3>3 DEF Listed, ScannedOf
    <3>5. QED
      BY <1>13, <3>2, <3>4 DEF List
  <2>2. CASE target[s] \notin tree \cap Directories
    BY <1>4, <1>13, <2>2 DEF List
  <2>3. QED
    BY <2>1, <2>2
<1>14. QED
  BY <1>1, <1>5, <1>6, <1>7, <1>8, <1>9, <1>10, <1>11, <1>12, <1>13 DEF Handle, Remover

\* Roots are apart: what lies strictly within one is none.
LEMMA AnchoredStaysInside == Anchored => StaysInsideTheRoots
BY DEF Anchored, AnchoredOf, StaysInsideTheRoots, InsideRoots, AtRoots

-----------------------------------------------------------------------------
(* Answers. *)

\* What an answer says of the commands that were executed and of the files.
AnsweredTruly(s) ==
    LET code == answer[s].code
    IN /\ ~Indifferent(s) /\ phase[s] \in {"idle", "ready", "unlinking", "listing"} =>
              executed[s] = Done(s)
       /\ ~Indifferent(s) /\ phase[s] = "sent" =>
              executed[s] = Done(s) + (IF reply[s] = "ok" THEN 1 ELSE 0)
       /\ deleted[s] # {} \/ s \in removers => Erased(s)
       /\ code \in {"erased", "erased_with_data", "data_delete_failed"} => Erased(s)
       /\ code = "erased_with_data" => Beneath(target[s]) = {}
       /\ code \notin {"none", "erased_with_data", "data_delete_failed"} =>
              deleted[s] = {} /\ s \notin removers
       /\ (code = "ok" /\ ~Indifferent(s)) =>
              executed[s] = Len(StepsOf(s)) /\ s \notin wire
       /\ (code = "listed" /\ ~answer[s].truncated /\ target[s] # Nowhere) =>
              Children(target[s]) \cap Directories \subseteq answer[s].entries
       /\ at[s] <= Len(StepsOf(s)) + 1
       /\ code # "none" => phase[s] = "answered"

Truthful == \A s \in Slots : AnsweredTruly(s)

LEMMA InitTruthful == Init => Truthful
<1>1. SUFFICES ASSUME Init, NEW s \in Slots PROVE AnsweredTruly(s)
  BY DEF Truthful
<1>2. Len(StepsOf(s)) \in Nat
  BY <1>1, InitTyped, StepsOfRequests DEF Typed
<1>3. QED
  BY <1>1, <1>2 DEF Init, AnsweredTruly, Done, NoAnswer

\* The file system only shrinks.
LEMMA FilesVanish == ASSUME Typed, Next PROVE tree' \subseteq tree
BY DEF Next, Arrive, Handle, Execute, Remover, Finish, Send, Reply, Unreachable, GiveUp,
   Unanswered, Validate, Unlink, RemoveOne, Removed, RemoveFails, RemoverEnds, Watchdog,
   Browse, Locate, List, BrowseTimeout

\* A command that relies on its reply, done once its reply is read.
LEMMA OneMore ==
    ASSUME Typed, NEW s \in Slots, ~Finished(s), Commanding(s)
    PROVE  /\ at[s] + 1 <= Len(StepsOf(s)) + 1
           /\ req[s].route = "eraseData" =>
                  (at[s] = 1 /\ Done(s) = 0) \/ (at[s] = 3 /\ Done(s) = 1)
           /\ req[s].route # "eraseData" => Done(s) = at[s] - 1
BY OwnSteps, StepsOfRequests DEF Typed, TypeOK, Finished, Done

\* At the end of its steps, everything that was asked of the daemon is done.
LEMMA AllDone ==
    ASSUME Typed, NEW s \in Slots, Finished(s), at[s] <= Len(StepsOf(s)) + 1
    PROVE  /\ at[s] = Len(StepsOf(s)) + 1
           /\ req[s].route = "eraseData" => Done(s) = 2
           /\ req[s].route # "eraseData" => Done(s) = Len(StepsOf(s))
           /\ req[s].route = "erase" => Done(s) = 1
<1>1. Len(StepsOf(s)) \in Nat /\ at[s] \in Nat /\ at[s] = Len(StepsOf(s)) + 1
  BY StepsOfRequests DEF Typed, TypeOK, Finished
<1>2. req[s].route = "eraseData" => Len(StepsOf(s)) = 4
  BY StepsOfRequests DEF Typed, DataSteps
<1>3. req[s].route = "erase" => Len(StepsOf(s)) = 1
  BY StepsOfRequests DEF Typed
<1>4. QED
  BY <1>1, <1>2, <1>3 DEF Done

LEMMA NextTruthful ==
    ASSUME Typed, Typed', Course, Course', Truthful, Next
    PROVE  Truthful'
<1>1. PICK s \in Slots : Arrive(s) \/ Handle(s) \/ Execute(s) \/ Remover(s)
  BY DEF Next
<1>2. tree' \subseteq tree
  BY FilesVanish
<1>3. \A t \in Slots : StepsOf(t)' = StepsOf(t) /\ (Indifferent(t)' <=> Indifferent(t))
                       /\ req' = req /\ cfg' = cfg
  BY <1>1 DEF StepsOf, Indifferent, Arrive, Handle, Execute, Remover, Finish, Send, Reply,
     Unreachable, GiveUp, Unanswered, Validate, Unlink, RemoveOne, Removed, RemoveFails,
     RemoverEnds, Watchdog, Browse, Locate, List, BrowseTimeout
<1>4. \A t \in Slots \ {s} : AnsweredTruly(t)'
  <2>1. TAKE t \in Slots \ {s}
  <2>2. AnsweredTruly(t)
    BY DEF Truthful
  <2>3. /\ phase'[t] = phase[t] /\ at'[t] = at[t] /\ reply'[t] = reply[t]
        /\ executed'[t] = executed[t] /\ target'[t] = target[t] /\ deleted'[t] = deleted[t]
        /\ answer'[t] = answer[t] /\ (t \in wire' <=> t \in wire)
        /\ (t \in removers' <=> t \in removers) /\ req' = req /\ cfg' = cfg
    BY <1>1, OthersStand
  <2>4. /\ Done(t)' = Done(t) /\ (Erased(t)' <=> Erased(t))
        /\ Beneath(target[t])' \subseteq Beneath(target[t])
        /\ Children(target[t])' \subseteq Children(target[t])
    BY <1>2, <2>3 DEF Done, Erased, Beneath, Children
  <2>5. QED
    BY <1>3, <2>2, <2>3, <2>4 DEF AnsweredTruly
<1>5. SUFFICES AnsweredTruly(s)'
  BY <1>4 DEF Truthful
<1> AnsweredTruly(s) /\ CourseOf(s) /\ CourseOf(s)' /\ s \in Slots
  BY DEF Truthful, Course
<1>6. /\ Len(StepsOf(s)) \in Nat /\ executed[s] \in Nat /\ at[s] \in Nat \ {0}
      /\ reply[s] \in {"none", "ok", "fault"} /\ Done(s) \in Int
  BY StepsOfRequests DEF Typed, TypeOK, Done
<1>7. \A code : Answered(s, code) => /\ phase'[s] = "answered" /\ answer'[s].code = code
                                     /\ answer'[s] = [NoAnswer EXCEPT !.code = code]
  BY DEF Answered, Typed, TypeOK, NoAnswer
<1>8. answer[s] = NoAnswer => answer[s].code = "none"
  BY DEF NoAnswer
<1>9. (at' = at \/ at'[s] = at[s]) => Done(s)' = Done(s)
  BY <1>3 DEF Done
<1>10. executed'[s] >= executed[s] => (Erased(s) => Erased(s)')
  BY <1>3, <1>6 DEF Erased, Typed, TypeOK
<1>11. req[s].route \in Deletes \cup {"browse"} => ~Indifferent(s)
  BY DEF Deletes, Indifferent
<1> HIDE DEF NoAnswer
<1> USE DEF AnsweredTruly, CourseOf, Typed, TypeOK
<1>12. CASE Arrive(s)
  <2>1. Verdict(cfg, req[s]) \in {"pass", "forbidden", "unauthorized", "bad_request", "page",
                                 "unavailable"}
    BY DEF Verdict, PassThrough
  <2>2. QED
    BY <1>3, <1>7, <1>9, <1>12, <2>1 DEF Arrive, Erased
<1>13. CASE Finish(s)
  <2>1. Finished(s) /\ at[s] = Len(StepsOf(s)) + 1
    BY <1>6, <1>13 DEF Finish, Finished
  <2>2. ~Indifferent(s) => executed[s] = Done(s)
    BY <1>13 DEF Finish
  <2>3. req[s].route \in Deletes => Erased(s)
    BY <1>11, <2>1, <2>2, AllDone DEF Deletes, Erased
  <2>4. ~Indifferent(s) /\ req[s].route \notin Deletes => executed[s] = Len(StepsOf(s))
    BY <2>1, <2>2, AllDone DEF Deletes
  <2>5. QED
    BY <1>3, <1>7, <1>9, <1>10, <1>13, <2>1, <2>3, <2>4 DEF Finish, Erased
<1>14. CASE Send(s)
  BY <1>3, <1>6, <1>8, <1>9, <1>14 DEF Send, Erased
<1>15. CASE Execute(s)
  <2>1. executed'[s] = executed[s] \/ executed'[s] = executed[s] + 1
    BY <1>15 DEF Execute
  <2>2. Erased(s) => Erased(s)'
    BY <1>6, <1>10, <2>1
  <2>3. Beneath(target[s])' = Beneath(target[s]) /\ Children(target[s])' = Children(target[s])
    BY <1>15 DEF Execute, Beneath, Children
  <2>4. phase[s] = "sent" => executed'[s] = executed[s] + (IF reply'[s] = "ok" THEN 1 ELSE 0)
    BY <1>6, <1>15 DEF Execute
  <2>5. QED
    BY <1>3, <1>6, <1>8, <1>9, <1>15, <2>1, <2>2, <2>3, <2>4 DEF Execute
<1>16. CASE Reply(s)
  <2>1. ~Finished(s) /\ Commanding(s) /\ phase[s] = "sent"
    BY <1>16 DEF Reply
  <2>2. CASE reply[s] = "ok" \/ Indifferent(s)
    <3>1. at'[s] = at[s] + 1 /\ phase'[s] = "ready" /\ answer' = answer /\ executed' = executed
      BY <1>16, <2>2 DEF Reply
    <3>2. reply[s] = "ok" => Done(s)' = Done(s) + 1
      BY <1>3, <1>6, <2>1, <3>1, OneMore DEF Done
    <3>3. QED
      BY <1>3, <1>6, <1>8, <1>16, <2>1, <2>2, <3>1, <3>2, OneMore DEF Reply, Erased
  <2>3. CASE ~(reply[s] = "ok" \/ Indifferent(s))
    <3>1. Complaint(s) \in {"unreachable", "rpc_error"}
      BY DEF Complaint
    <3>2. QED
      BY <1>3, <1>7, <1>9, <1>16, <2>1, <2>3, <3>1 DEF Reply, Erased
  <2>4. QED
    BY <2>2, <2>3
<1>17. CASE Unreachable(s)
  <2>1. ~Finished(s) /\ Commanding(s) /\ phase[s] = "ready"
    BY <1>17 DEF Unreachable, Commanding
  <2>2. CASE Optional(s)
    <3>1. Indifferent(s)
      BY <2>2 DEF Optional, Indifferent
    <3>2. QED
      BY <1>3, <1>6, <1>8, <1>17, <2>1, <2>2, <3>1, OneMore DEF Unreachable, Erased
  <2>3. CASE ~Optional(s)
    BY <1>3, <1>7, <1>9, <1>17, <2>1, <2>3 DEF Unreachable, Unanswered, Erased
  <2>4. QED
    BY <2>2, <2>3
<1>18. CASE GiveUp(s)
  <2>1. Complaint(s) \in {"unreachable", "rpc_error"} /\ (Optional(s) => Indifferent(s))
    BY DEF Complaint, Optional, Indifferent
  <2>2. QED
    BY <1>3, <1>7, <1>9, <1>18, <2>1 DEF GiveUp, Unanswered, Erased
<1>19. CASE Validate(s)
  <2>1. req[s].route = "eraseData" /\ at[s] = 2 /\ phase[s] = "ready" /\ Len(StepsOf(s)) = 4
    BY <1>19, OwnSteps, StepsOfRequests DEF Validate, DataSteps
  <2>2. CASE Answered(s, "untrusted_path") /\ at' = at
    <3>1. UNCHANGED <<executed, deleted, removers, wire, reply>>
      BY <1>19 DEF Validate
    <3>2. Done(s)' = Done(s) /\ phase'[s] = "answered" /\ answer'[s].code = "untrusted_path"
      BY <1>7, <1>9, <2>2
    <3>3. deleted[s] = {} /\ s \notin removers
      BY <2>1
    <3>4. QED
      BY <1>3, <1>6, <2>1, <2>2, <3>1, <3>2, <3>3
  <2>3. CASE at'[s] = 3 /\ answer' = answer /\ phase' = phase
    <3>1. Done(s)' = Done(s)
      BY <1>3, <2>1, <2>3 DEF Done
    <3>2. UNCHANGED <<executed, deleted, removers, wire, reply>>
      BY <1>19 DEF Validate
    <3>3. deleted[s] = {} /\ s \notin removers /\ answer[s].code = "none"
      BY <1>8, <2>1
    <3>4. QED
      <4>1. executed[s] = Done(s) \/ Indifferent(s)
        BY <2>1
      <4>2. /\ ~Indifferent(s)' /\ phase'[s] = "ready" => executed'[s] = Done(s)'
            /\ at'[s] <= Len(StepsOf(s)') + 1
        <5>1. ~Indifferent(s)' => executed'[s] = Done(s)'
          BY <1>3, <2>3, <3>1, <3>2, <4>1
        <5>2. at'[s] <= 4 + 1 /\ Len(StepsOf(s)') = 4
          BY <1>3, <2>1, <2>3
        <5>3. QED
          BY <5>1, <5>2
      <4>3. phase'[s] = "ready" /\ answer'[s].code = "none"
            /\ deleted'[s] = {} /\ s \notin removers'
        BY <2>1, <2>3, <3>2, <3>3
      <4>4. QED
        BY <4>2, <4>3
  <2>4. QED
    BY <1>19, <2>1, <2>2, <2>3 DEF Validate
<1>20. CASE Unlink(s)
  <2>1. req[s].route = "eraseData" /\ at[s] = 4 /\ phase[s] = "ready" /\ Len(StepsOf(s)) = 4
    BY <1>20, OwnSteps, StepsOfRequests DEF Unlink, DataSteps
  <2>2. executed[s] = 2 /\ Erased(s) /\ executed' = executed /\ Erased(s)'
    BY <1>3, <1>11, <1>20, <2>1 DEF Unlink, Deletes, Done, Erased
  <2>3. at'[s] \in {4, 5} => Done(s)' = 2
    BY <1>3, <2>1 DEF Done
  <2>4. at'[s] \in {4, 5}
    BY <1>20, <2>1 DEF Unlink
  <2>5. QED
    <3>1. phase'[s] \in {"ready", "unlinking"} /\ answer' = answer /\ deleted' = deleted
      BY <1>20, <2>1 DEF Unlink
    <3>2. answer[s].code = "none"
      BY <1>8, <2>1
    <3>3. QED
      <4>1. executed'[s] = Done(s)' /\ at'[s] <= Len(StepsOf(s)') + 1
        <5>1. executed'[s] = Done(s)'
          BY <2>2, <2>3, <2>4
        <5>2. at'[s] <= 4 + 1 /\ Len(StepsOf(s)') = 4
          BY <1>3, <2>1, <2>4
        <5>3. QED
          BY <5>1, <5>2
      <4>2. answer'[s].code = "none"
        BY <3>1, <3>2
      <4>3. QED
        BY <2>2, <3>1, <4>1, <4>2
<1>21. CASE RemoveOne(s)
  <2>1. Beneath(target[s])' \subseteq Beneath(target[s])
    BY <1>2, <1>21 DEF RemoveOne, Beneath
  <2>2. req[s].route = "eraseData" /\ Erased(s) /\ Erased(s)'
    BY <1>3, <1>21 DEF RemoveOne, Erased
  <2>3. answer[s].code \in {"none", "erased_with_data", "data_delete_failed"}
    BY <1>21 DEF RemoveOne
  <2>4. QED
    BY <1>3, <1>9, <1>21, <2>1, <2>2, <2>3 DEF RemoveOne
<1>22. CASE Removed(s) \/ RemoveFails(s) \/ Watchdog(s)
  <2>1. Erased(s) /\ Erased(s)'
    <3>1. phase[s] = "unlinking" => executed[s] = 2 /\ req[s].route = "eraseData"
      BY <1>11 DEF Deletes, Done
    <3>2. Erased(s)
      BY <1>22, <3>1 DEF Removed, RemoveFails, Watchdog, Erased
    <3>3. QED
      BY <1>3, <1>22, <3>2 DEF Removed, RemoveFails, RemoverEnds, Watchdog, Erased
  <2>2. Beneath(target[s])' = Beneath(target[s]) /\ Children(target[s])' = Children(target[s])
    BY <1>22 DEF Removed, RemoveFails, RemoverEnds, Watchdog, Beneath, Children
  <2>3. QED
    BY <1>3, <1>7, <1>8, <1>9, <1>22, <2>1, <2>2 DEF Removed, RemoveFails, RemoverEnds, Watchdog
<1>23. CASE BrowseTimeout(s)
  BY <1>3, <1>7, <1>9, <1>23 DEF BrowseTimeout, Unanswered, Erased
<1>24. CASE Browse(s)
  <2>1. ValidateBrowsePath(req[s].path, BrowseRoots(tree)) \in {"bad_path", "outside", "ok"}
    BY DEF ValidateBrowsePath
  <2>2. req[s].route = "browse" /\ target[s] = Nowhere /\ target' = target /\ phase[s] = "ready"
    BY <1>24, OwnSteps DEF Browse
  <2>3. \/ \E code \in {"unavailable", "bad_path", "outside"} : Answered(s, code)
        \/ \E roots : Listed(s, roots, FALSE)
        \/ phase'[s] = "listing" /\ answer' = answer
    <3>1. CASE BrowseRoots(tree) = {}
      BY <1>24, <3>1 DEF Browse
    <3>2. CASE BrowseRoots(tree) # {} /\ req[s].path = NoPath
      BY <1>24, <3>2 DEF Browse
    <3>3. CASE BrowseRoots(tree) # {} /\ req[s].path # NoPath
      <4>1. PICK lexical \in {"bad_path", "outside", "ok"} :
                IF lexical # "ok" THEN Answered(s, lexical)
                ELSE phase' = [phase EXCEPT ![s] = "listing"] /\ UNCHANGED answer
        BY <1>24, <2>1, <3>3 DEF Browse
      <4>2. QED
        BY <4>1
    <3>4. QED
      BY <3>1, <3>2, <3>3
  <2>4. \A roots : Listed(s, roots, FALSE) => answer'[s].code = "listed" /\ phase'[s] = "answered"
    BY DEF Listed
  <2>5. QED
    BY <1>3, <1>7, <1>8, <1>9, <1>24, <2>2, <2>3, <2>4 DEF Browse, Erased
<1>25. CASE Locate(s)
  <2>1. ResolveBrowsePath(Clean(req[s].path.parts), BrowseRoots(tree), tree)
            \in {"outside", "not_found", "ok"}
    BY DEF ResolveBrowsePath
  <2>2. \/ \E code \in {"outside", "not_found"} : Answered(s, code)
        \/ phase' = phase /\ answer' = answer
    BY <1>25, <2>1 DEF Locate
  <2>3. QED
    BY <1>3, <1>7, <1>8, <1>9, <1>25, <2>2 DEF Locate, Erased
<1>26. CASE List(s)
  <2>1. CASE target[s] \in tree \cap Directories
    <3>1. PICK seen \in ScannedOf(target[s]) :
              Listed(s, seen \cap Directories, ScanStops(seen))
      BY <1>26, <2>1 DEF List
    <3>2. /\ phase'[s] = "answered" /\ answer'[s].code = "listed"
          /\ answer'[s].truncated = ScanStops(seen)
          /\ answer'[s].entries = seen \cap Directories
      BY <3>1 DEF Listed
    <3>3. ~ScanStops(seen) => seen = Children(target[s])
      BY <3>1, FileSystemAssumption DEF ScannedOf, ScanStops
    <3>4. Children(target[s])' = Children(target[s])
      BY <1>26 DEF List, Children
    <3>5. QED
      BY <1>3, <1>9, <1>26, <3>2, <3>3, <3>4 DEF List, Erased
  <2>2. CASE target[s] \notin tree \cap Directories
    BY <1>3, <1>7, <1>9, <1>26, <2>2 DEF List, Erased
  <2>3. QED
    BY <2>1, <2>2
<1>27. QED
  BY <1>1, <1>12, <1>13, <1>14, <1>15, <1>16, <1>17, <1>18, <1>19, <1>20, <1>21, <1>22, <1>23,
     <1>24, <1>25, <1>26 DEF Handle, Remover

LEMMA TruthfulAnswers == Truthful => AnswersAreTrue
BY DEF Truthful, AnsweredTruly, AnswersAreTrue

-----------------------------------------------------------------------------
(* Guards. *)

\* Whatever is under way, or was, has passed.
Passed(s) ==
    phase[s] \in {"ready", "sent", "unlinking", "listing"} \/ executed[s] > 0 \/ s \in wire
        \/ deleted[s] # {} \/ s \in removers => Verdict(cfg, req[s]) = "pass"

Guarded == \A s \in Slots : Passed(s)

LEMMA InitGuarded == Init => Guarded
BY DEF Init, Guarded, Passed

LEMMA NextGuarded ==
    ASSUME Typed, Course, Guarded, Next
    PROVE  Guarded'
<1>1. PICK s \in Slots : Arrive(s) \/ Handle(s) \/ Execute(s) \/ Remover(s)
  BY DEF Next
<1>2. \A t \in Slots \ {s} : Passed(t)'
  BY <1>1, OthersStand DEF Guarded, Passed
<1>3. SUFFICES Passed(s)'
  BY <1>2 DEF Guarded
<1> Passed(s) /\ CourseOf(s)
  BY DEF Guarded, Course
<1>4. Verdict(cfg, req[s])' = Verdict(cfg, req[s])
  BY <1>1 DEF Arrive, Handle, Execute, Remover, Finish, Send, Reply, Unreachable, GiveUp,
     Unanswered, Validate, Unlink, RemoveOne, Removed, RemoveFails, RemoverEnds, Watchdog,
     Browse, Locate, List, BrowseTimeout
<1>5. CASE Arrive(s)
  BY <1>4, <1>5 DEF Arrive, Answered, Passed, CourseOf, Typed, TypeOK
<1>6. CASE Handle(s)
  <2>1. phase[s] \in {"ready", "sent", "unlinking", "listing"}
    BY <1>6 DEF Handle, Finish, Send, Reply, Unreachable, GiveUp, Validate, Unlink, Watchdog,
       Browse, Locate, List, BrowseTimeout
  <2>2. QED
    BY <1>4, <2>1 DEF Passed
<1>7. CASE Execute(s) \/ Remover(s)
  <2>1. s \in wire \/ s \in removers
    BY <1>7 DEF Execute, Remover, RemoveOne, Removed, RemoveFails
  <2>2. QED
    BY <1>4, <2>1 DEF Passed
<1>8. QED
  BY <1>1, <1>5, <1>6, <1>7

LEMMA GuardedHolds ==
    ASSUME Typed, Course, Guarded
    PROVE  GuardsHold
<1>1. SUFFICES ASSUME NEW s \in Slots, executed[s] > 0 \/ s \in wire \/ deleted[s] # {}
               PROVE  LET q == req[s]
                          commands == {StepsOf(s)[n] : n \in DOMAIN StepsOf(s)}
                          elsewhere == q.origin = "other" \/ (q.origin = "absent" /\ q.referer = "other")
                      IN /\ cfg.auth = "basic" => q.known \/ q.route = "health"
                         /\ elsewhere => commands \cap Changing = {}
                         /\ cfg.hosts # {} => q.host \in cfg.hosts
                         /\ q.route = "rpc" => /\ cfg.passthrough /\ ~Matches(DefaultDeny \cup cfg.deny, q.name)
                                               /\ cfg.allow = {} \/ Matches(cfg.allow, q.name)
                         /\ deleted[s] # {} => cfg.deleteWithData /\ ~cfg.mock
                         /\ q.route = "add" => q.form = "good"
  BY DEF GuardsHold
<1> DEFINE q == req[s]
<1>2. Verdict(cfg, q) = "pass"
  BY <1>1 DEF Guarded, Passed
<1>3. HostPasses(cfg, q) /\ OriginPasses(q) /\ AuthPasses(cfg, q)
  BY <1>2 DEF Verdict
<1>4. q.route \in Routes
  BY RequestsAreSound DEF Typed
<1>5. cfg.auth = "basic" => q.known \/ q.route = "health"
  BY <1>3 DEF AuthPasses
<1>6. ASSUME q.origin = "other" \/ (q.origin = "absent" /\ q.referer = "other")
      PROVE  {StepsOf(s)[n] : n \in DOMAIN StepsOf(s)} \cap Changing = {}
  <2>1. q.route \in Gets
    BY <1>3, <1>4, <1>6 DEF OriginPasses, Routes, Unsafe
  <2>2. QED
    BY <2>1, StepsOfRequests DEF Typed
<1>7. cfg.hosts # {} => q.host \in cfg.hosts
  BY <1>3 DEF HostPasses
<1>8. q.route = "rpc" => /\ cfg.passthrough /\ ~Matches(DefaultDeny \cup cfg.deny, q.name)
                         /\ cfg.allow = {} \/ Matches(cfg.allow, q.name)
  <2>1. SUFFICES ASSUME q.route = "rpc"
                 PROVE  /\ cfg.passthrough /\ ~Matches(DefaultDeny \cup cfg.deny, q.name)
                        /\ cfg.allow = {} \/ Matches(cfg.allow, q.name)
    OBVIOUS
  <2>2. PassThrough(cfg, q) = "pass"
    BY <1>2, <1>3, <2>1 DEF Verdict, Parsed, Puts
  <2>3. cfg.passthrough /\ ~Matches(DenyList(cfg), q.name)
    BY <2>2 DEF PassThrough
  <2>4. cfg.allow = {} \/ Matches(cfg.allow, q.name)
    BY <2>2 DEF PassThrough
  <2>5. QED
    BY <2>3, <2>4 DEF DenyList
<1>9. deleted[s] # {} => cfg.deleteWithData /\ ~cfg.mock
  <2>1. deleted[s] # {} => q.route = "eraseData"
    BY DEF Course, CourseOf
  <2>2. QED
    BY <1>2, <1>3, <2>1, RequestsAreSound DEF Typed, Verdict, Parsed, Puts
<1>10. q.route = "add" => q.form = "good"
  BY <1>2, <1>3, RequestsAreSound DEF Typed, Verdict, Parsed
<1>11. QED
  BY <1>5, <1>6, <1>7, <1>8, <1>9, <1>10

-----------------------------------------------------------------------------
(* The theorems. *)

Inv == Typed /\ Course /\ Anchored /\ Truthful /\ Guarded

LEMMA InitInv == Init => Inv
BY InitTyped, InitCourse, InitAnchored, InitTruthful, InitGuarded DEF Inv

LEMMA NextInv == Inv /\ [Next]_vars => Inv'
<1>1. SUFFICES ASSUME Inv, [Next]_vars PROVE Inv'
  OBVIOUS
<1>2. CASE Next
  <2>1. Typed'
    BY <1>1, <1>2, NextTyped DEF Inv, Course, CourseOf
  <2>2. Course'
    BY <1>1, <1>2, <2>1, NextCourse DEF Inv
  <2>3. QED
    BY <1>1, <1>2, <2>1, <2>2, NextAnchored, NextTruthful, NextGuarded DEF Inv
<1>3. CASE UNCHANGED vars
  <2>1. Typed'
    BY <1>1, <1>3 DEF Inv, vars, Typed, TypeOK, Provenance
  <2>2. Course'
    BY <1>1, <1>3 DEF Inv, vars, Course, CourseOf, Finished, Commanding, Step, StepsOf
  <2>3. Anchored'
    BY <1>1, <1>3 DEF Inv, vars, Anchored, AnchoredOf
  <2>4. Truthful'
    BY <1>1, <1>3 DEF Inv, vars, Truthful, AnsweredTruly, Done, Erased, Beneath, Children,
       Indifferent, StepsOf
  <2>5. Guarded'
    BY <1>1, <1>3 DEF Inv, vars, Guarded, Passed
  <2>6. QED
    BY <2>1, <2>2, <2>3, <2>4, <2>5 DEF Inv
<1>4. QED
  BY <1>1, <1>2, <1>3

LEMMA Invariance == Spec => []Inv
BY InitInv, NextInv, PTL DEF Spec

\* Every variable keeps its type, whatever is asked, answered and lost
\* (api/server.go and what it calls).
THEOREM TypeCorrect == Spec => []TypeOK
<1>1. Inv => TypeOK
  BY DEF Inv, Typed
<1>2. QED
  BY <1>1, Invariance, PTL

\* For every file system with links, every roots and every base path the daemon
\* may report: nothing outside the real roots is removed or listed, so a root is
\* removed only when it lies within another (validateBasePath,
\* resolveAndRevalidate, resolveBrowsePath).
THEOREM RemovalStaysInside == Spec => []StaysInsideTheRoots
<1>1. Inv => StaysInsideTheRoots
  BY AnchoredStaysInside DEF Inv
<1>2. QED
  BY <1>1, Invariance, PTL

\* For any number of requests at once, each answer says what was done for it
\* (handleErase, osDeleter, actionHandler, listDirs).
THEOREM AnswersTellTheTruth == Spec => []AnswersAreTrue
<1>1. Inv => AnswersAreTrue
  BY TruthfulAnswers DEF Inv
<1>2. QED
  BY <1>1, Invariance, PTL

\* For every configuration and every request: what has not passed the guards has
\* no effect (SameOriginGuard, BasicAuth, handleRPCPassthrough).
THEOREM NothingPassesUnguarded == Spec => []GuardsHold
<1>1. Inv => GuardsHold
  BY GuardedHolds DEF Inv
<1>2. QED
  BY <1>1, Invariance, PTL
===============================================================================
