-------------------------- MODULE ReplayToolProofs --------------------------
(***************************************************************************)
(* For any number of replay tools on one target, any schedules and any     *)
(* number of blocks: evidence is never replaced, and a verdict of          *)
(* "reproduced" is about the child that the tool has watched, which died   *)
(* with the directory in the state in which a fresh original left its own. *)
(*                                                                         *)
(* The argument is that the trace of a child that found no manifest tells  *)
(* everything that is in its directory.                                    *)
(*                                                                         *)
(* And a replay that nobody disturbs reproduces the failure of a fresh     *)
(* run: a child with one worker that found no manifest follows a script,   *)
(* in which the place of an event fixes the event, up to the hit that was  *)
(* asked for. Two such children make one trace.                            *)
(***************************************************************************)
EXTENDS ReplayTool, Integers, FiniteSetTheorems, TLAPS

-----------------------------------------------------------------------------
(* What a trace tells *)

Before == {"begin", "written", "fsynced", "closed"}
After == {"renamed", "installed"}

Events == {"metadata", "result", "manifest"} \X (Before \cup After)
            \X [inc : Nat, block : Nat \cup {None}, seq : Nat \cup {None}]

\* The installs that became visible among the first i events.
Visible(tr, i, artifact) ==
    {k \in 1 .. i : tr[k][1] = artifact /\ tr[k][2] = "renamed"}

ResultsOf(tr, i) == {<<tr[k][3].block, tr[k][3].inc>> : k \in Visible(tr, i, "result")}

ManifestAt(tr, i, n) ==
    [seq |-> tr[i][3].seq, inc |-> tr[i][3].inc, entries |-> ResultsOf(tr, i),
     status |-> IF Cardinality(ResultsOf(tr, i)) < n THEN "running" ELSE "complete"]

ManifestsOf(tr, n) == {ManifestAt(tr, i, n) : i \in Visible(tr, Len(tr), "manifest")}

-----------------------------------------------------------------------------
(* The invariant of a child with record r, a directory and evidence *)

Fields == {"state", "code", "job", "dir", "path", "cfg", "pc", "stage", "seq", "inc",
           "status", "done", "recovered", "pending", "block", "enabled", "hits",
           "trace", "reports"}

Opening == {"construct", "open", "meta", "scan"}
Opened == ManifestPcs \cup {"cleanup", "running", "record", "return"}
Dying == {"evidence", "link", "sync"}

Typed(r) ==
    /\ DOMAIN r = Fields
    /\ r.state \in {"none", "running", "zombie", "reaped"}
    /\ r.state = "running" => r.code = 0
    /\ r.job # "recover"
    /\ r.pc \in Opening \cup Opened \cup Dying \cup {"down"}
    /\ r.stage \in Before \cup After
    /\ r.seq \in Nat /\ r.inc \in Nat /\ r.block \in Nat
    /\ r.enabled \in BOOLEAN
    /\ r.trace \in Seq(Events)
    /\ r.pc \in Opening => r.trace = <<>>
    /\ r.pc \in Dying => r.enabled

\* It has found no manifest: the first of its own has sequence 0.
Clean(r) == IF r.trace = <<>> THEN r.pc = "initial" ELSE r.trace[1][3].seq = 0

\* Then the directory is what the trace tells, and memory is behind by one result.
Fresh(r, ms, rs) ==
    /\ rs = ResultsOf(r.trace, Len(r.trace))
    /\ ms = ManifestsOf(r.trace, r.cfg.n)
    /\ r.pc # "recovery"
    /\ r.pc \in Opened =>
        /\ IsFiniteSet(r.done)
        /\ rs = IF r.pc = "record" /\ r.stage \in After
                  THEN r.done \cup {<<r.block, r.inc>>} ELSE r.done
        /\ r.pc \in {"initial", "checkpoint"} => Cardinality(r.done) < r.cfg.n
        /\ r.pc = "finish" => ~(Cardinality(r.done) < r.cfg.n)

Traced(r, ms, rs) ==
    r.pc \in Opened \cup Dying /\ r.enabled =>
        /\ r.trace = <<>> =>
            \/ r.pc = "initial" /\ r.stage = "begin" /\ r.seq = 0
            \/ r.pc = "recovery" /\ r.stage = "begin" /\ r.seq > 0
            \/ r.pc \in {"cleanup", "return"} /\ r.status = "complete"
        /\ Clean(r) => Fresh(r, ms, rs)

\* A child that has opened a run has found or written a manifest.
Started(r, ms) ==
    \/ r.pc \in Opened \ {"initial"}
    \/ r.pc = "initial" /\ r.stage \in After
    => ms # {}

\* The descriptor is the child's own, and the site that was noted is its directory.
Seen(r, site) ==
    /\ r.trace # <<>>
    /\ r.trace[1][3].seq = 0 =>
        /\ site.results = ResultsOf(r.trace, Len(r.trace))
        /\ site.manifests = ManifestsOf(r.trace, r.cfg.n)

Linked(r, e, site) ==
    (r.state = "running" /\ r.pc = "sync") \/ r.code = Injected
        => e = Descriptor(r) /\ Seen(r, site)

-----------------------------------------------------------------------------
(* The inductive invariant *)

Site(t) == IF t = origin THEN home ELSE target

Shape ==
    /\ DOMAIN child = Tools /\ DOMAIN wait = Tools /\ DOMAIN phase = Tools
    /\ DOMAIN verdict = Tools /\ DOMAIN crashSite = Tools
    /\ DOMAIN store = Dirs /\ DOMAIN evidence = Dirs /\ DOMAIN lock = Dirs
    /\ resumed \in BOOLEAN

ToolOK(t, r, ms, rs, holder, e, site, w, p) ==
    /\ Typed(r)
    /\ r.state # "none" => r.dir = Site(t) /\ r.path = Site(t) /\ r.cfg.n \in Nat \ {0}
    /\ r.state = "running" => Traced(r, ms, rs) /\ Started(r, ms)
    /\ r.state = "running" /\ r.pc \notin {"construct", "open"} => holder = t
    /\ Linked(r, e, site)
    /\ w \in {"exited", "failed"} => r.state = "reaped"
    /\ p = "start" => r.state = "none"
Tool(t) ==
    ToolOK(t, child[t], store[Site(t)].manifests, store[Site(t)].results, lock[Site(t)],
           evidence[Site(t)], crashSite[t], wait[t], phase[t])

\* Only a child that has opened the directory holds its lock.
Owned ==
    \A d \in Dirs : lock[d] # None =>
        \E t \in Tools : /\ lock[d] = t /\ Site(t) = d
                         /\ child[t].state = "running"
                         /\ child[t].pc \notin {"construct", "open"}

\* One manifest is the latest, and the first one comes before the results.
Latest(m, ms) == m \in ms /\ \A o \in ms : o.seq <= m.seq
Directory(s) ==
    /\ DOMAIN s = {"meta", "manifests", "results", "temps"}
    /\ \A m \in s.manifests : m.seq \in Nat /\ m.inc \in Nat
    /\ s.manifests # {} => \E m \in s.manifests : Latest(m, s.manifests)
    /\ s.manifests = {} => s.results = {}

\* The original run, and the run before it.
Origin ==
    LET r == child[origin] IN
    /\ phase[origin] \in {"start", "earlier"} => evidence[home] = NoEvidence
    /\ phase[origin] = "earlier" => r.cfg.point = None /\ ~r.enabled /\ resumed
    /\ evidence[home] # NoEvidence =>
        /\ evidence[home] = Descriptor(r) /\ Seen(r, crashSite[origin])
        /\ r.state # "none" /\ (r.state = "running" => r.pc = "sync")
        /\ ~resumed => r.trace[1][3].seq = 0
    /\ ~resumed =>
        /\ phase[origin] = "start" => store[home].manifests = {}
        /\ r.state = "running" =>
            /\ r.pc \in Opening => store[home].manifests = {}
            /\ r.pc \in Opened \cup Dying /\ r.enabled => Clean(r)

\* Who reports a failure as reproduced has seen it.
Reported ==
    \A t \in Replays : verdict[t] = "reproduced" =>
        /\ child[t].code = Injected /\ evidence[home] = Descriptor(child[t])
        /\ wait[t] = "exited" /\ phase[t] = "ended"

Inv ==
    /\ Shape /\ (\A t \in Tools : Tool(t)) /\ Owned
    /\ (\A d \in Dirs : Directory(store[d])) /\ Origin /\ Reported

-----------------------------------------------------------------------------
(* Traces *)

\* No event, nothing visible.
LEMMA NoEvents ==
    ASSUME NEW n
    PROVE  ResultsOf(<<>>, Len(<<>>)) = {} /\ ManifestsOf(<<>>, n) = {}
<1>1. Len(<<>>) = 0 /\ 1 .. 0 = {}
    OBVIOUS
<1> QED BY <1>1 DEF ResultsOf, ManifestsOf, Visible

\* One more event.
LEMMA OneMore ==
    ASSUME NEW tr \in Seq(Events), NEW e \in Events
    PROVE  LET tr2 == Append(tr, e) IN
           /\ tr2 \in Seq(Events) /\ tr2 # <<>> /\ Len(tr2) = Len(tr) + 1
           /\ tr2[1] = IF tr = <<>> THEN e ELSE tr[1]
           /\ \A i \in 1 .. Len(tr) : tr2[i] = tr[i]
           /\ tr2[Len(tr) + 1] = e
<1> DEFINE tr2 == Append(tr, e)
<1>1. /\ tr2 \in Seq(Events) /\ Len(tr2) = Len(tr) + 1 /\ tr2[Len(tr) + 1] = e
      /\ \A i \in 1 .. Len(tr) : tr2[i] = tr[i]
    OBVIOUS
<1>2. Len(tr) \in Nat /\ (Len(tr) = 0 <=> tr = <<>>) /\ Len(tr2) # 0
    BY <1>1
<1>3. tr2 # <<>>
    BY <1>2
<1> HIDE DEF tr2
<1>4. CASE tr = <<>>
    BY <1>1, <1>2, <1>3, <1>4 DEF tr2
<1>5. CASE tr # <<>>
    <2>1. 1 \in 1 .. Len(tr)
        BY <1>2, <1>5
    <2>2. tr2[1] = tr[1]
        BY <1>1, <2>1
    <2> QED BY <1>1, <1>3, <1>5, <2>2 DEF tr2
<1> QED BY <1>4, <1>5

LEMMA VisibleGrows ==
    ASSUME NEW tr \in Seq(Events), NEW e \in Events, NEW a
    PROVE  /\ \A i \in 1 .. Len(tr) : Visible(Append(tr, e), i, a) = Visible(tr, i, a)
           /\ Visible(Append(tr, e), Len(tr), a) = Visible(tr, Len(tr), a)
           /\ Visible(Append(tr, e), Len(tr) + 1, a) =
                Visible(tr, Len(tr), a) \cup
                    (IF e[1] = a /\ e[2] = "renamed" THEN {Len(tr) + 1} ELSE {})
<1> DEFINE tr2 == Append(tr, e)
<1>1. /\ \A i \in 1 .. Len(tr) : tr2[i] = tr[i]
      /\ tr2[Len(tr) + 1] = e /\ Len(tr) \in Nat
    BY OneMore
<1> HIDE DEF tr2
<1>2. \A i \in 1 .. Len(tr) : Visible(tr2, i, a) = Visible(tr, i, a)
    BY <1>1 DEF Visible
<1>3. Visible(tr2, Len(tr), a) = Visible(tr, Len(tr), a)
    BY <1>1 DEF Visible
<1>4. 1 .. Len(tr) + 1 = (1 .. Len(tr)) \cup {Len(tr) + 1}
    BY <1>1
<1>5. Visible(tr2, Len(tr) + 1, a) =
        Visible(tr, Len(tr), a) \cup
            (IF e[1] = a /\ e[2] = "renamed" THEN {Len(tr) + 1} ELSE {})
    BY <1>1, <1>4 DEF Visible
<1> QED BY <1>2, <1>3, <1>5 DEF tr2

LEMMA ResultsGrow ==
    ASSUME NEW tr \in Seq(Events), NEW e \in Events
    PROVE  /\ \A i \in 1 .. Len(tr) : ResultsOf(Append(tr, e), i) = ResultsOf(tr, i)
           /\ ResultsOf(Append(tr, e), Len(tr) + 1) =
                ResultsOf(tr, Len(tr)) \cup
                    (IF e[1] = "result" /\ e[2] = "renamed"
                       THEN {<<e[3].block, e[3].inc>>} ELSE {})
<1> DEFINE tr2 == Append(tr, e)
           k == Len(tr) + 1
<1>1. /\ \A i \in 1 .. Len(tr) : tr2[i] = tr[i]
      /\ tr2[k] = e /\ Len(tr) \in Nat
    BY OneMore
<1>2. /\ \A i \in 1 .. Len(tr) : Visible(tr2, i, "result") = Visible(tr, i, "result")
      /\ Visible(tr2, k, "result") =
            Visible(tr, Len(tr), "result") \cup
                (IF e[1] = "result" /\ e[2] = "renamed" THEN {k} ELSE {})
    BY VisibleGrows
<1> HIDE DEF tr2, k
<1>3. \A i \in 0 .. Len(tr) : Visible(tr, i, "result") \subseteq 1 .. Len(tr)
    BY <1>1 DEF Visible
<1>4. \A i \in 1 .. Len(tr) : ResultsOf(tr2, i) = ResultsOf(tr, i)
    <2> SUFFICES ASSUME NEW i \in 1 .. Len(tr) PROVE ResultsOf(tr2, i) = ResultsOf(tr, i)
        OBVIOUS
    <2>1. Visible(tr2, i, "result") = Visible(tr, i, "result")
          /\ Visible(tr, i, "result") \subseteq 1 .. Len(tr)
        BY <1>1, <1>2, <1>3
    <2> QED BY <1>1, <2>1 DEF ResultsOf
<1>5. Visible(tr, Len(tr), "result") \subseteq 1 .. Len(tr)
    BY <1>1, <1>3
<1>6. CASE e[1] = "result" /\ e[2] = "renamed"
    <2>1. Visible(tr2, k, "result") = Visible(tr, Len(tr), "result") \cup {k}
        BY <1>2, <1>6
    <2>2. ResultsOf(tr2, k) = ResultsOf(tr, Len(tr)) \cup {<<tr2[k][3].block, tr2[k][3].inc>>}
        BY <1>1, <1>5, <2>1 DEF ResultsOf
    <2> QED BY <1>1, <1>4, <1>6, <2>2 DEF tr2, k
<1>7. CASE ~(e[1] = "result" /\ e[2] = "renamed")
    <2>1. Visible(tr2, k, "result") = Visible(tr, Len(tr), "result")
        BY <1>2, <1>7
    <2>2. ResultsOf(tr2, k) = ResultsOf(tr, Len(tr))
        BY <1>1, <1>5, <2>1 DEF ResultsOf
    <2> QED BY <1>4, <1>7, <2>2 DEF tr2, k
<1> QED BY <1>6, <1>7

LEMMA ManifestsGrow ==
    ASSUME NEW tr \in Seq(Events), NEW e \in Events, NEW n
    PROVE  ManifestsOf(Append(tr, e), n) =
                ManifestsOf(tr, n) \cup
                    (IF e[1] = "manifest" /\ e[2] = "renamed"
                       THEN {ManifestAt(Append(tr, e), Len(tr) + 1, n)} ELSE {})
<1> DEFINE tr2 == Append(tr, e)
           k == Len(tr) + 1
           vs == Visible(tr, Len(tr), "manifest")
<1>1. /\ \A i \in 1 .. Len(tr) : tr2[i] = tr[i]
      /\ Len(tr2) = k /\ Len(tr) \in Nat
    BY OneMore
<1>2. Visible(tr2, k, "manifest") =
            vs \cup (IF e[1] = "manifest" /\ e[2] = "renamed" THEN {k} ELSE {})
    BY VisibleGrows
<1>3. \A i \in 1 .. Len(tr) : ResultsOf(tr2, i) = ResultsOf(tr, i)
    BY ResultsGrow
<1>4. vs \subseteq 1 .. Len(tr)
    BY <1>1 DEF Visible
<1> HIDE DEF tr2, k, vs
<1>5. \A i \in vs : ManifestAt(tr2, i, n) = ManifestAt(tr, i, n)
    BY <1>1, <1>3, <1>4 DEF ManifestAt
<1>6. ManifestsOf(tr2, n) = {ManifestAt(tr2, i, n) : i \in Visible(tr2, k, "manifest")}
    BY <1>1 DEF ManifestsOf
<1>7. ManifestsOf(tr, n) = {ManifestAt(tr, i, n) : i \in vs}
    BY DEF ManifestsOf, vs
<1>8. CASE e[1] = "manifest" /\ e[2] = "renamed"
    BY <1>2, <1>5, <1>6, <1>7, <1>8 DEF tr2, k
<1>9. CASE ~(e[1] = "manifest" /\ e[2] = "renamed")
    BY <1>2, <1>5, <1>6, <1>7, <1>9 DEF tr2, k
<1> QED BY <1>8, <1>9

-----------------------------------------------------------------------------
(* Steps of one tool, and the others *)

\* A path with a descriptor is taken.
LEMMA Taken == ASSUME NEW q PROVE Descriptor(q) # NoEvidence
<1>1. "n" \in DOMAIN Descriptor(q) /\ "n" \notin DOMAIN NoEvidence
    BY DEF Descriptor, NoEvidence
<1> QED BY <1>1

LEMMA Sites ==
    /\ home \in Dirs /\ target \in Dirs /\ home # target /\ origin \in Tools
    /\ Site(origin) = home /\ \A t \in Replays : t \in Tools /\ t # origin /\ Site(t) = target
    /\ \A t \in Tools : Site(t) \in Dirs /\ (t # origin => t \in Replays)
BY ReplayAssumption, PlacesAssumption DEF Site

\* The other tools do not notice a step that keeps what they have locked and
\* what they have written.
LEMMA Others ==
    ASSUME Inv, NEW u \in Tools, child'[u] = child[u], wait'[u] = wait[u],
           phase'[u] = phase[u], crashSite'[u] = crashSite[u],
           lock[Site(u)] = u => /\ lock'[Site(u)] = u
                                /\ store'[Site(u)].manifests = store[Site(u)].manifests
                                /\ store'[Site(u)].results = store[Site(u)].results,
           evidence[Site(u)] # NoEvidence => evidence'[Site(u)] = evidence[Site(u)]
    PROVE  Tool(u)'
<1> DEFINE q == child[u]
<1>1. Tool(u)
    BY DEF Inv
<1>2. Linked(q, evidence'[Site(u)], crashSite[u])
    BY <1>1, Taken DEF Tool, ToolOK, Linked
<1>3. q.state = "running" =>
        /\ Traced(q, store'[Site(u)].manifests, store'[Site(u)].results)
        /\ Started(q, store'[Site(u)].manifests)
    <2>1. CASE q.pc \in {"construct", "open"}
        BY <2>1 DEF Traced, Started, Opened, Dying, ManifestPcs
    <2>2. CASE q.pc \notin {"construct", "open"}
        BY <1>1, <2>2 DEF Tool, ToolOK
    <2> QED BY <2>1, <2>2
<1> QED BY <1>1, <1>2, <1>3 DEF Tool, ToolOK

\* Verdicts stand.
LEMMA StillReported ==
    ASSUME Inv, \A u \in Replays : verdict'[u] = "reproduced" =>
                    /\ verdict[u] = "reproduced" /\ child'[u] = child[u]
                    /\ wait'[u] = wait[u] /\ phase'[u] = phase[u],
           evidence[home] # NoEvidence => evidence'[home] = evidence[home]
    PROVE  Reported'
<1> SUFFICES ASSUME NEW u \in Replays, verdict'[u] = "reproduced"
             PROVE  /\ child'[u].code = Injected /\ evidence'[home] = Descriptor(child'[u])
                    /\ wait'[u] = "exited" /\ phase'[u] = "ended"
    BY DEF Reported
<1>1. /\ child[u].code = Injected /\ evidence[home] = Descriptor(child[u])
      /\ wait[u] = "exited" /\ phase[u] = "ended"
    BY DEF Inv, Reported
<1>2. evidence'[home] = evidence[home]
    BY <1>1, Taken
<1> QED BY <1>1, <1>2

\* Who runs has not been reported on.
LEMMA Unreported ==
    ASSUME Inv, NEW t \in Tools, child[t].state # "reaped"
    PROVE  t \in Replays => verdict[t] # "reproduced"
BY DEF Inv, Reported, Tool, ToolOK

\* A child goes on, with the directory to itself.
LEMMA Works ==
    ASSUME Inv, NEW t \in Tools, NEW q,
           child[t].state = "running", child[t].pc \notin {"construct", "open", "sync"},
           child' = [child EXCEPT ![t] = q],
           q.state = "running" /\ q.code = child[t].code /\ q.dir = child[t].dir,
           q.path = child[t].path /\ q.cfg = child[t].cfg /\ q.enabled = child[t].enabled,
           Typed(q), q.pc \notin {"construct", "open", "sync"},
           UNCHANGED <<lock, evidence, wait, phase, verdict, crashSite, resumed>>,
           DOMAIN store' = Dirs, \A d \in Dirs \ {Site(t)} : store'[d] = store[d],
           Directory(store'[Site(t)]),
           Traced(q, store'[Site(t)].manifests, store'[Site(t)].results),
           Started(q, store'[Site(t)].manifests),
           t = origin /\ ~resumed =>
                /\ q.pc \in Opening => store'[home].manifests = {}
                /\ q.pc \in Opened \cup Dying /\ q.enabled => Clean(q)
    PROVE  Inv'
<1> USE Sites
<1>1. Shape /\ Tool(t) /\ Owned /\ Origin
    BY DEF Inv
<1>2. child'[t] = q /\ DOMAIN child' = Tools /\ \A u \in Tools \ {t} : child'[u] = child[u]
    BY <1>1 DEF Shape
<1>3. Shape'
    BY <1>1, <1>2 DEF Shape
<1>4. lock[Site(t)] = t
    BY <1>1 DEF Tool, ToolOK
<1>5. \A u \in Tools \ {t} : Tool(u)'
    <2> SUFFICES ASSUME NEW u \in Tools \ {t} PROVE Tool(u)'
        OBVIOUS
    <2>1. lock[Site(u)] = u => Site(u) # Site(t)
        BY <1>4
    <2> QED BY <1>2, <2>1, Others
<1>6. Tool(t)'
    <2>1. Linked(q, evidence[Site(t)], crashSite[t])
        <3>1. child[t].code = 0
            BY <1>1 DEF Tool, ToolOK, Typed
        <3> QED BY <3>1 DEF Linked, Injected
    <2> QED BY <1>1, <1>2, <1>4, <2>1 DEF Tool, ToolOK
<1>7. Owned'
    BY <1>1, <1>2 DEF Owned
<1>8. \A d \in Dirs : Directory(store'[d])
    BY DEF Inv
<1>9. Origin'
    <2>1. CASE t = origin
        <3>1. evidence[home] = NoEvidence
            BY <1>1, <2>1 DEF Origin
        <3>2. phase[origin] # "start"
            BY <1>1, <2>1 DEF Tool, ToolOK
        <3> QED BY <1>1, <1>2, <2>1, <3>1, <3>2 DEF Origin
    <2>2. CASE t # origin
        <3>1. store'[home] = store[home] /\ child'[origin] = child[origin]
            BY <1>2, <2>2
        <3> QED BY <1>1, <3>1 DEF Origin
    <2> QED BY <2>1, <2>2
<1>10. Reported'
    BY <1>2, Unreported, StillReported
<1> QED BY <1>3, <1>5, <1>6, <1>7, <1>8, <1>9, <1>10 DEF Inv

\* A child dies; if it was in its hook, its evidence is there.
LEMMA Dies ==
    ASSUME Inv, NEW t \in Tools, NEW c,
           child[t].state = "running",
           child' = [child EXCEPT ![t].state = "zombie", ![t].code = c], Unlock(t),
           c = Injected => evidence[Site(t)] = Descriptor(child[t])
                           /\ Seen(child[t], crashSite[t]),
           UNCHANGED <<evidence, phase, verdict, crashSite, resumed>>,
           DOMAIN wait' = Tools, wait'[t] \notin {"exited", "failed"},
           \A u \in Tools \ {t} : wait'[u] = wait[u],
           DOMAIN store' = Dirs,
           \A d \in Dirs : /\ DOMAIN store'[d] = DOMAIN store[d]
                           /\ store'[d].manifests = store[d].manifests
                           /\ store'[d].results = store[d].results
    PROVE  Inv'
<1> USE Sites
<1>1. Shape /\ Tool(t) /\ Owned /\ Origin
    BY DEF Inv
<1>0. DOMAIN child[t] = Fields
    BY <1>1 DEF Tool, ToolOK, Typed
<1>2. /\ DOMAIN child' = Tools /\ \A u \in Tools \ {t} : child'[u] = child[u]
      /\ DOMAIN child'[t] = Fields /\ child'[t].state = "zombie" /\ child'[t].code = c
      /\ \A f \in Fields \ {"state", "code"} : child'[t][f] = child[t][f]
    BY <1>0, <1>1 DEF Shape, Fields
<1> DEFINE q == child'[t]
<1>a. /\ q.job = child[t].job /\ q.dir = child[t].dir /\ q.path = child[t].path
      /\ q.cfg = child[t].cfg /\ q.pc = child[t].pc /\ q.stage = child[t].stage
      /\ q.seq = child[t].seq /\ q.inc = child[t].inc /\ q.block = child[t].block
      /\ q.enabled = child[t].enabled /\ q.trace = child[t].trace
    BY <1>2 DEF Fields
<1> HIDE DEF q
<1>3. Shape'
    BY <1>1, <1>2 DEF Shape, Unlock
<1>4. Typed(q)
    BY <1>1, <1>2, <1>a DEF Tool, ToolOK, Typed, q
<1>b. Descriptor(q) = Descriptor(child[t]) /\ (Seen(q, crashSite[t]) <=> Seen(child[t], crashSite[t]))
    BY <1>a DEF Descriptor, Seen
<1>5. \A u \in Tools \ {t} : Tool(u)'
    <2> SUFFICES ASSUME NEW u \in Tools \ {t} PROVE Tool(u)'
        OBVIOUS
    <2>1. lock[Site(u)] = u => lock'[Site(u)] = u
        BY DEF Unlock
    <2> QED BY <1>2, <2>1, Others
<1>6. Tool(t)'
    <2>1. Linked(q, evidence[Site(t)], crashSite[t])
        BY <1>2, <1>b DEF Linked, q
    <2>2. phase[t] # "start"
        BY <1>1 DEF Tool, ToolOK
    <2> QED BY <1>1, <1>2, <1>4, <1>a, <2>1, <2>2 DEF Tool, ToolOK, q
<1>7. Owned'
    <2> SUFFICES ASSUME NEW d \in Dirs, lock'[d] # None
                 PROVE  \E v \in Tools : /\ lock'[d] = v /\ Site(v) = d
                                         /\ child'[v].state = "running"
                                         /\ child'[v].pc \notin {"construct", "open"}
        BY DEF Owned
    <2>1. lock'[d] = lock[d] /\ lock[d] # t /\ lock[d] # None
        BY DEF Unlock
    <2>2. PICK v \in Tools : /\ lock[d] = v /\ Site(v) = d
                             /\ child[v].state = "running"
                             /\ child[v].pc \notin {"construct", "open"}
        BY <1>1, <2>1 DEF Owned
    <2> QED BY <1>2, <2>1, <2>2
<1>8. \A d \in Dirs : Directory(store'[d])
    BY DEF Inv, Directory
<1>9. Origin'
    <2>1. CASE t = origin
        <3>1. phase[origin] # "start"
            BY <1>1, <2>1 DEF Tool, ToolOK
        <3> QED BY <1>1, <1>2, <1>a, <1>b, <2>1, <3>1 DEF Origin, q
    <2>2. CASE t # origin
        <3>1. store'[home].manifests = store[home].manifests /\ child'[origin] = child[origin]
            BY <1>2, <2>2
        <3> QED BY <1>1, <3>1 DEF Origin
    <2> QED BY <2>1, <2>2
<1>10. Reported'
    <2>1. t \in Replays => verdict[t] # "reproduced"
        BY Unreported
    <2> QED BY <1>2, <2>1, StillReported
<1> QED BY <1>3, <1>5, <1>6, <1>7, <1>8, <1>9, <1>10 DEF Inv

-----------------------------------------------------------------------------
(* Steps of a child *)

\* What a step of the child of t leaves alone, but for its evidence.
Aside(t) == NoteSite(t) /\ UNCHANGED <<watchdogVars, config, resumed, phase, verdict>>

LEMMA NothingNoted ==
    ASSUME NEW t \in Tools, Aside(t), UNCHANGED evidence
    PROVE  UNCHANGED <<wait, phase, verdict, crashSite, resumed>>
BY DEF Aside, NoteSite, watchdogVars

\* The facts that every step of a running child starts from.
LEMMA Now ==
    ASSUME Inv, NEW t \in Tools, child[t].state = "running"
    PROVE  /\ Shape /\ Tool(t) /\ Typed(child[t]) /\ child[t].code = 0
           /\ Site(t) \in Dirs /\ child[t].dir = Site(t) /\ child[t].path = Site(t)
           /\ child[t].cfg.n \in Nat \ {0}
           /\ Traced(child[t], store[Site(t)].manifests, store[Site(t)].results)
           /\ Started(child[t], store[Site(t)].manifests)
           /\ Directory(store[Site(t)])
           /\ t = origin /\ ~resumed =>
                /\ child[t].pc \in Opening => store[home].manifests = {}
                /\ child[t].pc \in Opened \cup Dying /\ child[t].enabled => Clean(child[t])
BY Sites DEF Inv, Tool, ToolOK, Typed, Origin

\* An exception unwinds.
LEMMA Throws ==
    ASSUME Inv, NEW t \in Tools, child[t].state = "running", Throw(t), Aside(t)
    PROVE  Inv'
<1> USE Now
<1>1. child' = [child EXCEPT ![t].state = "zombie", ![t].code = Threw] /\ Unlock(t)
    BY DEF Throw, Die, Typed
<1>2. UNCHANGED <<evidence, wait, phase, verdict, crashSite, resumed>>
    BY NothingNoted DEF Throw
<1>3. /\ DOMAIN store' = Dirs
      /\ \A d \in Dirs : /\ DOMAIN store'[d] = DOMAIN store[d]
                         /\ store'[d].manifests = store[d].manifests
                         /\ store'[d].results = store[d].results
    <2>1. \A d \in Dirs : DOMAIN store[d] = {"meta", "manifests", "results", "temps"}
        BY DEF Inv, Directory
    <2> QED BY <2>1 DEF Throw
<1>4. Threw # Injected
    BY DEF Threw, Injected
<1>5. wait[t] \notin {"exited", "failed"} /\ DOMAIN wait = Tools
    BY DEF Tool, ToolOK, Shape
<1> QED BY <1>1, <1>2, <1>3, <1>4, <1>5, Dies

\* A child makes its injector or opens the directory.
LEMMA Enters ==
    ASSUME Inv, NEW t \in Tools, NEW q,
           child[t].state = "running", child[t].pc \in {"construct", "open"},
           child' = [child EXCEPT ![t] = q],
           q.state = "running" /\ q.code = child[t].code /\ q.dir = child[t].dir,
           q.path = child[t].path /\ q.cfg.n = child[t].cfg.n,
           q.cfg.point = child[t].cfg.point,
           q.cfg.point = None /\ ~child[t].enabled => ~q.enabled,
           Typed(q),
           \/ lock' = lock /\ q.pc = "open"
           \/ /\ lock[Site(t)] = None /\ lock' = [lock EXCEPT ![Site(t)] = t]
              /\ q.pc \in {"meta", "scan"},
           UNCHANGED <<evidence, wait, phase, verdict, crashSite, resumed>>,
           DOMAIN store' = Dirs,
           \A d \in Dirs : /\ DOMAIN store'[d] = DOMAIN store[d]
                           /\ store'[d].manifests = store[d].manifests
                           /\ store'[d].results = store[d].results
    PROVE  Inv'
<1> USE Sites, Now
<1>1. Shape /\ Tool(t) /\ Owned /\ Origin
    BY DEF Inv
<1>2. child'[t] = q /\ DOMAIN child' = Tools /\ \A u \in Tools \ {t} : child'[u] = child[u]
    BY <1>1 DEF Shape
<1>3. Shape'
    BY <1>1, <1>2 DEF Shape
<1>4. lock[Site(t)] # t
    BY <1>1, NoneAssumption DEF Owned
<1>5. \A u \in Tools \ {t} : Tool(u)'
    <2> SUFFICES ASSUME NEW u \in Tools \ {t} PROVE Tool(u)'
        OBVIOUS
    <2>1. lock[Site(u)] = u => lock'[Site(u)] = u
        BY <1>1, NoneAssumption DEF Shape
    <2> QED BY <1>2, <2>1, Others
<1>6. Tool(t)'
    <2>1. Linked(q, evidence[Site(t)], crashSite[t])
        BY DEF Linked, Injected
    <2>2. Traced(q, store'[Site(t)].manifests, store'[Site(t)].results)
          /\ Started(q, store'[Site(t)].manifests)
        BY DEF Traced, Started, Opened, Dying, ManifestPcs
    <2>3. q.pc \notin {"construct", "open"} => lock'[Site(t)] = t
        BY <1>1 DEF Shape
    <2> QED BY <1>1, <1>2, <2>1, <2>2, <2>3 DEF Tool, ToolOK
<1>7. Owned'
    <2> SUFFICES ASSUME NEW d \in Dirs, lock'[d] # None
                 PROVE  \E v \in Tools : /\ lock'[d] = v /\ Site(v) = d
                                         /\ child'[v].state = "running"
                                         /\ child'[v].pc \notin {"construct", "open"}
        BY DEF Owned
    <2>1. CASE lock'[d] = lock[d]
        <3>1. PICK v \in Tools : /\ lock[d] = v /\ Site(v) = d
                                 /\ child[v].state = "running"
                                 /\ child[v].pc \notin {"construct", "open"}
            BY <1>1, <2>1 DEF Owned
        <3> QED BY <1>2, <2>1, <3>1
    <2>2. CASE lock'[d] # lock[d]
        BY <1>1, <1>2, <2>2 DEF Shape
    <2> QED BY <2>1, <2>2
<1>8. \A d \in Dirs : Directory(store'[d])
    BY DEF Inv, Directory
<1>9. Origin'
    <2>1. CASE t = origin
        <3>1. evidence[home] = NoEvidence
            BY <1>1, <2>1 DEF Origin
        <3>2. phase[origin] # "start"
            BY <1>1, <2>1 DEF Tool, ToolOK
        <3>3. q.pc \in Opening /\ q.pc \notin Opened \cup Dying /\ child[t].pc \in Opening
            BY DEF Opening, Opened, Dying, ManifestPcs
        <3> QED BY <1>1, <1>2, <2>1, <3>1, <3>2, <3>3 DEF Origin
    <2>2. CASE t # origin
        <3>1. store'[home].manifests = store[home].manifests /\ child'[origin] = child[origin]
            BY <1>2, <2>2
        <3> QED BY <1>1, <3>1 DEF Origin
    <2> QED BY <2>1, <2>2
<1>10. Reported'
    <2>1. t \in Replays => verdict[t] # "reproduced"
        BY Unreported
    <2> QED BY <1>2, <2>1, StillReported
<1> QED BY <1>3, <1>5, <1>6, <1>7, <1>8, <1>9, <1>10 DEF Inv

LEMMA ConstructStep ==
    ASSUME Inv, NEW t \in Tools, Construct(t), Aside(t)
    PROVE  Inv'
<1>0. child[t].state = "running" /\ child[t].pc = "construct"
    BY DEF Construct, At
<1> USE <1>0, Now
<1> DEFINE r == child[t]
           q == Constructed(r)
<1>1. CASE r.cfg.point = None \/ InjectorAccepts(t)
    <2>1. child' = [child EXCEPT ![t] = q] /\ UNCHANGED <<store, lock, evidence>>
        BY <1>1 DEF Construct, Become
    <2>2. UNCHANGED <<wait, phase, verdict, crashSite, resumed>>
        BY <2>1, NothingNoted
    <2>3. DOMAIN r = Fields
        BY DEF Typed
    <2>4. /\ DOMAIN q = Fields /\ q.pc = "open" /\ q.trace = <<>>
          /\ q.enabled = (r.cfg.point # None)
          /\ q.cfg = [r.cfg EXCEPT !.interval = Cadence(r.cfg)]
          /\ \A f \in Fields \ {"pc", "enabled", "cfg", "hits", "trace"} : q[f] = r[f]
        BY <2>3 DEF Constructed, Fields
    <2> HIDE DEF q
    <2>5. /\ q.state = r.state /\ q.code = r.code /\ q.dir = r.dir /\ q.path = r.path
          /\ q.job = r.job /\ q.stage = r.stage /\ q.seq = r.seq /\ q.inc = r.inc
          /\ q.block = r.block
        BY <2>4 DEF Fields
    <2>6. q.cfg.n = r.cfg.n /\ q.cfg.point = r.cfg.point
        BY <2>4
    <2>7. Typed(q)
        BY <2>4, <2>5 DEF Typed, Opening, Dying
    <2>8. q.cfg.point = None => ~q.enabled
        BY <2>4, <2>6
    <2> QED BY <2>1, <2>2, <2>4, <2>5, <2>6, <2>7, <2>8, Enters DEF Shape
<1>2. CASE ~(r.cfg.point = None \/ InjectorAccepts(t))
    BY <1>2, Throws DEF Construct
<1> QED BY <1>1, <1>2

LEMMA OpenStep ==
    ASSUME Inv, NEW t \in Tools, Open(t), Aside(t)
    PROVE  Inv'
<1>0. child[t].state = "running" /\ child[t].pc = "open"
    BY DEF Open, At
<1> USE <1>0, Now
<1> DEFINE r == child[t]
           q == [r EXCEPT !.stage = "begin",
                          !.pc = IF store[r.dir].meta THEN "scan" ELSE "meta"]
<1>1. CASE lock[r.dir] = None
    <2>1. /\ child' = [child EXCEPT ![t] = q] /\ UNCHANGED evidence
          /\ lock' = [lock EXCEPT ![Site(t)] = t]
          /\ store' = [store EXCEPT ![Site(t)].temps = {}]
        BY <1>1 DEF Open, Become
    <2>2. UNCHANGED <<wait, phase, verdict, crashSite, resumed>>
        BY <2>1, NothingNoted
    <2>3. DOMAIN r = Fields
        BY DEF Typed
    <2>4. /\ DOMAIN q = Fields /\ q.pc \in {"scan", "meta"} /\ q.stage = "begin"
          /\ \A f \in Fields \ {"pc", "stage"} : q[f] = r[f]
        BY <2>3 DEF Fields
    <2> HIDE DEF q
    <2>5. /\ q.state = r.state /\ q.code = r.code /\ q.dir = r.dir /\ q.path = r.path
          /\ q.job = r.job /\ q.seq = r.seq /\ q.inc = r.inc /\ q.block = r.block
          /\ q.cfg = r.cfg /\ q.trace = r.trace /\ q.enabled = r.enabled
        BY <2>4 DEF Fields
    <2>6. Typed(q)
        BY <2>4, <2>5 DEF Typed, Opening, Dying, Before
    <2>8. /\ DOMAIN store' = Dirs
          /\ \A d \in Dirs : /\ DOMAIN store'[d] = DOMAIN store[d]
                             /\ store'[d].manifests = store[d].manifests
                             /\ store'[d].results = store[d].results
        <3>1. \A d \in Dirs : DOMAIN store[d] = {"meta", "manifests", "results", "temps"}
            BY DEF Inv, Directory
        <3> QED BY <2>1, <3>1 DEF Shape
    <2> QED BY <1>1, <2>1, <2>2, <2>4, <2>5, <2>6, <2>8, Enters
<1>2. CASE lock[r.dir] # None
    BY <1>2, Throws DEF Open
<1> QED BY <1>1, <1>2

\* The names and the kinds of program points.
LEMMA Kinds ==
    /\ Opened = {"initial", "recovery", "checkpoint", "finish", "cleanup", "running",
                 "record", "return"}
    /\ ManifestPcs = {"initial", "recovery", "checkpoint", "finish"}
    /\ InstallPcs = {"initial", "recovery", "checkpoint", "finish", "meta", "record"}
    /\ Opening = {"construct", "open", "meta", "scan"}
    /\ Dying = {"evidence", "link", "sync"}
    /\ Before = {"begin", "written", "fsynced", "closed"} /\ After = {"renamed", "installed"}
BY DEF Opened, ManifestPcs, InstallPcs, Opening, Dying, Before, After

\* The manifests decide how the run goes on.
LEMMA ScanStep ==
    ASSUME Inv, NEW t \in Tools, Scan(t), Aside(t)
    PROVE  Inv'
<1>0. child[t].state = "running" /\ child[t].pc = "scan"
    BY DEF Scan, At
<1> USE <1>0, Now
<1> DEFINE r == child[t]
           ms == store[Site(t)].manifests
           m == LatestManifest(ms)
           q == [Scanned(r, ms) EXCEPT !.stage = "begin"]
<1>1. child' = [child EXCEPT ![t] = q] /\ UNCHANGED <<store, lock, evidence>>
    BY DEF Scan, Become, Quiet
<1>2. UNCHANGED <<wait, phase, verdict, crashSite, resumed>>
    BY <1>1, NothingNoted
<1>3. DOMAIN r = Fields
    BY DEF Typed
<1>4. ms # {} => m \in ms /\ m.seq \in Nat /\ m.inc \in Nat
    <2> SUFFICES ASSUME ms # {} PROVE m \in ms /\ m.seq \in Nat /\ m.inc \in Nat
        OBVIOUS
    <2>1. \E x \in ms : \A o \in ms : o.seq <= x.seq
        BY DEF Directory, Latest
    <2>2. m \in ms
        BY <2>1 DEF LatestManifest
    <2> QED BY <2>2 DEF Directory
<1>5. (CHOOSE h \in ms : \A o \in ms : o.seq <= h.seq) = m
    BY DEF LatestManifest
<1> HIDE DEF m, ms
<1>6. /\ DOMAIN q = Fields /\ q.stage = "begin"
      /\ \A f \in Fields \ {"stage", "pc", "seq", "inc", "status", "done"} : q[f] = r[f]
      /\ \/ /\ ms = {} /\ q.pc = "initial" /\ q.seq = 0 /\ q.inc = 1 /\ q.done = {}
         \/ /\ ms # {} /\ q.pc = "cleanup" /\ q.seq = m.seq /\ q.inc = m.inc
            /\ q.status = "complete"
         \/ /\ ms # {} /\ q.pc = "recovery" /\ q.seq = m.seq + 1
            /\ q.inc = Larger(m.inc, m.seq) + 1
    <2>1. CASE ms = {}
        BY <1>3, <2>1 DEF Scanned, Fields
    <2>2. CASE ms # {} /\ m.status = "complete"
        BY <1>3, <2>2 DEF Scanned, Fields, m
    <2>3. CASE ms # {} /\ m.status # "complete"
        BY <1>3, <1>5, <2>3 DEF Scanned, Fields, m
    <2> QED BY <2>1, <2>2, <2>3
<1> HIDE DEF q
<1>7. /\ q.state = r.state /\ q.code = r.code /\ q.dir = r.dir /\ q.path = r.path
      /\ q.job = r.job /\ q.block = r.block /\ q.cfg = r.cfg /\ q.trace = r.trace
      /\ q.enabled = r.enabled
    BY <1>6 DEF Fields
<1>8. q.seq \in Nat /\ q.inc \in Nat
    BY <1>4, <1>6 DEF Larger
<1>9. /\ q.pc \in {"initial", "cleanup", "recovery"} /\ q.trace = <<>>
      /\ r.pc = "scan" /\ r.trace = <<>>
    BY <1>6, <1>7 DEF Typed, Opening
<1>10. Typed(q)
    BY <1>6, <1>7, <1>8, <1>9, Kinds DEF Typed
<1>11. Traced(q, ms, store[Site(t)].results)
    <2>1. CASE ms = {}
        <3>1. store[Site(t)].results = {}
            BY <2>1 DEF Directory, ms
        <3>2. /\ q.pc = "initial" /\ q.done = {} /\ q.seq = 0 /\ q.stage = "begin"
            BY <1>6, <2>1
        <3>3. ResultsOf(q.trace, Len(q.trace)) = {} /\ ManifestsOf(q.trace, q.cfg.n) = {}
            BY <1>9, NoEvents
        <3>4. IsFiniteSet({}) /\ Cardinality({}) = 0
            BY FS_EmptySet
        <3>5. Cardinality(q.done) < q.cfg.n
            BY <1>7, <3>2, <3>4
        <3>6. Fresh(q, ms, store[Site(t)].results)
            BY <2>1, <3>1, <3>2, <3>3, <3>4, <3>5 DEF Fresh
        <3> QED BY <3>2, <3>6 DEF Traced
    <2>2. CASE ms # {}
        <3>1. ~Clean(q)
            BY <1>6, <1>9, <2>2 DEF Clean
        <3>2. q.pc = "recovery" => q.seq > 0
            BY <1>4, <1>6
        <3> QED BY <1>6, <2>2, <3>1, <3>2 DEF Traced
    <2> QED BY <2>1, <2>2
<1>12. Started(q, ms)
    BY <1>6, Kinds DEF Started
<1>13. t = origin /\ ~resumed => Clean(q)
    BY <1>6, <1>9, Sites, Kinds DEF Clean, ms
<1> QED BY <1>1, <1>2, <1>6, <1>7, <1>9, <1>10, <1>11, <1>12, <1>13, Works, Kinds DEF Shape, ms

\* Orphans are removed.
LEMMA CleanupStep ==
    ASSUME Inv, NEW t \in Tools, Cleanup(t), Aside(t)
    PROVE  Inv'
<1>0. child[t].state = "running" /\ child[t].pc = "cleanup"
    BY DEF Cleanup, At
<1> USE <1>0, Now
<1> DEFINE r == child[t]
           q == [r EXCEPT !.recovered = Cardinality(r.done), !.pending = 0,
                          !.pc = IF r.status = "complete" THEN "return" ELSE "running"]
<1>1. /\ child' = [child EXCEPT ![t] = q] /\ UNCHANGED <<lock, evidence>>
      /\ store' = [store EXCEPT ![Site(t)].results = r.done]
    BY DEF Cleanup, Become, Quiet
<1>2. UNCHANGED <<wait, phase, verdict, crashSite, resumed>>
    BY <1>1, NothingNoted
<1>3. DOMAIN r = Fields /\ DOMAIN store[Site(t)] = {"meta", "manifests", "results", "temps"}
    BY DEF Typed, Directory
<1>4. /\ DOMAIN q = Fields
      /\ q.pc = IF r.status = "complete" THEN "return" ELSE "running"
      /\ \A f \in Fields \ {"recovered", "pending", "pc"} : q[f] = r[f]
    BY <1>3 DEF Fields
<1> HIDE DEF q
<1>5. /\ q.state = r.state /\ q.code = r.code /\ q.dir = r.dir /\ q.path = r.path
      /\ q.job = r.job /\ q.block = r.block /\ q.cfg = r.cfg /\ q.trace = r.trace
      /\ q.enabled = r.enabled /\ q.seq = r.seq /\ q.inc = r.inc /\ q.stage = r.stage
      /\ q.done = r.done /\ q.status = r.status
    BY <1>4 DEF Fields
<1>6. Typed(q)
    BY <1>4, <1>5, Kinds DEF Typed
<1>7. /\ DOMAIN store' = Dirs /\ \A d \in Dirs \ {Site(t)} : store'[d] = store[d]
      /\ DOMAIN store'[Site(t)] = {"meta", "manifests", "results", "temps"}
      /\ store'[Site(t)].manifests = store[Site(t)].manifests
      /\ store'[Site(t)].results = r.done
    BY <1>1, <1>3 DEF Shape
<1>8. store[Site(t)].manifests # {}
    BY Kinds DEF Started
<1>9. Directory(store'[Site(t)])
    BY <1>7, <1>8 DEF Directory
<1>10. Clean(r) <=> Clean(q)
    BY <1>4, <1>5 DEF Clean
<1>11. Traced(q, store'[Site(t)].manifests, store'[Site(t)].results)
    <2> SUFFICES ASSUME q.enabled
                 PROVE  /\ q.trace = <<>> => q.pc = "return" /\ q.status = "complete"
                        /\ Clean(q) => Fresh(q, store'[Site(t)].manifests, r.done)
        BY <1>7 DEF Traced
    <2>1. /\ r.trace = <<>> => r.status = "complete"
          /\ Clean(r) => Fresh(r, store[Site(t)].manifests, store[Site(t)].results)
        BY <1>5, Kinds DEF Traced
    <2>2. ASSUME Clean(q) PROVE Fresh(q, store'[Site(t)].manifests, r.done)
        <3>1. Fresh(r, store[Site(t)].manifests, store[Site(t)].results)
            BY <1>10, <2>1, <2>2
        <3>2. store[Site(t)].results = r.done /\ IsFiniteSet(r.done)
            BY <3>1, Kinds DEF Fresh
        <3> QED BY <1>4, <1>5, <1>7, <3>1, <3>2 DEF Fresh
    <2> QED BY <1>4, <1>5, <2>1, <2>2
<1>12. Started(q, store'[Site(t)].manifests)
    BY <1>7, <1>8 DEF Started
<1>13. t = origin /\ ~resumed /\ q.enabled => Clean(q)
    BY <1>5, <1>10, Kinds
<1> QED BY <1>1, <1>2, <1>4, <1>5, <1>6, <1>7, <1>9, <1>11, <1>12, <1>13, Works, Kinds

\* A child goes on from one event to the next, and leaves the directory alone.
LEMMA MovesOn ==
    ASSUME Inv, NEW t \in Tools, NEW q, Aside(t),
           child[t].state = "running", child[t].pc \in Opened \cup {"evidence"},
           child[t].pc \in {"initial", "recovery"} => child[t].stage = "installed",
           child[t].pc # "cleanup",
           child' = [child EXCEPT ![t] = q], UNCHANGED <<store, lock, evidence>>,
           DOMAIN q = Fields,
           q.state = child[t].state /\ q.code = child[t].code /\ q.dir = child[t].dir,
           q.path = child[t].path /\ q.job = child[t].job /\ q.cfg = child[t].cfg,
           q.enabled = child[t].enabled /\ q.trace = child[t].trace,
           child[t].pc = "return" => child[t].trace # <<>>,
           q.seq \in Nat /\ q.inc \in Nat /\ q.block \in Nat /\ q.stage \in Before \cup After,
           q.pc \in Opened \cup {"link"}, q.pc = "link" <=> child[t].pc = "evidence",
           q.pc # "initial",
           Fresh(child[t], store[Site(t)].manifests, store[Site(t)].results)
                => Fresh(q, store[Site(t)].manifests, store[Site(t)].results)
    PROVE  Inv'
<1> USE Now
<1> DEFINE r == child[t]
           ms == store[Site(t)].manifests
           rs == store[Site(t)].results
<1>1. UNCHANGED <<wait, phase, verdict, crashSite, resumed>>
    BY NothingNoted
<1>2. Typed(q)
    BY Kinds DEF Typed
<1>3. r.enabled => r.trace # <<>>
    BY Kinds DEF Traced
<1>4. r.enabled => (Clean(q) <=> Clean(r))
    BY <1>3 DEF Clean
<1>5. Traced(q, ms, rs)
    BY <1>3, <1>4, Kinds DEF Traced
<1>6. ms # {} \/ q.pc = "link"
    BY Kinds DEF Started
<1>7. Started(q, ms)
    BY <1>6, Kinds DEF Started
<1>8. t = origin /\ ~resumed /\ q.enabled => Clean(q)
    BY <1>4, Kinds
<1>9. /\ q.pc \notin {"construct", "open", "sync"} \cup Opening
      /\ r.pc \notin {"construct", "open", "sync"} /\ q.state = "running"
    BY Kinds
<1>10. DOMAIN store' = Dirs /\ store' = store /\ Directory(store'[Site(t)])
    BY DEF Shape
<1> QED BY <1>1, <1>2, <1>5, <1>7, <1>8, <1>9, <1>10, Works

\* A completion is received.
LEMMA ReceiveStep ==
    ASSUME Inv, NEW t \in Tools, NEW b \in 0 .. MaxBlocks - 1, Receive(t, b), Aside(t)
    PROVE  Inv'
<1>0. child[t].state = "running" /\ child[t].pc = "running"
    BY DEF Receive, At
<1> USE <1>0, Now
<1> DEFINE r == child[t]
           q == [r EXCEPT !.pc = "record", !.block = b, !.stage = "begin"]
<1>1. child' = [child EXCEPT ![t] = q] /\ UNCHANGED <<store, lock, evidence>>
    BY DEF Receive, Become, Quiet
<1>2. DOMAIN r = Fields
    BY DEF Typed
<1>3. /\ DOMAIN q = Fields /\ q.pc = "record" /\ q.block = b /\ q.stage = "begin"
      /\ \A f \in Fields \ {"pc", "block", "stage"} : q[f] = r[f]
    BY <1>2 DEF Fields
<1> HIDE DEF q
<1>4. /\ q.state = r.state /\ q.code = r.code /\ q.dir = r.dir /\ q.path = r.path
      /\ q.job = r.job /\ q.cfg = r.cfg /\ q.trace = r.trace /\ q.done = r.done
      /\ q.enabled = r.enabled /\ q.seq = r.seq /\ q.inc = r.inc
    BY <1>3 DEF Fields
<1>5. b \in Nat
    BY RunAssumption
<1>6. Fresh(r, store[Site(t)].manifests, store[Site(t)].results)
        => Fresh(q, store[Site(t)].manifests, store[Site(t)].results)
    BY <1>3, <1>4, Kinds DEF Fresh
<1>7. r.seq \in Nat /\ r.inc \in Nat
    BY DEF Typed
<1> QED BY <1>1, <1>3, <1>4, <1>5, <1>6, <1>7, MovesOn, Kinds

\* Entries for all blocks are at least as many as the blocks.
LEMMA Covers ==
    ASSUME NEW n \in Nat, NEW es, IsFiniteSet(es), 0 .. n - 1 \subseteq {e[1] : e \in es}
    PROVE  ~(Cardinality(es) < n)
<1> DEFINE f == [e \in es |-> e[1]]
           bs == {e[1] : e \in es}
<1>1. f \in Surjection(es, bs)
    BY DEF Surjection
<1>2. IsFiniteSet(bs) /\ Cardinality(bs) <= Cardinality(es)
    BY <1>1, FS_Surjection
<1>3. Cardinality(0 .. n - 1) <= Cardinality(bs)
    BY <1>2, FS_Subset
<1>4. Cardinality(0 .. n - 1) = n
    <2>1. n \in Nat
        OBVIOUS
    <2> QED BY ONLY <2>1, FS_Interval
<1>5. Cardinality(es) \in Nat /\ Cardinality(bs) \in Nat
    BY <1>2, FS_CardinalityType
<1> QED BY <1>2, <1>3, <1>4, <1>5

LEMMA AllReceivedStep ==
    ASSUME Inv, NEW t \in Tools, AllReceived(t), Aside(t)
    PROVE  Inv'
<1>0. child[t].state = "running" /\ child[t].pc = "running"
    BY DEF AllReceived, At
<1> USE <1>0, Now
<1> DEFINE r == child[t]
           q == [r EXCEPT !.pc = "finish", !.stage = "begin"]
<1>1. /\ child' = [child EXCEPT ![t] = q] /\ UNCHANGED <<store, lock, evidence>>
      /\ Missing(r) = {}
    BY DEF AllReceived, Become, Quiet
<1>2. DOMAIN r = Fields
    BY DEF Typed
<1>3. /\ DOMAIN q = Fields /\ q.pc = "finish" /\ q.stage = "begin"
      /\ \A f \in Fields \ {"pc", "stage"} : q[f] = r[f]
    BY <1>2 DEF Fields
<1> HIDE DEF q
<1>4. /\ q.state = r.state /\ q.code = r.code /\ q.dir = r.dir /\ q.path = r.path
      /\ q.job = r.job /\ q.cfg = r.cfg /\ q.trace = r.trace /\ q.done = r.done
      /\ q.enabled = r.enabled /\ q.seq = r.seq /\ q.inc = r.inc /\ q.block = r.block
    BY <1>3 DEF Fields
<1>5. 0 .. r.cfg.n - 1 \subseteq {e[1] : e \in r.done}
    BY <1>1 DEF Missing, Blocks
<1>6. Fresh(r, store[Site(t)].manifests, store[Site(t)].results)
        => Fresh(q, store[Site(t)].manifests, store[Site(t)].results)
    <2> SUFFICES ASSUME Fresh(r, store[Site(t)].manifests, store[Site(t)].results)
                 PROVE  Fresh(q, store[Site(t)].manifests, store[Site(t)].results)
        OBVIOUS
    <2>1. IsFiniteSet(r.done) /\ store[Site(t)].results = r.done
        BY Kinds DEF Fresh
    <2>2. ~(Cardinality(r.done) < r.cfg.n)
        BY <1>5, <2>1, Covers
    <2> QED BY <1>3, <1>4, <2>1, <2>2, Kinds DEF Fresh
<1>7. r.seq \in Nat /\ r.inc \in Nat /\ r.block \in Nat
    BY DEF Typed
<1> QED BY <1>1, <1>3, <1>4, <1>6, <1>7, MovesOn, Kinds

\* The descriptor is written beside its name.
LEMMA WriteEvidenceStep ==
    ASSUME Inv, NEW t \in Tools, WriteEvidence(t), Aside(t)
    PROVE  Inv'
<1>0. child[t].state = "running" /\ child[t].pc = "evidence"
    BY DEF WriteEvidence, At
<1> USE <1>0, Now
<1> DEFINE r == child[t]
           q == [r EXCEPT !.pc = "link"]
<1>1. child' = [child EXCEPT ![t] = q] /\ UNCHANGED <<store, lock, evidence>>
    BY DEF WriteEvidence, Become
<1>2. DOMAIN r = Fields
    BY DEF Typed
<1>3. /\ DOMAIN q = Fields /\ q.pc = "link"
      /\ \A f \in Fields \ {"pc"} : q[f] = r[f]
    BY <1>2 DEF Fields
<1> HIDE DEF q
<1>4. /\ q.state = r.state /\ q.code = r.code /\ q.dir = r.dir /\ q.path = r.path
      /\ q.job = r.job /\ q.cfg = r.cfg /\ q.trace = r.trace /\ q.done = r.done
      /\ q.enabled = r.enabled /\ q.seq = r.seq /\ q.inc = r.inc /\ q.block = r.block
      /\ q.stage = r.stage
    BY <1>3 DEF Fields
<1>6. Fresh(r, store[Site(t)].manifests, store[Site(t)].results)
        => Fresh(q, store[Site(t)].manifests, store[Site(t)].results)
    BY <1>3, <1>4, Kinds DEF Fresh
<1>7. /\ r.seq \in Nat /\ r.inc \in Nat /\ r.block \in Nat /\ r.stage \in Before \cup After
      /\ r.enabled
    BY Kinds DEF Typed
<1> QED BY <1>1, <1>3, <1>4, <1>6, <1>7, MovesOn, Kinds

\* What follows an install.
LEMMA SettleStep ==
    ASSUME Inv, NEW t \in Tools, Settle(t), Aside(t)
    PROVE  Inv'
<1>0. child[t].state = "running" /\ child[t].pc \in InstallPcs /\ child[t].stage = "installed"
    BY DEF Settle
<1> USE <1>0, Now
<1> DEFINE r == child[t]
           q == [Settled(r) EXCEPT !.stage = "begin"]
           ms == store[Site(t)].manifests
           rs == store[Site(t)].results
<1>1. child' = [child EXCEPT ![t] = q] /\ UNCHANGED <<store, lock, evidence>>
    BY DEF Settle, Become, Quiet
<1>2. DOMAIN r = Fields /\ r.seq \in Nat /\ r.inc \in Nat /\ r.block \in Nat
    BY DEF Typed
<1>3. /\ DOMAIN q = Fields /\ q.stage = "begin"
      /\ \A f \in Fields \ {"pc", "stage", "done", "pending", "seq", "status"} : q[f] = r[f]
      /\ r.pc = "meta" => q.pc = "scan"
      /\ r.pc \in {"initial", "recovery"} => q.pc = "cleanup"
      /\ r.pc = "record" =>
           /\ q.done = r.done \cup {<<r.block, r.inc>>}
           /\ \/ q.pc = "running"
              \/ q.pc = "checkpoint" /\ Cardinality(q.done) < r.cfg.n
      /\ r.pc = "checkpoint" => q.pc = "running"
      /\ r.pc = "finish" => q.pc = "return"
      /\ r.pc # "record" => q.done = r.done
      /\ q.seq \in {r.seq, r.seq + 1}
    <2>1. CASE r.pc = "meta"
        <3>1. Settled(r) = [r EXCEPT !.pc = "scan"]
            BY <2>1 DEF Settled
        <3> QED BY <1>2, <2>1, <3>1 DEF Fields
    <2>2. CASE r.pc \in {"initial", "recovery"}
        <3>1. Settled(r) = [r EXCEPT !.pc = "cleanup"]
            BY <2>2 DEF Settled
        <3> QED BY <1>2, <2>2, <3>1 DEF Fields
    <2>3. CASE r.pc = "record"
        <3> DEFINE p == [r EXCEPT !.done = @ \cup {<<r.block, r.inc>>}, !.pending = @ + 1]
        <3>1. Settled(r) = [p EXCEPT !.pc = IF CheckpointDue(p) THEN "checkpoint"
                                            ELSE "running"]
            BY <2>3 DEF Settled
        <3>2. /\ DOMAIN p = Fields /\ p.done = r.done \cup {<<r.block, r.inc>>}
              /\ \A f \in Fields \ {"done", "pending"} : p[f] = r[f]
            BY <1>2 DEF Fields
        <3> HIDE DEF p
        <3>3. /\ DOMAIN q = Fields /\ q.stage = "begin"
              /\ q.pc = IF CheckpointDue(p) THEN "checkpoint" ELSE "running"
              /\ \A f \in Fields \ {"pc", "stage"} : q[f] = p[f]
            BY <3>1, <3>2 DEF Fields
        <3> HIDE DEF q
        <3>4. p.cfg = r.cfg /\ p.seq = r.seq /\ q.done = p.done /\ q.seq = p.seq
            BY <3>2, <3>3 DEF Fields
        <3> QED BY <2>3, <3>2, <3>3, <3>4 DEF CheckpointDue, Fields
    <2>4. CASE r.pc = "checkpoint"
        <3>1. Settled(r) = [r EXCEPT !.pc = "running", !.seq = @ + 1, !.pending = 0]
            BY <2>4 DEF Settled
        <3> QED BY <1>2, <2>4, <3>1 DEF Fields
    <2>5. CASE r.pc = "finish"
        <3>1. Settled(r) = [r EXCEPT !.pc = "return", !.seq = @ + 1, !.status = "complete"]
            BY <2>5 DEF Settled
        <3> QED BY <1>2, <2>5, <3>1 DEF Fields
    <2> QED BY <2>1, <2>2, <2>3, <2>4, <2>5, Kinds
<1> HIDE DEF q
<1>4. /\ q.state = r.state /\ q.code = r.code /\ q.dir = r.dir /\ q.path = r.path
      /\ q.job = r.job /\ q.cfg = r.cfg /\ q.trace = r.trace /\ q.inc = r.inc
      /\ q.enabled = r.enabled /\ q.block = r.block
    BY <1>3 DEF Fields
<1>5. q.seq \in Nat
    BY <1>2, <1>3
<1>6. CASE r.pc = "meta"
    <2>1. UNCHANGED <<wait, phase, verdict, crashSite, resumed>>
        BY <1>1, NothingNoted
    <2>2. r.trace = <<>>
        BY <1>6, Kinds DEF Typed
    <2>3. Typed(q)
        BY <1>2, <1>3, <1>4, <1>5, <1>6, <2>2, Kinds DEF Typed
    <2>4. Traced(q, ms, rs) /\ Started(q, ms)
        BY <1>3, <1>6, Kinds DEF Traced, Started
    <2>5. t = origin /\ ~resumed => ms = {}
        BY <1>6, Kinds, Sites
    <2> QED BY <1>1, <1>3, <1>4, <1>6, <2>1, <2>3, <2>4, <2>5, Works, Kinds, Sites DEF Shape
<1>7. CASE r.pc # "meta"
    <2>1. Fresh(r, ms, rs) => Fresh(q, ms, rs)
        <3> SUFFICES ASSUME Fresh(r, ms, rs) PROVE Fresh(q, ms, rs)
            OBVIOUS
        <3>1. /\ rs = ResultsOf(r.trace, Len(r.trace)) /\ ms = ManifestsOf(r.trace, r.cfg.n)
              /\ r.pc # "recovery" /\ IsFiniteSet(r.done)
              /\ rs = IF r.pc = "record" THEN r.done \cup {<<r.block, r.inc>>} ELSE r.done
            BY <1>7, Kinds DEF Fresh
        <3> HIDE DEF ms, rs
        <3>2. rs = q.done
            BY <1>3, <3>1
        <3>3. IsFiniteSet(q.done)
            BY <3>1, <1>3, FS_AddElement
        <3>4. q.pc \in {"cleanup", "checkpoint", "running", "return"}
            BY <1>3, <1>7, Kinds
        <3>5. q.pc = "checkpoint" => Cardinality(q.done) < q.cfg.n
            BY <1>3, <1>4, <1>7, Kinds
        <3> QED BY <1>4, <3>1, <3>2, <3>3, <3>4, <3>5 DEF Fresh
    <2>2. q.pc \in {"cleanup", "checkpoint", "running", "return"}
        BY <1>3, <1>7, Kinds
    <2> QED BY <1>1, <1>2, <1>3, <1>4, <1>5, <1>7, <2>1, <2>2, MovesOn, Kinds
<1> QED BY <1>6, <1>7

\* The stages of an install, in order.
LEMMA Stages ==
    ASSUME NEW s \in (Before \cup After) \ {"installed"}
    PROVE  /\ NextStage[s] \in (Before \cup After) \ {"begin"}
           /\ s # "closed" => NextStage[s] # "renamed" /\ (s \in After <=> NextStage[s] \in After)
           /\ s = "closed" => NextStage[s] = "renamed"
           /\ NextStage[s] = "installed" <=> s = "renamed"
<1>1. CASE s = "begin"
    BY <1>1 DEF NextStage, Before, After
<1>2. CASE s = "written"
    BY <1>2 DEF NextStage, Before, After
<1>3. CASE s = "fsynced"
    BY <1>3 DEF NextStage, Before, After
<1>4. CASE s = "closed"
    BY <1>4 DEF NextStage, Before, After
<1>5. CASE s = "renamed"
    BY <1>5 DEF NextStage, Before, After
<1> QED BY <1>1, <1>2, <1>3, <1>4, <1>5 DEF Before, After

\* The stages with hooks: all but the last, and the last of a checkpoint.
LEMMA Hooks ==
    ASSUME NEW pc \in InstallPcs, NEW s \in (Before \cup After) \ {"begin"}
    PROVE  /\ Hooked(pc, s) => pc # "meta"
           /\ ~Hooked(pc, s) /\ pc # "meta" => s = "installed" /\ pc # "checkpoint" /\ pc # "finish"
           /\ Artifact(pc) \in {"metadata", "result", "manifest"}
           /\ Artifact(pc) = "result" <=> pc = "record"
           /\ Artifact(pc) = "manifest" <=> pc \in ManifestPcs
<1>1. /\ Artifact(pc) \in {"metadata", "result", "manifest"}
      /\ Artifact(pc) = "result" <=> pc = "record"
      /\ Artifact(pc) = "manifest" <=> pc \in ManifestPcs
    BY Kinds DEF Artifact
<1>2. Hooked(pc, s) => pc # "meta"
    BY <1>1, Kinds DEF Hooked, kFailurePoints
<1>3. ASSUME ~Hooked(pc, s), pc # "meta"
      PROVE  s = "installed" /\ pc # "checkpoint" /\ pc # "finish"
    <2>1. Artifact(pc) \in {"result", "manifest"}
        BY <1>1, <1>3, Kinds
    <2>2. s \in HookStages \cup {"installed"}
        BY Kinds DEF HookStages
    <2>3. s \in HookStages => <<Artifact(pc), s>> \in kFailurePoints
        BY <2>1 DEF kFailurePoints
    <2>4. s \in HookStages => s # "installed"
        BY DEF HookStages
    <2>5. s = "installed"
        BY <1>3, <2>2, <2>3, <2>4 DEF Hooked
    <2>6. pc \in {"checkpoint", "finish"} => <<Artifact(pc), "installed">> \in kFailurePoints
        BY <1>1, Kinds DEF kFailurePoints
    <2> QED BY <1>3, <2>5, <2>6 DEF Hooked
<1> QED BY <1>1, <1>2, <1>3

\* The context of an install is that of an event.
LEMMA Contexts ==
    ASSUME NEW r, Typed(r), r.pc \in InstallPcs
    PROVE  /\ Context(r) \in [inc : Nat, block : Nat \cup {None}, seq : Nat \cup {None}]
           /\ Context(r).inc = r.inc
           /\ r.pc = "record" => Context(r).block = r.block
           /\ r.pc \in {"initial", "recovery"} => Context(r).seq = r.seq
           /\ r.pc \in ManifestPcs => Context(r).seq \in Nat
<1>1. r.inc \in Nat /\ r.block \in Nat /\ r.seq \in Nat /\ r.seq + 1 \in Nat
    BY DEF Typed
<1>2. CASE r.pc = "record"
    <2>1. Context(r) = [inc |-> r.inc, block |-> r.block, seq |-> None]
        BY <1>2 DEF Context, Artifact
    <2> QED BY <1>1, <1>2, <2>1, Kinds
<1>3. CASE r.pc # "record"
    <2>1. Context(r) = [inc |-> r.inc, block |-> None,
                seq |-> IF r.pc \in {"checkpoint", "finish"} THEN r.seq + 1 ELSE r.seq]
        BY <1>3, Kinds DEF Context, Artifact
    <2> QED BY <1>1, <1>3, <2>1, Kinds
<1> QED BY <1>2, <1>3

\* An install from one hook to the next: what the child remembers ...
LEMMA AdvanceChild ==
    ASSUME Inv, NEW t \in Tools, Advance(t)
    PROVE  LET r == child[t]
               s == NextStage[r.stage]
               hooked == r.enabled /\ Hooked(r.pc, s)
               q == child'[t]
           IN /\ child' = [child EXCEPT ![t] = q]
              /\ DOMAIN q = Fields /\ q.stage = s
              /\ q.trace = IF hooked
                             THEN Append(r.trace, <<Artifact(r.pc), s, Context(r)>>)
                             ELSE r.trace
              /\ q.pc \in {r.pc, "evidence"} /\ (q.pc # r.pc => hooked)
              /\ \A f \in Fields \ {"stage", "hits", "pc", "trace"} : q[f] = r[f]
<1>0. child[t].state = "running"
    BY DEF Advance
<1> USE <1>0, Now
<1> DEFINE r == child[t]
           s == NextStage[r.stage]
           p == [r EXCEPT !.stage = s]
           q == Hit(p)
<1>1. child' = [child EXCEPT ![t] = q]
    BY DEF Advance, Become
<1>8. child'[t] = q
    BY <1>1 DEF Shape
<1>2. DOMAIN r = Fields
    BY DEF Typed
<1>3. /\ DOMAIN p = Fields /\ p.stage = s /\ \A f \in Fields \ {"stage"} : p[f] = r[f]
    BY <1>2 DEF Fields
<1> HIDE DEF p, s
<1>4. /\ p.enabled = r.enabled /\ p.pc = r.pc /\ p.trace = r.trace /\ p.inc = r.inc
      /\ p.block = r.block /\ p.seq = r.seq
    BY <1>3 DEF Fields
<1>5. Context(p) = Context(r)
    BY <1>4 DEF Context
<1>6. CASE ~(r.enabled /\ Hooked(r.pc, s))
    <2>1. q = p
        BY <1>3, <1>4, <1>6 DEF Hit
    <2> HIDE DEF q
    <2>2. \A f \in Fields \ {"stage", "hits", "pc", "trace"} : q[f] = r[f]
        BY <1>3, <2>1
    <2> QED BY <1>1, <1>3, <1>4, <1>6, <1>8, <2>1, <2>2 DEF s
<1>7. CASE r.enabled /\ Hooked(r.pc, s)
    <2> DEFINE sel == <<Artifact(p.pc), p.stage>> = p.cfg.point
               hits == IF sel THEN p.hits + 1 ELSE p.hits
               tr == Append(p.trace, <<Artifact(p.pc), p.stage, Context(p)>>)
               pc == IF sel /\ hits = p.cfg.occurrence THEN "evidence" ELSE p.pc
    <2>1. q = [p EXCEPT !.trace = tr, !.hits = hits, !.pc = pc]
        BY <1>3, <1>4, <1>7 DEF Hit
    <2>2. pc \in {r.pc, "evidence"} /\ tr = Append(r.trace, <<Artifact(r.pc), s, Context(r)>>)
        BY <1>3, <1>4, <1>5
    <2> HIDE DEF tr, hits, sel, pc
    <2>3. /\ DOMAIN q = Fields /\ q.trace = tr /\ q.pc = pc
          /\ \A f \in Fields \ {"trace", "hits", "pc"} : q[f] = p[f]
        BY <1>3, <2>1 DEF Fields
    <2> HIDE DEF q
    <2>4. q.stage = s
        BY <1>3, <2>3 DEF Fields
    <2>5. \A f \in Fields \ {"stage", "hits", "pc", "trace"} : q[f] = r[f]
        BY <1>3, <2>3
    <2> QED BY <1>1, <1>7, <1>8, <2>2, <2>3, <2>4, <2>5 DEF s
<1> QED BY <1>6, <1>7

\* ... and what becomes visible in its directory.
LEMMA AdvanceStore ==
    ASSUME Inv, NEW t \in Tools, Advance(t)
    PROVE  /\ UNCHANGED <<lock, evidence>> /\ DOMAIN store' = Dirs
           /\ \A d \in Dirs \ {Site(t)} : store'[d] = store[d]
           /\ DOMAIN store'[Site(t)] = {"meta", "manifests", "results", "temps"}
           /\ store'[Site(t)].manifests = store[Site(t)].manifests \cup
                (IF child[t].stage = "closed" /\ child[t].pc \in ManifestPcs
                   THEN {Manifest(child[t])} ELSE {})
           /\ store'[Site(t)].results = store[Site(t)].results \cup
                (IF child[t].stage = "closed" /\ child[t].pc = "record"
                   THEN {<<child[t].block, child[t].inc>>} ELSE {})
<1>0. child[t].state = "running" /\ child[t].pc \in InstallPcs /\ child[t].stage # "installed"
    BY DEF Advance
<1> USE <1>0, Now
<1> DEFINE r == child[t]
           stage == NextStage[r.stage]
           s == store[Site(t)]
           new == CASE stage = "written" -> [s EXCEPT !.temps = @ \cup {t}]
                    [] stage = "renamed" -> [Renamed(r, s) EXCEPT !.temps = @ \ {t}]
                    [] OTHER -> s
<1>1. store' = [store EXCEPT ![Site(t)] = new] /\ UNCHANGED <<lock, evidence>>
    BY DEF Advance, Quiet
<1>2. DOMAIN s = {"meta", "manifests", "results", "temps"}
    BY DEF Directory
<1>3. stage = "renamed" <=> r.stage = "closed"
    BY Stages DEF Typed
<1>4. /\ DOMAIN new = {"meta", "manifests", "results", "temps"}
      /\ new.manifests = s.manifests \cup
            (IF r.stage = "closed" /\ r.pc \in ManifestPcs THEN {Manifest(r)} ELSE {})
      /\ new.results = s.results \cup
            (IF r.stage = "closed" /\ r.pc = "record" THEN {<<r.block, r.inc>>} ELSE {})
    <2> HIDE DEF s, stage
    <2>1. CASE stage = "written"
        <3>1. new = [s EXCEPT !.temps = @ \cup {t}]
            BY <2>1
        <3> QED BY <1>2, <1>3, <2>1, <3>1
    <2>2. CASE stage = "renamed"
        <3>0. new = [Renamed(r, s) EXCEPT !.temps = @ \ {t}]
            BY <2>2
        <3>1. CASE r.pc = "meta"
            <4>1. Renamed(r, s) = [s EXCEPT !.meta = TRUE]
                BY <3>1 DEF Renamed, Artifact
            <4> QED BY <1>2, <3>0, <3>1, <4>1 DEF ManifestPcs
        <3>2. CASE r.pc = "record"
            <4>1. Renamed(r, s) = [s EXCEPT !.results = @ \cup {<<r.block, r.inc>>}]
                BY <3>2 DEF Renamed, Artifact
            <4> QED BY <1>2, <1>3, <2>2, <3>0, <3>2, <4>1 DEF ManifestPcs
        <3>3. CASE r.pc \in ManifestPcs
            <4>1. Renamed(r, s) = [s EXCEPT !.manifests = @ \cup {Manifest(r)}]
                BY <3>3 DEF Renamed, Artifact, ManifestPcs
            <4>2. r.pc # "record"
                BY <3>3 DEF ManifestPcs
            <4> QED BY <1>2, <1>3, <2>2, <3>0, <3>3, <4>1, <4>2
        <3> QED BY <3>1, <3>2, <3>3 DEF InstallPcs
    <2>3. CASE stage \notin {"written", "renamed"}
        <3>1. new = s
            BY <2>3
        <3> QED BY <1>2, <1>3, <2>3, <3>1
    <2> QED BY <2>1, <2>2, <2>3
<1> HIDE DEF new
<1>5. /\ DOMAIN store' = Dirs /\ store'[Site(t)] = new
      /\ \A d \in Dirs \ {Site(t)} : store'[d] = store[d]
    BY <1>1 DEF Shape
<1> QED BY <1>1, <1>4, <1>5

\* The directory has a latest manifest again.
LEMMA AdvanceDirectory ==
    ASSUME Inv, NEW t \in Tools, Advance(t)
    PROVE  Directory(store'[Site(t)])
<1>0. child[t].state = "running" /\ child[t].pc \in InstallPcs
    BY DEF Advance
<1> USE <1>0, Now
<1> DEFINE r == child[t]
           m == Manifest(r)
           ms == store[Site(t)].manifests
           rs == store[Site(t)].results
           ns == store'[Site(t)].manifests
<1>1. /\ \A o \in ms : o.seq \in Nat /\ o.inc \in Nat
      /\ ms # {} => \E o \in ms : Latest(o, ms)
      /\ ms = {} => rs = {}
    BY DEF Directory
<1>2. DOMAIN store'[Site(t)] = {"meta", "manifests", "results", "temps"}
    BY AdvanceStore
<1>3. CASE r.stage = "closed" /\ r.pc \in ManifestPcs
    <2>1. ns = ms \cup {m}
        BY <1>3, AdvanceStore
    <2>2. m.seq \in Nat /\ m.inc \in Nat
        BY <1>3, Contexts DEF Manifest, Typed
    <2> HIDE DEF m, ms, ns
    <2>3. \A o \in ns : o.seq \in Nat /\ o.inc \in Nat
        BY <1>1, <2>1, <2>2
    <2>4. \E o \in ns : Latest(o, ns)
        <3>1. CASE \A o \in ms : o.seq <= m.seq
            BY <2>1, <2>2, <3>1 DEF Latest
        <3>2. CASE \E o \in ms : ~(o.seq <= m.seq)
            <4>1. PICK l \in ms : Latest(l, ms)
                BY <1>1, <3>2
            <4>2. PICK o \in ms : ~(o.seq <= m.seq)
                BY <3>2
            <4>3. o.seq <= l.seq /\ o.seq \in Nat /\ l.seq \in Nat
                BY <1>1, <4>1, <4>2 DEF Latest
            <4>4. m.seq <= l.seq
                BY <2>2, <4>2, <4>3
            <4> QED BY <2>1, <4>1, <4>4 DEF Latest
        <3> QED BY <3>1, <3>2
    <2> QED BY <1>2, <2>1, <2>3, <2>4 DEF Directory, ns
<1>4. CASE ~(r.stage = "closed" /\ r.pc \in ManifestPcs)
    <2>1. ns = ms
        BY <1>4, AdvanceStore
    <2>2. r.pc = "record" => ms # {}
        BY Kinds DEF Started
    <2>3. ms = {} => store'[Site(t)].results = {}
        BY <1>1, <2>2, AdvanceStore
    <2> QED BY <1>1, <1>2, <2>1, <2>3 DEF Directory
<1> QED BY <1>3, <1>4

\* A hook is passed: the trace of a clean child still tells what is visible.
LEMMA AdvanceFresh ==
    ASSUME Inv, NEW t \in Tools, Advance(t), child[t].enabled,
           Hooked(child[t].pc, NextStage[child[t].stage]),
           Fresh(child[t], store[Site(t)].manifests, store[Site(t)].results)
    PROVE  Fresh(child'[t], store'[Site(t)].manifests, store'[Site(t)].results)
<1>0. child[t].state = "running" /\ child[t].pc \in InstallPcs /\ child[t].stage # "installed"
    BY DEF Advance
<1> USE <1>0, Now
<1> DEFINE r == child[t]
           q == child'[t]
           s == NextStage[r.stage]
           e == <<Artifact(r.pc), s, Context(r)>>
           tr == r.trace
           n == r.cfg.n
           ms == store[Site(t)].manifests
           rs == store[Site(t)].results
           ns == store'[Site(t)].manifests
           os == store'[Site(t)].results
<1>1. /\ DOMAIN q = Fields /\ q.stage = s /\ q.trace = Append(tr, e)
      /\ q.pc \in {r.pc, "evidence"}
      /\ \A f \in Fields \ {"stage", "hits", "pc", "trace"} : q[f] = r[f]
    BY AdvanceChild
<1>2. q.done = r.done /\ q.block = r.block /\ q.inc = r.inc /\ q.cfg = r.cfg
    BY <1>1 DEF Fields
<1>3. /\ r.stage \in (Before \cup After) \ {"installed"} /\ s \in (Before \cup After) \ {"begin"}
      /\ s = "renamed" <=> r.stage = "closed"
      /\ r.stage # "closed" => (r.stage \in After <=> s \in After)
    BY Stages DEF Typed
<1>4. /\ r.pc # "meta" /\ Artifact(r.pc) \in {"metadata", "result", "manifest"}
      /\ Artifact(r.pc) = "result" <=> r.pc = "record"
      /\ Artifact(r.pc) = "manifest" <=> r.pc \in ManifestPcs
    BY <1>3, Hooks
<1>5. /\ Context(r) \in [inc : Nat, block : Nat \cup {None}, seq : Nat \cup {None}]
      /\ Context(r).inc = r.inc /\ (r.pc = "record" => Context(r).block = r.block)
    BY Contexts
<1>6. tr \in Seq(Events) /\ e \in Events
    BY <1>3, <1>4, <1>5 DEF Typed, Events
<1>7. /\ rs = ResultsOf(tr, Len(tr)) /\ ms = ManifestsOf(tr, n) /\ r.pc # "recovery"
      /\ IsFiniteSet(r.done)
      /\ rs = IF r.pc = "record" /\ r.stage \in After
                THEN r.done \cup {<<r.block, r.inc>>} ELSE r.done
      /\ r.pc \in {"initial", "checkpoint"} => Cardinality(r.done) < n
      /\ r.pc = "finish" => ~(Cardinality(r.done) < n)
    BY <1>4, Kinds DEF Fresh
<1>8. /\ ns = ms \cup (IF r.stage = "closed" /\ r.pc \in ManifestPcs
                         THEN {Manifest(r)} ELSE {})
      /\ os = rs \cup (IF r.stage = "closed" /\ r.pc = "record"
                         THEN {<<r.block, r.inc>>} ELSE {})
    BY AdvanceStore
<1>9. e[1] = Artifact(r.pc) /\ e[2] = s /\ e[3] = Context(r)
    OBVIOUS
<1>10. Len(q.trace) = Len(tr) + 1 /\ q.trace[Len(tr) + 1] = e
    BY <1>1, <1>6, OneMore
<1> HIDE DEF e, s, tr, n, ms, rs, ns, os, q
<1>11. os = ResultsOf(q.trace, Len(q.trace))
    <2>1. ResultsOf(q.trace, Len(q.trace)) =
            ResultsOf(tr, Len(tr)) \cup
                (IF e[1] = "result" /\ e[2] = "renamed" THEN {<<e[3].block, e[3].inc>>} ELSE {})
        BY <1>1, <1>6, <1>10, ResultsGrow
    <2> QED BY <1>3, <1>4, <1>5, <1>7, <1>8, <1>9, <2>1
<1>12. ns = ManifestsOf(q.trace, n)
    <2>1. ManifestsOf(q.trace, n) =
            ManifestsOf(tr, n) \cup
                (IF e[1] = "manifest" /\ e[2] = "renamed"
                   THEN {ManifestAt(q.trace, Len(tr) + 1, n)} ELSE {})
        BY <1>1, <1>6, ManifestsGrow
    <2>2. CASE r.stage = "closed" /\ r.pc \in ManifestPcs
        <3>1. ResultsOf(q.trace, Len(tr) + 1) = r.done
            BY <1>7, <1>8, <1>10, <1>11, <2>2, Kinds
        <3>2. ManifestAt(q.trace, Len(tr) + 1, n) =
                [seq |-> Context(r).seq, inc |-> r.inc, entries |-> r.done,
                 status |-> IF Cardinality(r.done) < n THEN "running" ELSE "complete"]
            BY <1>5, <1>9, <1>10, <3>1 DEF ManifestAt
        <3>3. (IF Cardinality(r.done) < n THEN "running" ELSE "complete")
                = (IF r.pc = "finish" THEN "complete" ELSE "running")
            BY <1>7, <2>2, Kinds
        <3>4. ManifestAt(q.trace, Len(tr) + 1, n) = Manifest(r)
            BY <3>2, <3>3 DEF Manifest
        <3> QED BY <1>3, <1>4, <1>7, <1>8, <1>9, <2>1, <2>2, <3>4
    <2>3. CASE ~(r.stage = "closed" /\ r.pc \in ManifestPcs)
        BY <1>3, <1>4, <1>7, <1>8, <1>9, <2>1, <2>3
    <2> QED BY <2>2, <2>3
<1>13. q.pc \in Opened => q.pc = r.pc
    BY <1>1, Kinds
<1>14. os = IF r.pc = "record" /\ s \in After THEN r.done \cup {<<r.block, r.inc>>} ELSE r.done
    BY <1>3, <1>7, <1>8, Kinds
<1> QED BY <1>1, <1>2, <1>7, <1>11, <1>12, <1>13, <1>14 DEF Fresh, n, q, ns, os

\* An install goes from one hook to the next.
LEMMA AdvanceStep ==
    ASSUME Inv, NEW t \in Tools, Advance(t), Aside(t)
    PROVE  Inv'
<1>0. child[t].state = "running" /\ child[t].pc \in InstallPcs /\ child[t].stage # "installed"
    BY DEF Advance
<1> USE <1>0, Now
<1> DEFINE r == child[t]
           q == child'[t]
           s == NextStage[r.stage]
           hooked == r.enabled /\ Hooked(r.pc, s)
           e == <<Artifact(r.pc), s, Context(r)>>
           ms == store[Site(t)].manifests
           rs == store[Site(t)].results
           ns == store'[Site(t)].manifests
           os == store'[Site(t)].results
<1>1. /\ child' = [child EXCEPT ![t] = q]
      /\ DOMAIN q = Fields /\ q.stage = s
      /\ q.trace = IF hooked THEN Append(r.trace, e) ELSE r.trace
      /\ q.pc \in {r.pc, "evidence"} /\ (q.pc # r.pc => hooked)
      /\ \A f \in Fields \ {"stage", "hits", "pc", "trace"} : q[f] = r[f]
    BY AdvanceChild
<1>2. /\ UNCHANGED <<lock, evidence>> /\ DOMAIN store' = Dirs
      /\ \A d \in Dirs \ {Site(t)} : store'[d] = store[d]
      /\ ns = ms \cup (IF r.stage = "closed" /\ r.pc \in ManifestPcs
                         THEN {Manifest(r)} ELSE {})
      /\ os = rs \cup (IF r.stage = "closed" /\ r.pc = "record"
                         THEN {<<r.block, r.inc>>} ELSE {})
    BY AdvanceStore
<1>3. UNCHANGED <<wait, phase, verdict, crashSite, resumed>>
    BY <1>2, NothingNoted
<1>4. /\ r.stage \in (Before \cup After) \ {"installed"} /\ s \in (Before \cup After) \ {"begin"}
      /\ r.stage # "closed" => (r.stage \in After <=> s \in After)
      /\ s = "installed" <=> r.stage = "renamed"
    BY Stages DEF Typed
<1>5. Directory(store'[Site(t)])
    BY AdvanceDirectory
<1>6. /\ Hooked(r.pc, s) => r.pc # "meta"
      /\ ~Hooked(r.pc, s) /\ r.pc # "meta" => s = "installed"
      /\ Artifact(r.pc) \in {"metadata", "result", "manifest"}
    BY <1>4, Hooks
<1>7. /\ Context(r) \in [inc : Nat, block : Nat \cup {None}, seq : Nat \cup {None}]
      /\ r.pc \in {"initial", "recovery"} => Context(r).seq = r.seq
    BY Contexts
<1>8. r.trace \in Seq(Events) /\ e \in Events /\ e[3] = Context(r)
    BY <1>4, <1>6, <1>7 DEF Typed, Events
<1>9. /\ q.state = r.state /\ q.code = r.code /\ q.dir = r.dir /\ q.path = r.path
      /\ q.job = r.job /\ q.cfg = r.cfg /\ q.inc = r.inc /\ q.seq = r.seq
      /\ q.enabled = r.enabled /\ q.block = r.block /\ q.done = r.done
      /\ q.status = r.status
    BY <1>1 DEF Fields
<1>10. hooked => /\ q.trace \in Seq(Events) /\ q.trace # <<>>
                 /\ q.trace[1] = IF r.trace = <<>> THEN e ELSE r.trace[1]
    BY <1>1, <1>8, OneMore
<1>11. r.pc # "meta" /\ r.enabled => (Clean(q) <=> Clean(r)) /\ q.trace # <<>>
    <2> SUFFICES ASSUME r.pc # "meta", r.enabled
                 PROVE  (Clean(q) <=> Clean(r)) /\ q.trace # <<>>
        OBVIOUS
    <2>1. CASE hooked /\ r.trace = <<>>
        <3>1. \/ r.pc = "initial" /\ r.seq = 0
              \/ r.pc = "recovery" /\ r.seq > 0
            BY <2>1, Kinds DEF Traced
        <3>2. q.trace[1][3].seq = r.seq
            BY <1>7, <1>8, <1>10, <2>1, <3>1
        <3>3. r.seq = 0 <=> r.pc = "initial"
            BY <3>1
        <3> QED BY <1>10, <2>1, <3>2, <3>3 DEF Clean
    <2>2. CASE hooked /\ r.trace # <<>>
        BY <1>10, <2>2 DEF Clean
    <2>3. CASE ~hooked
        <3>1. r.stage = "renamed" /\ q.trace = r.trace
            BY <1>1, <1>4, <1>6, <2>3
        <3>2. r.trace # <<>>
            BY <3>1, Kinds DEF Traced
        <3> QED BY <3>1, <3>2 DEF Clean
    <2> QED BY <2>1, <2>2, <2>3
<1> HIDE DEF e, q, s, ns, os, ms, rs
<1>12. Typed(q)
    <2>1. q.pc \in Dying => q.enabled
        BY <1>1, <1>9, Kinds
    <2>2. q.trace \in Seq(Events)
        BY <1>1, <1>8, <1>10
    <2>3. q.pc \in Opening => q.trace = <<>>
        <3>1. q.pc \in Opening => r.pc = "meta" /\ q.pc = "meta"
            BY <1>1, Kinds
        <3>2. r.pc = "meta" => r.trace = <<>> /\ q.trace = r.trace
            BY <1>1, <1>6, Kinds DEF Typed
        <3> QED BY <3>1, <3>2
    <2>4. q.pc \in Opening \cup Opened \cup Dying
        BY <1>1, Kinds
    <2> QED BY <1>1, <1>4, <1>9, <2>1, <2>2, <2>3, <2>4 DEF Typed
<1>13. Traced(q, ns, os)
    <2> SUFFICES ASSUME q.pc \in Opened \cup Dying, q.enabled, Clean(q)
                 PROVE  Fresh(q, ns, os)
        <3>1. q.pc \in Opened \cup Dying => r.pc # "meta"
            BY <1>1, <1>6, Kinds
        <3>2. q.pc \in Opened \cup Dying /\ q.enabled => q.trace # <<>>
            BY <1>9, <1>11, <3>1
        <3> QED BY <3>2 DEF Traced
    <2>0. r.pc # "meta" /\ r.enabled
        BY <1>1, <1>6, <1>9, Kinds
    <2>1. Fresh(r, ms, rs)
        BY <1>11, <2>0, Kinds DEF Traced, ms, rs
    <2>2. CASE hooked
        BY <2>0, <2>1, <2>2, AdvanceFresh DEF q, ns, os, ms, rs, s
    <2>3. CASE ~hooked
        <3>1. r.stage = "renamed" /\ q.trace = r.trace /\ s = "installed" /\ q.pc = r.pc
            BY <1>1, <1>4, <1>6, <2>0, <2>3
        <3>2. ns = ms /\ os = rs
            BY <1>2, <3>1
        <3> QED BY <1>1, <1>9, <2>1, <3>1, <3>2, Kinds DEF Fresh
    <2> QED BY <2>2, <2>3
<1>14. Started(q, ns)
    <2> SUFFICES ASSUME \/ q.pc \in Opened \ {"initial"}
                        \/ q.pc = "initial" /\ q.stage \in After
                 PROVE  ns # {}
        BY DEF Started
    <2>1. q.pc = r.pc
        BY <1>1, Kinds
    <2>2. CASE r.pc = "initial" /\ r.stage = "closed"
        BY <1>2, <2>2, Kinds
    <2>3. CASE ~(r.pc = "initial" /\ r.stage = "closed")
        <3>1. ms # {}
            BY <1>1, <1>4, <2>1, <2>3 DEF Started, ms
        <3> QED BY <1>2, <3>1
    <2> QED BY <2>2, <2>3
<1>15. t = origin /\ ~resumed =>
        /\ q.pc \in Opening => ns = {}
        /\ q.pc \in Opened \cup Dying /\ q.enabled => Clean(q)
    <2>1. q.pc \in Opening => r.pc = "meta"
        BY <1>1, Kinds
    <2>2. q.pc \in Opened \cup Dying /\ q.enabled => r.pc # "meta" /\ r.enabled
        BY <1>1, <1>6, <1>9, Kinds
    <2>3. r.pc \in Opening <=> r.pc = "meta"
        BY Kinds
    <2>4. r.pc # "meta" => r.pc \in Opened
        BY Kinds
    <2> QED BY <1>2, <1>11, <2>1, <2>2, <2>3, <2>4, Sites, Kinds DEF ms
<1>16. /\ q.pc \notin {"construct", "open", "sync"} /\ r.pc \notin {"construct", "open", "sync"}
      /\ q.state = "running"
    BY <1>1, <1>9, Kinds
<1> QED BY <1>1, <1>2, <1>3, <1>5, <1>9, <1>12, <1>13, <1>14, <1>15, <1>16, Works, Sites DEF ns, os

\* The descriptor gets its name, unless the name is taken.
LEMMA LinkEvidenceStep ==
    ASSUME Inv, NEW t \in Tools, LinkEvidence(t), Aside(t)
    PROVE  Inv'
<1>0. child[t].state = "running" /\ child[t].pc = "link"
    BY DEF LinkEvidence, At
<1> USE <1>0, Now, Sites
<1> DEFINE r == child[t]
           q == [r EXCEPT !.pc = "sync"]
<1>1. CASE evidence[Site(t)] # NoEvidence
    BY <1>1, Throws DEF LinkEvidence, LinkNoReplace
<1>2. CASE evidence[Site(t)] = NoEvidence
    <2>0. Shape /\ Owned /\ Origin
        BY DEF Inv
    <2>1. /\ child' = [child EXCEPT ![t] = q]
          /\ evidence' = [evidence EXCEPT ![Site(t)] = Descriptor(r)]
          /\ UNCHANGED <<store, lock>>
        BY <1>2 DEF LinkEvidence, LinkNoReplace, Become
    <2>2. UNCHANGED <<wait, phase, verdict, resumed>>
        BY DEF Aside, watchdogVars
    <2>3. /\ DOMAIN evidence' = Dirs /\ evidence'[Site(t)] = Descriptor(r)
          /\ \A d \in Dirs \ {Site(t)} : evidence'[d] = evidence[d]
          /\ Descriptor(r) # NoEvidence
        BY <2>0, <2>1, Taken DEF Shape
    <2>4. /\ DOMAIN crashSite' = Tools /\ crashSite'[t] = store[Site(t)]
          /\ \A u \in Tools \ {t} : crashSite'[u] = crashSite[u]
        <3>1. evidence' # evidence
            BY <1>2, <2>3
        <3>2. crashSite' = [crashSite EXCEPT ![t] = store[Site(t)]]
            BY <3>1 DEF Aside, NoteSite
        <3> QED BY <2>0, <3>2 DEF Shape
    <2>5. DOMAIN r = Fields
        BY DEF Typed
    <2>6. DOMAIN q = Fields /\ q.pc = "sync" /\ \A f \in Fields \ {"pc"} : q[f] = r[f]
        BY <2>5 DEF Fields
    <2> HIDE DEF q
    <2>7. /\ q.state = r.state /\ q.code = r.code /\ q.dir = r.dir /\ q.path = r.path
          /\ q.job = r.job /\ q.cfg = r.cfg /\ q.inc = r.inc /\ q.seq = r.seq
          /\ q.enabled = r.enabled /\ q.block = r.block /\ q.trace = r.trace
          /\ q.stage = r.stage
        BY <2>6 DEF Fields
    <2>8. /\ child'[t] = q /\ DOMAIN child' = Tools
          /\ \A u \in Tools \ {t} : child'[u] = child[u]
        BY <2>0, <2>1 DEF Shape
    <2>9. r.enabled /\ Typed(q)
        BY <2>6, <2>7, Kinds DEF Typed
    <2>10. /\ r.trace # <<>>
           /\ Clean(r) => Fresh(r, store[Site(t)].manifests, store[Site(t)].results)
        BY <2>9, Kinds DEF Traced
    <2>11. Traced(q, store[Site(t)].manifests, store[Site(t)].results)
        BY <2>6, <2>7, <2>10, Kinds DEF Traced, Clean, Fresh
    <2>12. Started(q, store[Site(t)].manifests)
        BY <2>6, Kinds DEF Started
    <2>13. Descriptor(q) = Descriptor(r)
        BY <2>7 DEF Descriptor
    <2>14. Seen(q, store[Site(t)])
        BY <2>7, <2>10 DEF Seen, Clean, Fresh
    <2>15. Shape'
        BY <2>0, <2>1, <2>2, <2>3, <2>4, <2>8 DEF Shape
    <2>16. \A u \in Tools \ {t} : Tool(u)'
        <3> SUFFICES ASSUME NEW u \in Tools \ {t} PROVE Tool(u)'
            OBVIOUS
        <3>1. evidence[Site(u)] # NoEvidence => evidence'[Site(u)] = evidence[Site(u)]
            BY <1>2, <2>3
        <3> QED BY <2>1, <2>2, <2>4, <2>8, <3>1, Others
    <2>17. Tool(t)'
        <3>1. Linked(q, Descriptor(r), store[Site(t)])
            BY <2>13, <2>14 DEF Linked
        <3>2. lock[Site(t)] = t
            BY DEF Tool, ToolOK
        <3> QED BY <2>1, <2>2, <2>3, <2>4, <2>7, <2>8, <2>9, <2>11, <2>12, <3>1, <3>2
            DEF Tool, ToolOK
    <2>18. Owned'
        BY <2>0, <2>1, <2>6, <2>7, <2>8 DEF Owned
    <2>19. \A d \in Dirs : Directory(store'[d])
        BY <2>1 DEF Inv
    <2>20. Origin'
        <3>1. CASE t = origin
            <4>1. phase[origin] \notin {"start", "earlier"}
                BY <2>0, <2>9, <3>1 DEF Origin, Tool, ToolOK
            <4>2. ~resumed => Clean(r) /\ Clean(q) /\ q.trace[1][3].seq = 0
                BY <2>7, <2>9, <2>10, <3>1, Kinds DEF Clean
            <4> QED BY <2>2, <2>3, <2>4, <2>6, <2>7, <2>8, <2>13, <2>14, <3>1, <4>1, <4>2, Kinds
                DEF Origin
        <3>2. CASE t # origin
            <4>1. /\ evidence'[home] = evidence[home] /\ child'[origin] = child[origin]
                  /\ crashSite'[origin] = crashSite[origin]
                BY <2>3, <2>4, <2>8, <3>2
            <4> QED BY <2>0, <2>1, <2>2, <4>1 DEF Origin
        <3> QED BY <3>1, <3>2
    <2>21. Reported'
        <3>1. t \in Replays => verdict[t] # "reproduced"
            BY Unreported
        <3>2. evidence[home] # NoEvidence => evidence'[home] = evidence[home]
            BY <1>2, <2>3
        <3> QED BY <2>2, <2>8, <3>1, <3>2, StillReported
    <2> QED BY <2>15, <2>16, <2>17, <2>18, <2>19, <2>20, <2>21 DEF Inv
<1> QED BY <1>1, <1>2

\* The directories, in a step that leaves them alone.
LEMMA SameStore ==
    ASSUME Inv, UNCHANGED store
    PROVE  /\ DOMAIN store' = Dirs
           /\ \A d \in Dirs : /\ DOMAIN store'[d] = DOMAIN store[d]
                              /\ store'[d].manifests = store[d].manifests
                              /\ store'[d].results = store[d].results
BY DEF Inv, Shape

\* The child exits in its hook.
LEMMA CrashStep ==
    ASSUME Inv, NEW t \in Tools, Crash(t), Aside(t)
    PROVE  Inv'
<1>0. child[t].state = "running" /\ child[t].pc = "sync"
    BY DEF Crash, At
<1> USE <1>0, Now
<1>1. /\ child' = [child EXCEPT ![t].state = "zombie", ![t].code = Injected] /\ Unlock(t)
      /\ UNCHANGED <<store, evidence>>
    BY DEF Crash, Die
<1>2. UNCHANGED <<wait, phase, verdict, crashSite, resumed>>
    BY <1>1, NothingNoted
<1>3. evidence[Site(t)] = Descriptor(child[t]) /\ Seen(child[t], crashSite[t])
    BY DEF Tool, ToolOK, Linked
<1>4. wait[t] \notin {"exited", "failed"} /\ DOMAIN wait = Tools
    BY DEF Tool, ToolOK, Shape
<1> QED BY <1>1, <1>2, <1>3, <1>4, SameStore, Dies

\* The evidence cannot be written.
LEMMA EvidenceErrorStep ==
    ASSUME Inv, NEW t \in Tools, EvidenceError(t), Aside(t)
    PROVE  Inv'
BY Throws DEF EvidenceError

\* The run returns without having met its hook.
LEMMA ReturnStep ==
    ASSUME Inv, NEW t \in Tools, Return(t), Aside(t)
    PROVE  Inv'
<1>0. child[t].state = "running" /\ child[t].pc = "return"
    BY DEF Return, At
<1> USE <1>0, Now
<1>1. /\ child' = [child EXCEPT ![t].state = "zombie", ![t].code = Returned] /\ Unlock(t)
      /\ UNCHANGED <<store, evidence>>
    BY DEF Return, Die, Typed, Quiet
<1>2. UNCHANGED <<wait, phase, verdict, crashSite, resumed>>
    BY <1>1, NothingNoted
<1>3. Returned # Injected
    BY DEF Returned, Injected
<1>4. wait[t] \notin {"exited", "failed"} /\ DOMAIN wait = Tools
    BY DEF Tool, ToolOK, Shape
<1> QED BY <1>1, <1>2, <1>3, <1>4, SameStore, Dies

\* Every step of a child keeps the invariant.
LEMMA ChildSteps ==
    ASSUME Inv, NEW t \in Tools, RunChild(t)
    PROVE  Inv'
<1>1. ChildStep(t) /\ Aside(t)
    BY DEF RunChild, Aside
<1> QED BY <1>1, ConstructStep, OpenStep, ScanStep, CleanupStep, AdvanceStep, SettleStep,
           AllReceivedStep, ReturnStep, ReceiveStep, WriteEvidenceStep, LinkEvidenceStep,
           CrashStep, EvidenceErrorStep DEF ChildStep

-----------------------------------------------------------------------------
(* Steps of the watchdog *)

\* A parent waits on.
LEMMA Waits ==
    ASSUME Inv, NEW t \in Tools, NEW w, wait[t] \in {"poll", "clock", "reap"},
           w \notin {"exited", "failed"}, wait' = [wait EXCEPT ![t] = w],
           UNCHANGED <<child, store, lock, evidence, phase, verdict, crashSite, resumed>>
    PROVE  Inv'
<1> USE Sites
<1>1. Shape /\ Tool(t)
    BY DEF Inv
<1>2. wait'[t] = w /\ DOMAIN wait' = Tools /\ \A u \in Tools \ {t} : wait'[u] = wait[u]
    BY <1>1 DEF Shape
<1>3. Shape'
    BY <1>1, <1>2 DEF Shape
<1>4. \A u \in Tools \ {t} : Tool(u)'
    BY <1>2, Others
<1>5. Tool(t)'
    BY <1>1, <1>2 DEF Tool, ToolOK
<1>6. Owned' /\ Origin' /\ \A d \in Dirs : Directory(store'[d])
    BY DEF Inv, Owned, Origin
<1>7. Reported'
    <2>1. t \in Replays => verdict[t] # "reproduced"
        BY DEF Inv, Reported
    <2> QED BY <1>2, <2>1, StillReported
<1> QED BY <1>3, <1>4, <1>5, <1>6, <1>7 DEF Inv

\* A parent collects its child.
LEMMA Collects ==
    ASSUME Inv, NEW t \in Tools, wait[t] \in {"poll", "reap"},
           child[t].state = "zombie", child' = [child EXCEPT ![t].state = "reaped"],
           DOMAIN wait' = Tools, \A u \in Tools \ {t} : wait'[u] = wait[u],
           UNCHANGED <<store, lock, evidence, phase, verdict, crashSite, resumed>>
    PROVE  Inv'
<1> USE Sites
<1>1. Shape /\ Tool(t) /\ Owned /\ Origin
    BY DEF Inv
<1> DEFINE r == child[t]
           q == child'[t]
<1>0. DOMAIN r = Fields
    BY <1>1 DEF Tool, ToolOK, Typed
<1>3. /\ DOMAIN child' = Tools /\ \A u \in Tools \ {t} : child'[u] = child[u]
      /\ DOMAIN q = Fields /\ q.state = "reaped"
      /\ \A f \in Fields \ {"state"} : q[f] = r[f]
    BY <1>0, <1>1 DEF Shape, Fields
<1>a. /\ q.job = r.job /\ q.dir = r.dir /\ q.path = r.path /\ q.code = r.code
      /\ q.cfg = r.cfg /\ q.pc = r.pc /\ q.stage = r.stage
      /\ q.seq = r.seq /\ q.inc = r.inc /\ q.block = r.block
      /\ q.enabled = r.enabled /\ q.trace = r.trace
    BY <1>3 DEF Fields
<1> HIDE DEF q
<1>4. Shape'
    BY <1>1, <1>3 DEF Shape
<1>5. \A u \in Tools \ {t} : Tool(u)'
    BY <1>3, Others
<1>6. Typed(q)
    BY <1>1, <1>3, <1>a DEF Tool, ToolOK, Typed
<1>b. Descriptor(q) = Descriptor(r) /\ (Seen(q, crashSite[t]) <=> Seen(r, crashSite[t]))
    BY <1>a DEF Descriptor, Seen
<1>7. Tool(t)'
    <2>1. Linked(q, evidence[Site(t)], crashSite[t])
        BY <1>1, <1>3, <1>a, <1>b DEF Linked, Tool, ToolOK
    <2> QED BY <1>1, <1>3, <1>6, <1>a, <2>1 DEF Tool, ToolOK, q
<1>8. Owned'
    BY <1>1, <1>3 DEF Owned
<1>9. \A d \in Dirs : Directory(store'[d])
    BY DEF Inv
<1>10. Origin'
    <2>1. CASE t = origin
        BY <1>1, <1>3, <1>a, <1>b, <2>1 DEF Origin, q
    <2>2. CASE t # origin
        BY <1>1, <1>3, <2>2 DEF Origin
    <2> QED BY <2>1, <2>2
<1>11. Reported'
    <2>1. t \in Replays => verdict[t] # "reproduced"
        BY Unreported
    <2> QED BY <1>3, <2>1, StillReported
<1> QED BY <1>4, <1>5, <1>7, <1>8, <1>9, <1>10, <1>11 DEF Inv

\* Every step of a parent in wait_for_child keeps the invariant.
LEMMA WatchdogSteps ==
    ASSUME Inv, NEW t \in Tools, Supervise(t)
    PROVE  Inv'
<1> USE DEF replayVars
<1>1. CASE Poll(t)
    <2>1. CASE child[t].state = "zombie"
        <3>1. child' = [child EXCEPT ![t].state = "reaped"]
            BY <1>1, <2>1 DEF Poll, Reaped
        <3>2. DOMAIN wait' = Tools /\ \A u \in Tools \ {t} : wait'[u] = wait[u]
            BY <1>1, <2>1 DEF Poll, Inv, Shape
        <3>3. /\ UNCHANGED <<store, lock, evidence, phase, verdict, crashSite, resumed>>
              /\ wait[t] = "poll"
            BY <1>1 DEF Poll, Supervise
        <3> QED BY <2>1, <3>1, <3>2, <3>3, Collects
    <2>2. CASE child[t].state # "zombie"
        BY <1>1, <2>2, Waits DEF Supervise, Poll
    <2> QED BY <2>1, <2>2
<1>2. CASE CheckClock(t)
    <2>0. wait[t] = "clock" /\ UNCHANGED <<store, evidence, phase, verdict, crashSite, resumed>>
        BY <1>2 DEF CheckClock, AtDeadline, Supervise
    <2>1. CASE t \in late /\ child[t].state = "running"
        <3>1. /\ child' = [child EXCEPT ![t].state = "zombie", ![t].code = Signal] /\ Unlock(t)
              /\ wait' = [wait EXCEPT ![t] = "reap"]
            BY <1>2, <2>1 DEF CheckClock, AtDeadline, Kill, Die
        <3>2. /\ DOMAIN wait' = Tools /\ wait'[t] = "reap"
              /\ \A u \in Tools \ {t} : wait'[u] = wait[u]
            BY <3>1 DEF Inv, Shape
        <3>3. Signal # Injected
            BY DEF Signal, Injected
        <3> QED BY <2>0, <2>1, <3>1, <3>2, <3>3, SameStore, Dies
    <2>2. CASE t \in late /\ child[t].state # "running"
        BY <1>2, <2>0, <2>2, Waits DEF CheckClock, AtDeadline, Kill
    <2>3. CASE t \notin late
        BY <1>2, <2>0, <2>3, Waits DEF CheckClock, AtDeadline
    <2> QED BY <2>1, <2>2, <2>3
<1>3. CASE Reap(t)
    <2>1. wait[t] \in {"poll", "reap"} /\ child[t].state = "zombie"
        BY <1>3 DEF Reap
    <2>2. child' = [child EXCEPT ![t].state = "reaped"]
        BY <1>3 DEF Reap, Reaped
    <2>3. DOMAIN wait' = Tools /\ \A u \in Tools \ {t} : wait'[u] = wait[u]
        BY <1>3 DEF Reap, Inv, Shape
    <2>4. UNCHANGED <<store, lock, evidence, phase, verdict, crashSite, resumed>>
        BY <1>3 DEF Reap, Supervise
    <2> QED BY <2>1, <2>2, <2>3, <2>4, Collects
<1>4. CASE Expire(t)
    <2>1. UNCHANGED <<child, store, lock, evidence, wait, phase, verdict, crashSite, resumed>>
        BY <1>4 DEF Supervise, Expire, childVars
    <2> QED BY <2>1 DEF Inv, Shape, Tool, Owned, Origin, Reported
<1> QED BY <1>1, <1>2, <1>3, <1>4 DEF Supervise, WatchdogStep

-----------------------------------------------------------------------------
(* Steps of the tools *)

\* A new child has done nothing.
LEMMA Newborn ==
    ASSUME NEW cfg, NEW dir, NEW job, job # "recover"
    PROVE  LET q == Spawned(job, cfg, dir, dir) IN
           /\ Typed(q) /\ q.state = "running" /\ q.code = 0 /\ q.pc = "construct"
           /\ q.cfg = cfg /\ q.dir = dir /\ q.path = dir /\ ~q.enabled
<1> DEFINE q == Spawned(job, cfg, dir, dir)
<1>1. /\ DOMAIN q = Fields /\ q.state = "running" /\ q.code = 0 /\ q.pc = "construct"
      /\ q.cfg = cfg /\ q.dir = dir /\ q.path = dir /\ q.enabled = FALSE /\ q.job = job
      /\ q.stage = "begin" /\ q.seq = 0 /\ q.inc = 0 /\ q.block = 0 /\ q.trace = <<>>
    BY DEF Spawned, NoChild, Fields
<1> HIDE DEF q
<1>2. <<>> \in Seq(Events)
    OBVIOUS
<1>3. Typed(q)
    <2>1. q.enabled \in BOOLEAN
        BY <1>1
    <2>2. 0 \in Nat /\ q.pc \in Opening /\ q.pc \notin Dying /\ q.stage \in Before
        BY <1>1, Kinds
    <2>3. q.trace \in Seq(Events)
        BY <1>1, <1>2
    <2> QED BY <1>1, <2>1, <2>2, <2>3 DEF Typed
<1> QED BY <1>1, <1>3 DEF q

\* A tool forks a child while it has none.
LEMMA Forks ==
    ASSUME Inv, NEW t \in Tools, NEW job, NEW cfg, NEW p, job # "recover",
           child[t].state # "running", cfg.n \in Nat \ {0}, p # "start",
           t \in Replays => verdict[t] # "reproduced",
           Fork(t, Spawned(job, cfg, Site(t), Site(t))), Goto(t, p),
           resumed' \in BOOLEAN, resumed => resumed',
           t = origin => /\ evidence[home] = NoEvidence
                         /\ p = "earlier" => cfg.point = None /\ resumed'
                         /\ ~resumed' => store[home].manifests = {},
           t # origin => resumed' = resumed,
           UNCHANGED <<store, lock, evidence, verdict, crashSite>>
    PROVE  Inv'
<1> USE Sites
<1>1. Shape /\ Tool(t) /\ Owned /\ Origin
    BY DEF Inv
<1> DEFINE q == Spawned(job, cfg, Site(t), Site(t))
<1>2. /\ Typed(q) /\ q.state = "running" /\ q.code = 0 /\ q.pc = "construct"
      /\ q.cfg = cfg /\ q.dir = Site(t) /\ q.path = Site(t) /\ ~q.enabled
    BY Newborn
<1> HIDE DEF q
<1>3. /\ child'[t] = q /\ DOMAIN child' = Tools
      /\ \A u \in Tools \ {t} : child'[u] = child[u]
    BY <1>1 DEF Shape, Fork, q
<1>4. /\ wait'[t] = "poll" /\ DOMAIN wait' = Tools
      /\ \A u \in Tools \ {t} : wait'[u] = wait[u]
    BY <1>1 DEF Shape, Fork
<1>5. /\ phase'[t] = p /\ DOMAIN phase' = Tools
      /\ \A u \in Tools \ {t} : phase'[u] = phase[u]
    BY <1>1 DEF Shape, Goto
<1>6. Shape'
    BY <1>1, <1>3, <1>4, <1>5 DEF Shape
<1>7. \A u \in Tools \ {t} : Tool(u)'
    BY <1>3, <1>4, <1>5, Others
<1>8. Tool(t)'
    <2>1. Linked(q, evidence[Site(t)], crashSite[t])
        BY <1>2 DEF Linked, Injected
    <2>2. /\ Traced(q, store[Site(t)].manifests, store[Site(t)].results)
          /\ Started(q, store[Site(t)].manifests)
        BY <1>2, Kinds DEF Traced, Started
    <2> QED BY <1>2, <1>3, <1>4, <1>5, <2>1, <2>2 DEF Tool, ToolOK
<1>9. Owned'
    BY <1>1, <1>3 DEF Owned
<1>10. \A d \in Dirs : Directory(store'[d])
    BY DEF Inv
<1>11. Origin'
    <2>1. CASE t = origin
        BY <1>2, <1>3, <1>5, <2>1, Kinds DEF Origin
    <2>2. CASE t # origin
        <3>1. child'[origin] = child[origin] /\ phase'[origin] = phase[origin]
            BY <1>3, <1>5, <2>2
        <3> QED BY <1>1, <2>2, <3>1 DEF Origin
    <2> QED BY <2>1, <2>2
<1>12. Reported'
    BY <1>3, <1>4, <1>5, StillReported
<1> QED BY <1>6, <1>7, <1>8, <1>9, <1>10, <1>11, <1>12 DEF Inv

\* A tool ends, and says why.
LEMMA Concludes ==
    ASSUME Inv, NEW t \in Tools, Goto(t, "ended"),
           UNCHANGED <<child, wait, store, lock, evidence, crashSite, resumed>>,
           DOMAIN verdict' = Tools, \A u \in Tools \ {t} : verdict'[u] = verdict[u],
           t \in Replays /\ verdict'[t] = "reproduced" =>
                /\ child[t].code = Injected /\ evidence[home] = Descriptor(child[t])
                /\ wait[t] = "exited"
    PROVE  Inv'
<1> USE Sites
<1>1. Shape /\ Tool(t) /\ Owned /\ Origin /\ Reported
    BY DEF Inv
<1>2. /\ phase'[t] = "ended" /\ DOMAIN phase' = Tools
      /\ \A u \in Tools \ {t} : phase'[u] = phase[u]
    BY <1>1 DEF Shape, Goto
<1>3. Shape'
    BY <1>1, <1>2 DEF Shape
<1>4. \A u \in Tools \ {t} : Tool(u)'
    BY <1>2, Others
<1>5. Tool(t)'
    BY <1>1, <1>2 DEF Tool, ToolOK
<1>6. Owned' /\ \A d \in Dirs : Directory(store'[d])
    BY DEF Inv, Owned
<1>7. Origin'
    <2>1. phase'[origin] \in {phase[origin], "ended"}
        BY <1>2
    <2> QED BY <1>1, <2>1 DEF Origin
<1>8. Reported'
    <2> SUFFICES ASSUME NEW u \in Replays, verdict'[u] = "reproduced"
                 PROVE  /\ child[u].code = Injected /\ evidence[home] = Descriptor(child[u])
                        /\ wait[u] = "exited" /\ phase'[u] = "ended"
        BY DEF Reported
    <2>1. CASE u = t
        BY <1>2, <2>1
    <2>2. CASE u # t
        BY <1>1, <1>2, <2>2 DEF Reported
    <2> QED BY <2>1, <2>2
<1> QED BY <1>3, <1>4, <1>5, <1>6, <1>7, <1>8 DEF Inv

\* What is asked of a run has blocks.
LEMMA Asked ==
    ASSUME config \in Configs
    PROVE  /\ config.n \in Nat \ {0}
           /\ [config EXCEPT !.point = None].n = config.n
           /\ [config EXCEPT !.point = None].point = None
<1>1. config \in RunConfig
    BY ConfigsAssumption
<1>2. DOMAIN config = {"n", "interval", "workers", "point", "occurrence"}
      /\ config.n \in 1 .. MaxBlocks
    BY <1>1 DEF RunConfig
<1>3. config.n \in Nat \ {0}
    BY <1>2, RunAssumption
<1> QED BY <1>2, <1>3

LEMMA StartEarlierStep ==
    ASSUME Inv, config \in Configs, StartEarlier
    PROVE  Inv'
<1> USE Sites
<1>1. Tool(origin) /\ Origin /\ phase[origin] = "start"
    BY DEF Inv, StartEarlier
<1>2. child[origin].state # "running" /\ evidence[home] = NoEvidence
    BY <1>1 DEF Tool, ToolOK, Origin
<1> DEFINE cfg == [config EXCEPT !.point = None]
<1>3. cfg.n \in Nat \ {0} /\ cfg.point = None
    BY Asked
<1>4. Fork(origin, Spawned("inject", cfg, Site(origin), Site(origin)))
    BY DEF StartEarlier
<1> HIDE DEF cfg
<1>5. /\ Goto(origin, "earlier") /\ resumed' = TRUE
      /\ UNCHANGED <<store, lock, evidence, verdict, crashSite>>
    BY DEF StartEarlier
<1> QED BY <1>2, <1>3, <1>4, <1>5, Forks

LEMMA StartOriginalStep ==
    ASSUME Inv, config \in Configs, StartOriginal
    PROVE  Inv'
<1> USE Sites
<1>1. /\ Shape /\ Tool(origin) /\ Origin
      /\ \/ phase[origin] = "start"
         \/ phase[origin] = "earlier" /\ wait[origin] \in {"exited", "failed"}
    BY DEF Inv, StartOriginal
<1>2. /\ child[origin].state # "running" /\ evidence[home] = NoEvidence
      /\ ~resumed => store[home].manifests = {}
    BY <1>1 DEF Tool, ToolOK, Origin
<1>3. config.n \in Nat \ {0}
    BY Asked
<1>4. Fork(origin, Spawned("inject", config, Site(origin), Site(origin)))
    BY DEF StartOriginal
<1>5. /\ Goto(origin, "original") /\ resumed' = resumed /\ resumed \in BOOLEAN
      /\ UNCHANGED <<store, lock, evidence, verdict, crashSite>>
    BY <1>1 DEF StartOriginal, Shape
<1> QED BY <1>2, <1>3, <1>4, <1>5, Forks

LEMMA EndOriginalStep ==
    ASSUME Inv, EndOriginal
    PROVE  Inv'
<1>1. /\ Goto(origin, "ended")
      /\ UNCHANGED <<child, wait, store, lock, evidence, crashSite, resumed, verdict>>
    BY DEF EndOriginal, childVars, watchdogVars
<1>2. DOMAIN verdict = Tools
    BY DEF Inv, Shape
<1> QED BY <1>1, <1>2, Sites, Concludes

LEMMA StartReplayStep ==
    ASSUME Inv, NEW t \in Replays, StartReplay(t)
    PROVE  Inv'
<1> USE Sites
<1>0. /\ Shape /\ Tool(t) /\ Tool(origin) /\ Origin /\ phase[t] = "start"
      /\ UNCHANGED <<store, lock, evidence, crashSite, resumed>>
    BY DEF Inv, StartReplay
<1>1. CASE EmptyTarget /\ Readable(evidence[home]) /\ evidence[target] = NoEvidence
    <2> DEFINE cfg == Rebuilt(evidence[home])
    <2>1. cfg.n \in Nat \ {0}
        <3>1. evidence[home] = Descriptor(child[origin]) /\ child[origin].state # "none"
            BY <1>0, <1>1 DEF Origin, Readable
        <3>2. cfg.n = child[origin].cfg.n
            BY <3>1 DEF Rebuilt, Descriptor
        <3> QED BY <1>0, <3>1, <3>2 DEF Tool, ToolOK
    <2>2. /\ Fork(t, Spawned("replay", cfg, Site(t), Site(t)))
          /\ Goto(t, "replaying") /\ UNCHANGED verdict
        BY <1>1 DEF StartReplay
    <2> HIDE DEF cfg
    <2>3. child[t].state # "running"
        BY <1>0 DEF Tool, ToolOK
    <2>4. verdict[t] # "reproduced"
        BY <1>0 DEF Inv, Reported
    <2>5. resumed' = resumed /\ resumed \in BOOLEAN
        BY <1>0 DEF Shape
    <2> QED BY <1>0, <2>1, <2>2, <2>3, <2>4, <2>5, Forks
<1>2. CASE ~(EmptyTarget /\ Readable(evidence[home]) /\ evidence[target] = NoEvidence)
    <2>1. /\ Goto(t, "ended") /\ UNCHANGED <<child, wait>>
          /\ verdict' = [verdict EXCEPT ![t] = "refused"]
        BY <1>2 DEF StartReplay, watchdogVars
    <2>2. /\ DOMAIN verdict' = Tools /\ verdict'[t] = "refused"
          /\ \A u \in Tools \ {t} : verdict'[u] = verdict[u]
        BY <1>0, <2>1 DEF Shape
    <2> QED BY <1>0, <2>1, <2>2, Concludes
<1> QED BY <1>1, <1>2

\* The path at which the tool reads is its child's.
LEMMA JudgeStep ==
    ASSUME Inv, NEW t \in Replays, Judge(t)
    PROVE  Inv'
<1> USE Sites
<1>0. /\ Shape /\ Tool(t) /\ wait[t] \in {"exited", "failed"} /\ Goto(t, "ended")
      /\ UNCHANGED <<child, wait, store, lock, evidence, crashSite, resumed>>
    BY DEF Inv, Judge, childVars, watchdogVars
<1>1. /\ DOMAIN verdict' = Tools /\ \A u \in Tools \ {t} : verdict'[u] = verdict[u]
      /\ verdict'[t] = IF wait[t] = "failed" THEN "timeout"
                       ELSE IF child[t].code # Injected THEN "missed"
                       ELSE IF ~Readable(evidence[target]) THEN "unreadable"
                       ELSE IF same_replay(evidence[target], evidence[home])
                         THEN "reproduced" ELSE "mismatch"
    BY <1>0 DEF Judge, Shape
<1>2. ASSUME verdict'[t] = "reproduced"
      PROVE  /\ child[t].code = Injected /\ evidence[home] = Descriptor(child[t])
             /\ wait[t] = "exited"
    <2>1. /\ wait[t] = "exited" /\ child[t].code = Injected
          /\ evidence[target] = evidence[home]
        BY <1>0, <1>1, <1>2 DEF same_replay
    <2>2. evidence[target] = Descriptor(child[t])
        BY <1>0, <2>1 DEF Tool, ToolOK, Linked
    <2> QED BY <2>1, <2>2
<1> QED BY <1>0, <1>1, <1>2, Concludes

-----------------------------------------------------------------------------
(* The theorems *)

LEMMA InitInv == Init => Inv /\ config \in Configs
<1> SUFFICES ASSUME Init PROVE Inv /\ config \in Configs
    OBVIOUS
<1> USE Sites DEF Init, ChildInit, WatchdogInit
<1>1. /\ DOMAIN NoChild = Fields /\ NoChild.state = "none" /\ NoChild.code = 0
      /\ NoChild.job = "inject" /\ NoChild.pc = "down" /\ NoChild.stage = "begin"
      /\ NoChild.seq = 0 /\ NoChild.inc = 0 /\ NoChild.block = 0
      /\ NoChild.enabled = FALSE /\ NoChild.trace = <<>>
    BY DEF NoChild, Fields
<1>2. Typed(NoChild)
    <2>1. NoChild.enabled \in BOOLEAN
        BY <1>1
    <2>2. 0 \in Nat /\ "down" \notin Opening \cup Dying /\ "begin" \in Before
        BY Kinds
    <2>3. <<>> \in Seq(Events)
        OBVIOUS
    <2>4. NoChild.trace \in Seq(Events)
        BY <1>1, <2>3
    <2> QED BY <1>1, <2>1, <2>2, <2>4 DEF Typed
<1>3. Shape
    BY PlacesAssumption DEF Shape
<1>4. \A t \in Tools : Tool(t)
    <2> SUFFICES ASSUME NEW t \in Tools PROVE Tool(t)
        OBVIOUS
    <2>1. child[t] = NoChild /\ wait[t] = "idle"
        OBVIOUS
    <2> QED BY <1>1, <1>2, <2>1 DEF Tool, ToolOK, Linked, Injected
<1>5. Owned
    BY DEF Owned
<1>6. \A d \in Dirs : Directory(store[d])
    BY DEF Directory, EmptyStore
<1>7. Origin
    <2>1. /\ child[origin] = NoChild /\ evidence[home] = NoEvidence
          /\ phase[origin] = "start" /\ store[home].manifests = {}
        BY PlacesAssumption DEF EmptyStore
    <2> QED BY <1>1, <2>1 DEF Origin
<1>8. Reported
    <2>1. \A t \in Replays : verdict[t] = None
        OBVIOUS
    <2> QED BY <2>1, VerdictsAssumption DEF Reported, Verdicts
<1> QED BY <1>3, <1>4, <1>5, <1>6, <1>7, <1>8 DEF Inv

LEMMA NextInv == Inv /\ config \in Configs /\ [Next]_vars => Inv' /\ config' \in Configs
<1> SUFFICES ASSUME Inv, config \in Configs, [Next]_vars PROVE Inv' /\ config' \in Configs
    OBVIOUS
<1>1. CASE Next
    <2>1. Inv'
        BY <1>1, StartEarlierStep, StartOriginalStep, EndOriginalStep, StartReplayStep,
           JudgeStep, ChildSteps, WatchdogSteps DEF Next
    <2>2. UNCHANGED config
        BY <1>1 DEF Next, StartEarlier, StartOriginal, EndOriginal, StartReplay, Judge,
                    RunChild, Supervise, replayVars
    <2> QED BY <2>1, <2>2
<1>2. CASE UNCHANGED vars
    BY <1>2 DEF vars, childVars, watchdogVars, replayVars, Inv, Shape, Tool, Owned, Origin,
                Reported
<1> QED BY <1>1, <1>2

\* Every state that the tools and their children reach satisfies the invariant.
THEOREM Inductive == Spec => []Inv
<1> DEFINE J == Inv /\ config \in Configs
<1>1. Init => J
    BY InitInv
<1>2. J /\ [Next]_vars => J'
    BY NextInv
<1>3. J => Inv
    OBVIOUS
<1> HIDE DEF J
<1> QED BY <1>1, <1>2, <1>3, PTL DEF Spec

\* A reported reproduction is one: the trace of the child that the tool watched is
\* the original's, and if that was a fresh run, the trace tells the directory.
THEOREM VerdictsAreSound == Spec => []VerdictSound
<1>1. Inv => VerdictSound
    <2> SUFFICES ASSUME Inv, NEW t \in Replays, verdict[t] = "reproduced"
                 PROVE  /\ child[t].code = Injected
                        /\ evidence[home] = Descriptor(child[t])
                        /\ ~resumed =>
                            /\ crashSite[t].manifests = crashSite[origin].manifests
                            /\ crashSite[t].results = crashSite[origin].results
        BY DEF VerdictSound
    <2>1. child[t].code = Injected /\ evidence[home] = Descriptor(child[t])
        BY DEF Inv, Reported
    <2>2. Seen(child[t], crashSite[t])
        BY <2>1, Sites DEF Inv, Tool, ToolOK, Linked
    <2>3. /\ evidence[home] = Descriptor(child[origin]) /\ Seen(child[origin], crashSite[origin])
          /\ ~resumed => child[origin].trace[1][3].seq = 0
        BY <2>1, Taken DEF Inv, Origin
    <2>4. child[t].trace = child[origin].trace /\ child[t].cfg.n = child[origin].cfg.n
        BY <2>1, <2>3 DEF Descriptor
    <2> QED BY <2>1, <2>2, <2>3, <2>4 DEF Seen
<1> QED BY <1>1, Inductive, PTL

\* The evidence of a failure stays as it was linked, whoever comes after: the only
\* step that writes a path is link(), and it refuses a path that is taken.
THEOREM EvidenceStands == Spec => EvidenceImmutable
<1>1. Inv /\ [Next]_vars =>
        [\A p \in Paths : evidence[p] # NoEvidence => evidence'[p] = evidence[p]]_vars
    <2> SUFFICES ASSUME Inv, [Next]_vars, NEW p \in Paths, evidence[p] # NoEvidence
                 PROVE  evidence'[p] = evidence[p]
        OBVIOUS
    <2>1. CASE UNCHANGED vars
        BY <2>1 DEF vars, childVars
    <2>2. CASE StartEarlier \/ StartOriginal \/ EndOriginal
        BY <2>2 DEF StartEarlier, StartOriginal, EndOriginal, childVars
    <2>3. ASSUME NEW t \in Replays, StartReplay(t) \/ Judge(t)
          PROVE  evidence'[p] = evidence[p]
        BY <2>3 DEF StartReplay, Judge, childVars
    <2>4. ASSUME NEW t \in Tools, Supervise(t)
          PROVE  evidence'[p] = evidence[p]
        BY <2>4 DEF Supervise, WatchdogStep, Poll, CheckClock, Reap, Expire, childVars
    <2>5. ASSUME NEW t \in Tools, RunChild(t)
          PROVE  evidence'[p] = evidence[p]
        <3>0. ChildStep(t)
            BY <2>5 DEF RunChild
        <3>1. CASE LinkEvidence(t)
            <4>1. CASE evidence[child[t].path] # NoEvidence
                BY <3>1, <4>1 DEF LinkEvidence, LinkNoReplace, Throw
            <4>2. CASE evidence[child[t].path] = NoEvidence
                BY <3>1, <4>2, PlacesAssumption DEF LinkEvidence, LinkNoReplace, Inv, Shape
            <4> QED BY <4>1, <4>2
        <3>2. CASE ~LinkEvidence(t)
            <4>1. UNCHANGED evidence
                BY <3>0, <3>2
                DEF ChildStep, Construct, Open, Scan, Cleanup, Advance, Settle, AllReceived,
                    Return, Receive, WriteEvidence, Crash, EvidenceError, Throw, Quiet
            <4> QED BY <4>1
        <3> QED BY <3>1, <3>2
    <2> QED BY <2>1, <2>2, <2>3, <2>4, <2>5 DEF Next
<1> QED BY <1>1, Inductive, PTL DEF Spec, EvidenceImmutable
-----------------------------------------------------------------------------
(* The script of a fresh run with one worker *)

StageNames == <<"written", "fsynced", "closed", "renamed", "installed">>
StageNumber == [begin |-> 0, written |-> 1, fsynced |-> 2, closed |-> 3, renamed |-> 4,
                installed |-> 5]

\* The events of the result of block d, and of the manifest with sequence s.
ResultEvent(k, d) ==
    <<"result", StageNames[k], [inc |-> 1, block |-> d, seq |-> None]>>
ManifestEvent(k, s) ==
    <<"manifest", StageNames[k], [inc |-> 1, block |-> None, seq |-> s]>>

\* Before the i-th event of the script come the first manifest (four events), d
\* results (four each) and c checkpoints (five each), one after iv blocks.
FirstManifestAt(i, e) == \E k \in 1 .. 4 : i = k /\ e = ManifestEvent(k, 0)
ResultAt(i, e, n, iv) ==
    \E d, c \in 0 .. n, k \in 1 .. 4 :
        /\ d < n /\ c * iv <= d /\ d < (c + 1) * iv
        /\ i = 4 + 4 * d + 5 * c + k /\ e = ResultEvent(k, d)
NextManifestAt(i, e, n, iv) ==
    \E d, c \in 0 .. n, k \in 1 .. 5 :
        /\ c * iv < d /\ d <= (c + 1) * iv /\ (d = (c + 1) * iv \/ d = n)
        /\ i = 4 + 4 * d + 5 * c + k /\ e = ManifestEvent(k, c + 1)
Placed(i, e, n, iv) ==
    FirstManifestAt(i, e) \/ ResultAt(i, e, n, iv) \/ NextManifestAt(i, e, n, iv)

Scripted(tr, n, iv) == \A i \in 1 .. Len(tr) : Placed(i, tr[i], n, iv)

\* The events at which the injector counts a hit.
HitSet(tr, p) == {i \in 1 .. Len(tr) : <<tr[i][1], tr[i][2]>> = p}

\* Hooks passed in the install under way; only a checkpoint has a fifth.
Passed(stage, last) == IF StageNumber[stage] <= last THEN StageNumber[stage] ELSE last

\* Where a child is in the script when it has committed d blocks to memory.
InScript(r, d) ==
    LET n == r.cfg.n
        iv == r.cfg.interval
        past == 4 + 4 * d + 5 * r.seq
        l == Len(r.trace) IN
    /\ r.inc = 1 /\ r.done = {<<b, 1>> : b \in 0 .. d - 1}
    /\ r.pc = "initial" => /\ d = 0 /\ r.seq = 0 /\ r.status = "running"
                           /\ l = Passed(r.stage, 4)
    /\ r.pc = "cleanup" => d = 0 /\ r.seq = 0 /\ r.status = "running" /\ l = 4
    /\ r.pc \in {"running", "record", "checkpoint", "finish"} =>
        r.pending \in 0 .. iv /\ r.seq * iv + r.pending = d
    /\ r.pc = "running" => /\ r.pending < iv \/ d = n
                           /\ d = n => r.pending > 0
                           /\ l = past
    /\ r.pc = "record" => /\ d < n /\ r.pending < iv /\ r.block = d
                          /\ l = past + Passed(r.stage, 4)
    /\ r.pc = "checkpoint" => d < n /\ r.pending = iv /\ l = past + Passed(r.stage, 5)
    /\ r.pc = "finish" => d = n /\ r.pending > 0 /\ l = past + Passed(r.stage, 5)
    /\ r.pc = "return" =>
        \E c \in Nat : c * iv < n /\ n <= (c + 1) * iv /\ l = 4 + 4 * n + 5 * c + 5
    /\ r.pc # "recovery"

\* The injector of a child follows the script up to the hit that was asked for.
Sane(cfg) ==
    /\ DOMAIN cfg = {"n", "interval", "workers", "point", "occurrence"}
    /\ cfg.n \in Nat \ {0} /\ cfg.interval \in Nat /\ cfg.occurrence \in Nat
Counted(r) ==
    /\ r.cfg.workers = 1 /\ r.cfg.interval > 0 /\ r.cfg.occurrence > 0 /\ r.cfg.point # None
    /\ r.hits = Cardinality(HitSet(r.trace, r.cfg.point))
    /\ Scripted(r.trace, r.cfg.n, r.cfg.interval)
    /\ IF r.pc \in Dying
         THEN r.hits = r.cfg.occurrence /\ Len(r.trace) \in HitSet(r.trace, r.cfg.point)
         ELSE r.hits < r.cfg.occurrence
Follows(r) ==
    /\ Sane(r.cfg)
    /\ r.enabled => /\ Counted(r)
                    /\ r.pc \in Opened => \E d \in 0 .. r.cfg.n : InScript(r, d)

-----------------------------------------------------------------------------
(* A replay that nobody disturbs *)

Alone(t) == ~resumed /\ errors = 0 /\ \A o \in Replays \ {t} : child[o].state = "none"

\* Its child was asked for what the evidence says, and found an empty directory.
Faithful(r, e) ==
    /\ Follows(r) /\ Readable(e)
    /\ r.cfg.n = e.n /\ r.cfg.interval = e.interval /\ r.cfg.workers = e.workers
    /\ r.cfg.point = e.point /\ r.cfg.occurrence = e.occurrence
    /\ r.pc # "construct" => r.enabled
    /\ r.state \in {"zombie", "reaped"} => r.code \in {Injected, Signal}
Solo(t) ==
    LET r == child[t] IN
    /\ r.state # "none" =>
        /\ Faithful(r, evidence[home]) /\ phase[origin] = "ended"
    /\ r.state = "running" =>
        /\ r.pc \in Opening => store[target].manifests = {}
        /\ r.pc # "sync" => evidence[target] = NoEvidence
    /\ wait[t] = "exited" => r.code # Signal
    /\ phase[t] = "replaying" => r.state # "none"
    /\ phase[t] = "ended" =>
        \/ verdict[t] \in {"reproduced", "timeout"}
        \/ evidence[home] = NoEvidence /\ phase[origin] = "ended"

\* Whoever has left evidence was in the hook that was asked for.
InHook(r) == r.code = Injected => r.pc = "sync"

Fixed ==
    /\ ~resumed /\ child[origin].state # "none" => Follows(child[origin])
    /\ evidence[home] # NoEvidence => child[origin].pc = "sync"
    /\ errors \in Nat
    /\ \A t \in Replays : /\ InHook(child[t])
                          /\ phase[t] \in {"start", "replaying", "ended"}
                          /\ Alone(t) => Solo(t)

\* Nobody has been in the target before the first replay, or is at home after
\* the original.
Unvisited ==
    /\ (\A o \in Replays : child[o].state = "none")
         => store[target] = EmptyStore /\ evidence[target] = NoEvidence
    /\ phase[origin] = "ended" => child[origin].state = "reaped"

-----------------------------------------------------------------------------
(* The script fixes every event *)

\* Checkpoints are counted in the order of the blocks.
LEMMA Cadences ==
    ASSUME NEW a \in Nat, NEW b \in Nat, NEW iv \in Nat, a * iv < (b + 1) * iv
    PROVE  a <= b
<1> SUFFICES ASSUME a >= b + 1 PROVE FALSE
    OBVIOUS
<1>1. PICK x \in Nat : a = (b + 1) + x
    <2>1. a - (b + 1) \in Nat /\ a = (b + 1) + (a - (b + 1))
        OBVIOUS
    <2> QED BY <2>1
<1>2. a * iv = (b + 1) * iv + x * iv
    BY <1>1
<1>3. x * iv \in Nat /\ (b + 1) * iv \in Nat
    OBVIOUS
<1> QED BY <1>2, <1>3

\* Two result events at one place are one event.
LEMMA TwoResults ==
    ASSUME NEW n \in Nat, NEW iv \in Nat \ {0}, NEW i, NEW e, NEW f,
           ResultAt(i, e, n, iv), ResultAt(i, f, n, iv)
    PROVE  e = f
<1>1. PICK d1 \in 0 .. n, c1 \in 0 .. n, k1 \in 1 .. 4 :
        /\ d1 < n /\ c1 * iv <= d1 /\ d1 < (c1 + 1) * iv
        /\ i = 4 + 4 * d1 + 5 * c1 + k1 /\ e = ResultEvent(k1, d1)
    BY DEF ResultAt
<1>2. PICK d2 \in 0 .. n, c2 \in 0 .. n, k2 \in 1 .. 4 :
        /\ d2 < n /\ c2 * iv <= d2 /\ d2 < (c2 + 1) * iv
        /\ i = 4 + 4 * d2 + 5 * c2 + k2 /\ f = ResultEvent(k2, d2)
    BY DEF ResultAt
<1> DEFINE a1 == c1 * iv
           b1 == (c1 + 1) * iv
           a2 == c2 * iv
           b2 == (c2 + 1) * iv
<1>3. a1 \in Nat /\ b1 \in Nat /\ a2 \in Nat /\ b2 \in Nat
    OBVIOUS
<1>4. (a1 < b2 => c1 <= c2) /\ (a2 < b1 => c2 <= c1)
    BY Cadences
<1>5. a1 <= d1 /\ d1 < b1 /\ a2 <= d2 /\ d2 < b2
    BY <1>1, <1>2
<1> HIDE DEF a1, b1, a2, b2
<1>6. d1 <= d2 => c1 <= c2
    BY <1>3, <1>4, <1>5
<1>7. d2 <= d1 => c2 <= c1
    BY <1>3, <1>4, <1>5
<1>8. d1 = d2 /\ k1 = k2
    BY <1>1, <1>2, <1>6, <1>7
<1> QED BY <1>1, <1>2, <1>8

\* Two checkpoint events at one place are one event.
LEMMA TwoManifests ==
    ASSUME NEW n \in Nat, NEW iv \in Nat \ {0}, NEW i, NEW e, NEW f,
           NextManifestAt(i, e, n, iv), NextManifestAt(i, f, n, iv)
    PROVE  e = f
<1>1. PICK d1 \in 0 .. n, c1 \in 0 .. n, k1 \in 1 .. 5 :
        /\ c1 * iv < d1 /\ d1 <= (c1 + 1) * iv /\ (d1 = (c1 + 1) * iv \/ d1 = n)
        /\ i = 4 + 4 * d1 + 5 * c1 + k1 /\ e = ManifestEvent(k1, c1 + 1)
    BY DEF NextManifestAt
<1>2. PICK d2 \in 0 .. n, c2 \in 0 .. n, k2 \in 1 .. 5 :
        /\ c2 * iv < d2 /\ d2 <= (c2 + 1) * iv /\ (d2 = (c2 + 1) * iv \/ d2 = n)
        /\ i = 4 + 4 * d2 + 5 * c2 + k2 /\ f = ManifestEvent(k2, c2 + 1)
    BY DEF NextManifestAt
<1> DEFINE a1 == c1 * iv
           b1 == (c1 + 1) * iv
           a2 == c2 * iv
           b2 == (c2 + 1) * iv
<1>3. a1 \in Nat /\ b1 \in Nat /\ a2 \in Nat /\ b2 \in Nat
    OBVIOUS
<1>4. (a1 < b2 => c1 <= c2) /\ (a2 < b1 => c2 <= c1)
    BY Cadences
<1>5. (b1 < b2 => c1 + 1 <= c2) /\ (b2 < b1 => c2 + 1 <= c1)
    BY Cadences
<1>6. /\ a1 < d1 /\ d1 <= b1 /\ (d1 = b1 \/ d1 = n)
      /\ a2 < d2 /\ d2 <= b2 /\ (d2 = b2 \/ d2 = n)
    BY <1>1, <1>2
<1> HIDE DEF a1, b1, a2, b2
<1>7. d1 < d2 => c1 + 1 <= c2
    BY <1>3, <1>5, <1>6
<1>8. d2 < d1 => c2 + 1 <= c1
    BY <1>3, <1>5, <1>6
<1>9. d1 = d2 => c1 = c2
    BY <1>3, <1>4, <1>6
<1>10. d1 = d2
    BY <1>1, <1>2, <1>7, <1>8
<1>11. c1 = c2 /\ k1 = k2
    BY <1>1, <1>2, <1>9, <1>10
<1> QED BY <1>1, <1>2, <1>11

\* No place holds a result event and a checkpoint event.
LEMMA NotBoth ==
    ASSUME NEW n \in Nat, NEW iv \in Nat \ {0}, NEW i, NEW e, NEW f,
           ResultAt(i, e, n, iv), NextManifestAt(i, f, n, iv)
    PROVE  FALSE
<1>1. PICK d1 \in 0 .. n, c1 \in 0 .. n, k1 \in 1 .. 4 :
        /\ d1 < n /\ c1 * iv <= d1 /\ d1 < (c1 + 1) * iv
        /\ i = 4 + 4 * d1 + 5 * c1 + k1 /\ e = ResultEvent(k1, d1)
    BY DEF ResultAt
<1>2. PICK d2 \in 0 .. n, c2 \in 0 .. n, k2 \in 1 .. 5 :
        /\ c2 * iv < d2 /\ d2 <= (c2 + 1) * iv /\ (d2 = (c2 + 1) * iv \/ d2 = n)
        /\ i = 4 + 4 * d2 + 5 * c2 + k2 /\ f = ManifestEvent(k2, c2 + 1)
    BY DEF NextManifestAt
<1> DEFINE a1 == c1 * iv
           b1 == (c1 + 1) * iv
           b2 == (c2 + 1) * iv
<1>3. a1 \in Nat /\ b1 \in Nat /\ b2 \in Nat
    OBVIOUS
<1>4. (a1 < b2 => c1 <= c2) /\ (b2 < b1 => c2 + 1 <= c1)
    BY Cadences
<1>6. /\ a1 <= d1 /\ d1 < b1 /\ d1 < n /\ d2 <= b2 /\ (d2 = b2 \/ d2 = n)
    BY <1>1, <1>2
<1> HIDE DEF a1, b1, b2
<1>7. d1 < d2 => c1 <= c2
    BY <1>3, <1>4, <1>6
<1>8. d2 <= d1 => c2 + 1 <= c1
    BY <1>3, <1>4, <1>6
<1> QED BY <1>1, <1>2, <1>7, <1>8

\* No two events have the same place.
LEMMA OnePlace ==
    ASSUME NEW n \in Nat, NEW iv \in Nat \ {0}, NEW i, NEW e, NEW f,
           Placed(i, e, n, iv), Placed(i, f, n, iv)
    PROVE  e = f
<1>1. ASSUME NEW x, FirstManifestAt(i, x) PROVE i \in 1 .. 4 /\ x = ManifestEvent(i, 0)
    BY <1>1 DEF FirstManifestAt
<1>2. ASSUME NEW x, ResultAt(i, x, n, iv) \/ NextManifestAt(i, x, n, iv)
      PROVE  i \in Nat /\ i > 4
    BY <1>2 DEF ResultAt, NextManifestAt
<1>3. CASE FirstManifestAt(i, e) \/ FirstManifestAt(i, f)
    BY <1>1, <1>2, <1>3 DEF Placed
<1>4. CASE ~(FirstManifestAt(i, e) \/ FirstManifestAt(i, f))
    BY <1>4, TwoResults, TwoManifests, NotBoth DEF Placed
<1> QED BY <1>3, <1>4

\* The last event of a whole script, which ends with the last stage of a manifest.
LEMMA LastPlace ==
    ASSUME NEW n \in Nat \ {0}, NEW iv \in Nat \ {0}, NEW i, NEW e, NEW c \in Nat,
           Placed(i, e, n, iv), n <= (c + 1) * iv
    PROVE  i <= 4 + 4 * n + 5 * c + 5
<1>1. CASE FirstManifestAt(i, e)
    BY <1>1 DEF FirstManifestAt
<1>2. CASE ResultAt(i, e, n, iv)
    <2>1. PICK d1 \in 0 .. n, c1 \in 0 .. n, k1 \in 1 .. 4 :
            /\ d1 < n /\ c1 * iv <= d1 /\ i = 4 + 4 * d1 + 5 * c1 + k1
        BY <1>2 DEF ResultAt
    <2>2. c1 * iv \in Nat /\ (c + 1) * iv \in Nat
        OBVIOUS
    <2>3. c1 * iv < (c + 1) * iv
        BY <2>1, <2>2
    <2>4. c1 <= c
        BY <2>3, Cadences
    <2> QED BY <2>1, <2>4
<1>3. CASE NextManifestAt(i, e, n, iv)
    <2>1. PICK d1 \in 0 .. n, c1 \in 0 .. n, k1 \in 1 .. 5 :
            /\ c1 * iv < d1 /\ i = 4 + 4 * d1 + 5 * c1 + k1
        BY <1>3 DEF NextManifestAt
    <2>2. c1 * iv \in Nat /\ (c + 1) * iv \in Nat
        OBVIOUS
    <2>3. c1 * iv < (c + 1) * iv
        BY <2>1, <2>2
    <2>4. c1 <= c
        BY <2>3, Cadences
    <2> QED BY <2>1, <2>4
<1> QED BY <1>1, <1>2, <1>3 DEF Placed

\* The hits of a trace are finite in number.
LEMMA HitsFinite ==
    ASSUME NEW tr \in Seq(Events), NEW p
    PROVE  IsFiniteSet(HitSet(tr, p)) /\ Cardinality(HitSet(tr, p)) \in Nat
<1>1. IsFiniteSet(1 .. Len(tr))
    <2>1. 1 \in Int /\ Len(tr) \in Int
        OBVIOUS
    <2> QED BY ONLY <2>1, FS_Interval
<1>2. HitSet(tr, p) \subseteq 1 .. Len(tr)
    BY DEF HitSet
<1>3. IsFiniteSet(HitSet(tr, p))
    BY <1>1, <1>2, FS_Subset
<1> QED BY <1>3, FS_CardinalityType

\* The hits of a prefix.
LEMMA Prefixes ==
    ASSUME NEW a \in Seq(Events), NEW b \in Seq(Events), NEW p,
           NEW n \in Nat, NEW iv \in Nat \ {0},
           Scripted(a, n, iv), Scripted(b, n, iv), Len(a) <= Len(b)
    PROVE  /\ \A i \in 1 .. Len(a) : a[i] = b[i]
           /\ HitSet(a, p) \subseteq HitSet(b, p)
           /\ Cardinality(HitSet(a, p)) <= Cardinality(HitSet(b, p))
<1>1. ASSUME NEW i \in 1 .. Len(a) PROVE a[i] = b[i] /\ i \in 1 .. Len(b)
    <2>1. i \in 1 .. Len(b)
        OBVIOUS
    <2>2. Placed(i, a[i], n, iv) /\ Placed(i, b[i], n, iv)
        BY <2>1 DEF Scripted
    <2> QED BY <2>1, <2>2, OnePlace
<1>2. HitSet(a, p) \subseteq HitSet(b, p)
    BY <1>1 DEF HitSet
<1>3. Cardinality(HitSet(a, p)) <= Cardinality(HitSet(b, p))
    BY <1>2, HitsFinite, FS_Subset
<1> QED BY <1>1, <1>2, <1>3

\* Of two traces that end at the same hit none is longer.
LEMMA NotLonger ==
    ASSUME NEW a \in Seq(Events), NEW b \in Seq(Events), NEW p,
           NEW n \in Nat, NEW iv \in Nat \ {0},
           Scripted(a, n, iv), Scripted(b, n, iv), Len(b) \in HitSet(b, p),
           Cardinality(HitSet(a, p)) = Cardinality(HitSet(b, p))
    PROVE  ~(Len(a) < Len(b))
<1> SUFFICES ASSUME Len(a) < Len(b) PROVE FALSE
    OBVIOUS
<1> DEFINE A == HitSet(a, p)
           B == HitSet(b, p)
<1>1. A \subseteq B
    BY Prefixes
<1>2. Len(b) \notin A
    BY DEF HitSet
<1>3. IsFiniteSet(B) /\ Cardinality(A) \in Nat /\ Cardinality(B) \in Nat /\ Len(b) \in B
    BY HitsFinite
<1> HIDE DEF A, B
<1>4. A \subseteq B \ {Len(b)}
    BY <1>1, <1>2
<1>5. Cardinality(B \ {Len(b)}) = Cardinality(B) - 1 /\ IsFiniteSet(B \ {Len(b)})
    BY <1>3, FS_RemoveElement
<1>6. Cardinality(A) <= Cardinality(B \ {Len(b)})
    BY <1>4, <1>5, FS_Subset
<1> QED BY <1>3, <1>5, <1>6 DEF A, B

\* Two runs that follow the script to the same hit have the same trace.
LEMMA OneTrace ==
    ASSUME NEW a \in Seq(Events), NEW b \in Seq(Events), NEW p,
           NEW n \in Nat, NEW iv \in Nat \ {0},
           Scripted(a, n, iv), Scripted(b, n, iv),
           Len(a) \in HitSet(a, p), Len(b) \in HitSet(b, p),
           Cardinality(HitSet(a, p)) = Cardinality(HitSet(b, p))
    PROVE  a = b
<1>1. Len(a) = Len(b)
    <2>1. ~(Len(a) < Len(b)) /\ ~(Len(b) < Len(a))
        BY NotLonger
    <2> QED BY <2>1
<1>2. \A i \in 1 .. Len(a) : a[i] = b[i]
    BY <1>1, Prefixes
<1> QED BY <1>1, <1>2

\* A script that has come to its end has met every hit of any other.
LEMMA AllMet ==
    ASSUME NEW a \in Seq(Events), NEW b \in Seq(Events), NEW p,
           NEW n \in Nat \ {0}, NEW iv \in Nat \ {0}, NEW c \in Nat,
           Scripted(a, n, iv), Scripted(b, n, iv), n <= (c + 1) * iv,
           Len(b) = 4 + 4 * n + 5 * c + 5
    PROVE  Cardinality(HitSet(a, p)) <= Cardinality(HitSet(b, p))
<1>1. Len(a) <= Len(b)
    <2>1. CASE Len(a) = 0
        BY <2>1
    <2>2. CASE Len(a) # 0
        <3>1. Len(a) \in 1 .. Len(a)
            BY <2>2
        <3>2. Placed(Len(a), a[Len(a)], n, iv)
            BY <3>1 DEF Scripted
        <3> QED BY <3>2, LastPlace
    <2> QED BY <2>1, <2>2
<1> QED BY <1>1, Prefixes

\* One more event in its place.
LEMMA ScriptGrows ==
    ASSUME NEW tr \in Seq(Events), NEW e \in Events, NEW n, NEW iv, NEW p,
           Scripted(tr, n, iv), Placed(Len(tr) + 1, e, n, iv)
    PROVE  /\ Scripted(Append(tr, e), n, iv)
           /\ LET H == HitSet(Append(tr, e), p) IN
              IF <<e[1], e[2]>> = p
                THEN /\ Cardinality(H) = Cardinality(HitSet(tr, p)) + 1
                     /\ Len(Append(tr, e)) \in H
                ELSE Cardinality(H) = Cardinality(HitSet(tr, p))
<1> DEFINE b == Append(tr, e)
           l == Len(tr) + 1
<1>1. /\ b \in Seq(Events) /\ Len(b) = l /\ Len(tr) \in Nat
      /\ b[l] = e /\ \A i \in 1 .. Len(tr) : b[i] = tr[i]
    BY OneMore
<1> HIDE DEF b
<1>2. 1 .. l = (1 .. Len(tr)) \cup {l} /\ l \notin 1 .. Len(tr)
    BY <1>1
<1>3. Scripted(b, n, iv)
    BY <1>1, <1>2 DEF Scripted
<1>4. CASE <<e[1], e[2]>> = p
    <2>1. HitSet(b, p) = HitSet(tr, p) \cup {l} /\ l \notin HitSet(tr, p)
        BY <1>1, <1>2, <1>4 DEF HitSet
    <2>2. Cardinality(HitSet(b, p)) = Cardinality(HitSet(tr, p)) + 1
        BY <2>1, HitsFinite, FS_AddElement
    <2> QED BY <1>1, <1>3, <1>4, <2>1, <2>2 DEF b
<1>5. CASE <<e[1], e[2]>> # p
    <2>1. HitSet(b, p) = HitSet(tr, p)
        BY <1>1, <1>2, <1>5 DEF HitSet
    <2> QED BY <1>3, <1>5, <2>1 DEF b
<1> QED BY <1>4, <1>5

\* The blocks in memory.
LEMMA Committed ==
    ASSUME NEW d \in Nat
    PROVE  LET done == {<<b, 1>> : b \in 0 .. d - 1} IN
           /\ IsFiniteSet(done) /\ Cardinality(done) = d
           /\ {e[1] : e \in done} = 0 .. d - 1
           /\ done \cup {<<d, 1>>} = {<<b, 1>> : b \in 0 .. (d + 1) - 1}
<1> DEFINE done == {<<b, 1>> : b \in 0 .. d - 1}
           f == [b \in 0 .. d - 1 |-> <<b, 1>>]
<1>1. f \in Bijection(0 .. d - 1, done)
    <2>1. /\ f \in [0 .. d - 1 -> done] /\ DOMAIN f = 0 .. d - 1
          /\ \A b \in 0 .. d - 1 : f[b] = <<b, 1>>
        OBVIOUS
    <2>2. \A e \in done : \E b \in 0 .. d - 1 : f[b] = e
        OBVIOUS
    <2> HIDE DEF f, done
    <2>3. \A a, b \in 0 .. d - 1 : f[a] = f[b] => a = b
        BY <2>1
    <2>4. f \in Surjection(0 .. d - 1, done)
        BY <2>1, <2>2 DEF Surjection
    <2>5. f \in Injection(0 .. d - 1, done)
        BY <2>1, <2>3 DEF Injection, IsInjective
    <2> QED BY <2>4, <2>5 DEF Bijection
<1>2. IsFiniteSet(0 .. d - 1) /\ Cardinality(0 .. d - 1) = d
    <2>1. d \in Nat
        OBVIOUS
    <2> QED BY ONLY <2>1, FS_Interval
<1>3. IsFiniteSet(done) /\ Cardinality(done) = d
    <2> HIDE DEF f, done
    <2>1. ExistsBijection(0 .. d - 1, done)
        BY <1>1 DEF ExistsBijection
    <2> QED BY <1>2, <2>1, FS_Bijection
<1>4. {e[1] : e \in done} = 0 .. d - 1
    <2>1. \A e \in done : e[1] \in 0 .. d - 1
        OBVIOUS
    <2>2. \A b \in 0 .. d - 1 : <<b, 1>> \in done /\ <<b, 1>>[1] = b
        OBVIOUS
    <2> HIDE DEF done
    <2> QED BY <2>1, <2>2
<1>5. 0 .. (d + 1) - 1 = (0 .. d - 1) \cup {d}
    OBVIOUS
<1>6. done \cup {<<d, 1>>} = {<<b, 1>> : b \in 0 .. (d + 1) - 1}
    BY <1>5
<1> QED BY <1>3, <1>4, <1>6

-----------------------------------------------------------------------------
(* A child in the script *)

\* A step that changes no field but those of S.
Keeps(q, r, S) == DOMAIN q = Fields /\ \A f \in Fields \ S : q[f] = r[f]

\* What the injector counts depends on no other field.
LEMMA SameCount ==
    ASSUME NEW r, NEW q, q.cfg = r.cfg, q.hits = r.hits, q.trace = r.trace, Counted(r),
           q.pc \in Dying <=> r.pc \in Dying
    PROVE  Counted(q)
BY DEF Counted

\* Memory moves and the injector does not: the place in the script is shown anew.
LEMMA Moves ==
    ASSUME NEW r, NEW q, Follows(r), q.cfg = r.cfg, q.enabled = r.enabled,
           q.hits = r.hits, q.trace = r.trace, q.pc \in Dying <=> r.pc \in Dying,
           r.enabled /\ q.pc \in Opened => \E d \in 0 .. r.cfg.n : InScript(q, d)
    PROVE  Follows(q)
BY SameCount DEF Follows

\* The injector is made.
LEMMA ConstructFollows ==
    ASSUME NEW r, NEW q, Sane(r.cfg), r.cfg.workers = 1, r.cfg.occurrence # 0,
           r.cfg.point # None,
           q.cfg = [r.cfg EXCEPT !.interval = Cadence(r.cfg)],
           q.hits = 0, q.trace = <<>>, q.pc = "open"
    PROVE  Follows(q)
<1>1. /\ q.cfg.n = r.cfg.n /\ q.cfg.workers = 1 /\ q.cfg.occurrence = r.cfg.occurrence
      /\ q.cfg.interval = Cadence(r.cfg) /\ DOMAIN q.cfg = DOMAIN r.cfg
      /\ q.cfg.point = r.cfg.point
    BY DEF Sane
<1>2. Cadence(r.cfg) \in Nat /\ Cadence(r.cfg) > 0
    BY RunAssumption DEF Cadence, Sane
<1>3. HitSet(q.trace, q.cfg.point) = {} /\ Scripted(q.trace, q.cfg.n, q.cfg.interval)
    <2>1. Len(q.trace) = 0 /\ 1 .. 0 = {}
        OBVIOUS
    <2> QED BY <2>1 DEF HitSet, Scripted
<1>4. Cardinality({}) = 0
    BY FS_EmptySet
<1>5. q.pc \notin Dying \cup Opened
    BY Kinds
<1>6. Sane(q.cfg)
    BY <1>1, <1>2 DEF Sane
<1>7. Counted(q)
    <2>1. 0 < q.cfg.occurrence
        BY <1>1 DEF Sane
    <2>2. 0 = Cardinality(HitSet(q.trace, q.cfg.point))
        BY <1>3, <1>4
    <2> QED BY <1>1, <1>2, <1>3, <1>5, <2>1, <2>2 DEF Counted
<1> QED BY <1>5, <1>6, <1>7 DEF Follows

\* No manifest was found.
LEMMA ScanFollows ==
    ASSUME NEW r, NEW q, Typed(r), Follows(r), r.pc = "scan",
           Keeps(q, r, {"stage", "pc", "seq", "inc", "status", "done"}),
           q.pc = "initial", q.stage = "begin", q.seq = 0, q.inc = 1, q.status = "running",
           q.done = {}
    PROVE  Follows(q)
<1>1. q.cfg = r.cfg /\ q.enabled = r.enabled /\ q.hits = r.hits /\ q.trace = r.trace
    BY DEF Keeps, Fields
<1>2. r.trace = <<>>
    BY Kinds DEF Typed
<1>3. {<<b, 1>> : b \in 0 .. 0 - 1} = {}
    <2>1. 0 .. 0 - 1 = {}
        OBVIOUS
    <2> QED BY <2>1
<1>4. Passed("begin", 4) = 0
    BY DEF Passed, StageNumber
<1>5. InScript(q, 0)
    BY <1>1, <1>2, <1>3, <1>4 DEF InScript
<1>6. 0 \in 0 .. r.cfg.n
    BY DEF Follows, Sane
<1> QED BY <1>1, <1>5, <1>6, Moves, Kinds

\* The directory is clean.
LEMMA CleanupFollows ==
    ASSUME NEW r, NEW q, Typed(r), Follows(r), r.pc = "cleanup",
           Keeps(q, r, {"recovered", "pending", "pc"}), q.pending = 0,
           q.pc = IF r.status = "complete" THEN "return" ELSE "running"
    PROVE  Follows(q)
<1>1. /\ q.cfg = r.cfg /\ q.enabled = r.enabled /\ q.hits = r.hits /\ q.trace = r.trace
      /\ q.inc = r.inc /\ q.done = r.done /\ q.seq = r.seq
    BY DEF Keeps, Fields
<1>2. ASSUME r.enabled PROVE \E d \in 0 .. r.cfg.n : InScript(q, d)
    <2>1. PICK d \in 0 .. r.cfg.n : InScript(r, d)
        BY <1>2, Kinds DEF Follows
    <2>2. /\ d = 0 /\ r.seq = 0 /\ r.status = "running" /\ Len(r.trace) = 4
          /\ r.inc = 1 /\ r.done = {<<b, 1>> : b \in 0 .. d - 1}
        BY <2>1 DEF InScript
    <2>3. r.cfg.n \in Nat \ {0} /\ r.cfg.interval \in Nat /\ r.cfg.interval > 0
        BY <1>2 DEF Follows, Sane, Counted
    <2>4. q.pc = "running"
        BY <2>2
    <2>5. 0 * r.cfg.interval + 0 = 0
        BY <2>3
    <2>6. InScript(q, 0)
        BY <1>1, <2>2, <2>3, <2>4, <2>5 DEF InScript
    <2> QED BY <2>2, <2>6
<1>3. q.pc \notin Dying /\ r.pc \notin Dying
    BY Kinds
<1> QED BY <1>1, <1>2, <1>3, Moves

\* The missing blocks of a child in the script.
LEMMA Rest ==
    ASSUME NEW r, NEW d \in 0 .. r.cfg.n, InScript(r, d), r.cfg.n \in Nat
    PROVE  Missing(r) = d .. r.cfg.n - 1
<1>1. {e[1] : e \in r.done} = 0 .. d - 1
    <2>1. d \in Nat /\ r.done = {<<b, 1>> : b \in 0 .. d - 1}
        BY DEF InScript
    <2>2. {e[1] : e \in {<<b, 1>> : b \in 0 .. d - 1}} = 0 .. d - 1
        BY <2>1, Committed
    <2> QED BY ONLY <2>1, <2>2
<1> QED BY <1>1 DEF Missing, Blocks

\* One worker delivers the blocks in order.
LEMMA ReceiveFollows ==
    ASSUME NEW r, NEW q, NEW b, Typed(r), Follows(r), r.pc = "running",
           b \in Missing(r), r.cfg.workers = 1 => \A o \in Missing(r) : b <= o,
           Keeps(q, r, {"pc", "block", "stage"}),
           q.pc = "record", q.block = b, q.stage = "begin"
    PROVE  Follows(q)
<1>1. /\ q.cfg = r.cfg /\ q.enabled = r.enabled /\ q.hits = r.hits /\ q.trace = r.trace
      /\ q.inc = r.inc /\ q.done = r.done /\ q.seq = r.seq /\ q.pending = r.pending
    BY DEF Keeps, Fields
<1>2. ASSUME r.enabled PROVE \E d \in 0 .. r.cfg.n : InScript(q, d)
    <2>1. PICK d \in 0 .. r.cfg.n : InScript(r, d)
        BY <1>2, Kinds DEF Follows
    <2>2. /\ r.cfg.n \in Nat \ {0} /\ r.cfg.interval \in Nat /\ r.cfg.interval > 0
          /\ r.cfg.workers = 1
        BY <1>2 DEF Follows, Sane, Counted
    <2>3. Missing(r) = d .. r.cfg.n - 1
        BY <2>1, <2>2, Rest
    <2>4. b = d /\ d < r.cfg.n
        BY <2>2, <2>3
    <2>5. Passed("begin", 4) = 0
        BY DEF Passed, StageNumber
    <2>6. 4 + 4 * d + 5 * r.seq + 0 = 4 + 4 * d + 5 * r.seq
        BY DEF Typed
    <2>7. InScript(q, d)
        BY <1>1, <2>1, <2>4, <2>5, <2>6 DEF InScript
    <2> QED BY <2>7
<1>3. q.pc \notin Dying /\ r.pc \notin Dying
    BY Kinds
<1> QED BY <1>1, <1>2, <1>3, Moves

\* An empty range of missing blocks begins after the last block.
LEMMA NoneLeft ==
    ASSUME NEW d \in Nat, NEW n \in Nat, d <= n, d .. n - 1 = {}
    PROVE  d = n
<1>1. d < n => d \in d .. n - 1
    OBVIOUS
<1> QED BY <1>1

\* No block is left: the last checkpoint comes next in the script.
LEMMA AllReceivedFollows ==
    ASSUME NEW r, NEW q, Typed(r), Follows(r), r.pc = "running", Missing(r) = {},
           Keeps(q, r, {"pc", "stage"}), q.pc = "finish", q.stage = "begin"
    PROVE  Follows(q)
<1>1. /\ q.cfg = r.cfg /\ q.enabled = r.enabled /\ q.hits = r.hits /\ q.trace = r.trace
      /\ q.inc = r.inc /\ q.done = r.done /\ q.seq = r.seq /\ q.pending = r.pending
    BY DEF Keeps, Fields
<1>2. ASSUME r.enabled PROVE \E d \in 0 .. r.cfg.n : InScript(q, d)
    <2>1. PICK d \in 0 .. r.cfg.n : InScript(r, d)
        BY <1>2, Kinds DEF Follows
    <2>2. r.cfg.n \in Nat \ {0} /\ r.cfg.interval \in Nat /\ r.cfg.interval > 0
        BY <1>2 DEF Follows, Sane, Counted
    <2>3. Missing(r) = d .. r.cfg.n - 1
        BY <2>1, <2>2, Rest
    <2>4. d = r.cfg.n
        <3>1. d .. r.cfg.n - 1 = {}
            BY <2>3
        <3>2. d \in Nat /\ r.cfg.n \in Nat /\ d <= r.cfg.n
            BY <2>2
        <3> QED BY <3>1, <3>2, NoneLeft
    <2>5. Passed("begin", 5) = 0
        BY DEF Passed, StageNumber
    <2>6. 4 + 4 * d + 5 * r.seq + 0 = 4 + 4 * d + 5 * r.seq
        BY DEF Typed
    <2>7. InScript(q, d)
        BY <1>1, <2>1, <2>4, <2>5, <2>6 DEF InScript
    <2> QED BY <2>7
<1>3. q.pc \notin Dying /\ r.pc \notin Dying
    BY Kinds
<1> QED BY <1>1, <1>2, <1>3, Moves

\* Whole installs have four or five hooks.
LEMMA Whole == Passed("installed", 4) = 4 /\ Passed("installed", 5) = 5
BY DEF Passed, StageNumber

\* The first manifest is installed.
LEMMA InitialFollows ==
    ASSUME NEW r, NEW q, Typed(r), Follows(r), r.pc \in {"initial", "recovery"},
           r.stage = "installed", Keeps(q, r, {"pc", "stage"}), q.pc = "cleanup"
    PROVE  Follows(q)
<1>1. /\ q.cfg = r.cfg /\ q.enabled = r.enabled /\ q.hits = r.hits /\ q.trace = r.trace
      /\ q.inc = r.inc /\ q.done = r.done /\ q.seq = r.seq /\ q.status = r.status
    BY DEF Keeps, Fields
<1>2. ASSUME r.enabled PROVE \E d \in 0 .. r.cfg.n : InScript(q, d)
    <2>1. PICK d \in 0 .. r.cfg.n : InScript(r, d)
        BY <1>2, Kinds DEF Follows
    <2>2. InScript(q, d)
        BY <1>1, <2>1, Whole DEF InScript
    <2> QED BY <2>2
<1>3. q.pc \notin Dying /\ r.pc \notin Dying
    BY Kinds
<1> QED BY <1>1, <1>2, <1>3, Moves

\* A result is installed, and a checkpoint may be due.
LEMMA RecordFollows ==
    ASSUME NEW r, NEW q, Typed(r), Follows(r), r.pc = "record", r.stage = "installed",
           Keeps(q, r, {"pc", "stage", "done", "pending"}),
           q.done = r.done \cup {<<r.block, r.inc>>}, q.pending = r.pending + 1,
           q.pc = IF q.pending >= r.cfg.interval /\ Cardinality(q.done) < r.cfg.n
                    THEN "checkpoint" ELSE "running",
           q.stage = "begin"
    PROVE  Follows(q)
<1>1. /\ q.cfg = r.cfg /\ q.enabled = r.enabled /\ q.hits = r.hits /\ q.trace = r.trace
      /\ q.inc = r.inc /\ q.seq = r.seq
    BY DEF Keeps, Fields
<1>2. ASSUME r.enabled PROVE \E d \in 0 .. r.cfg.n : InScript(q, d)
    <2>1. PICK d \in 0 .. r.cfg.n : InScript(r, d)
        BY <1>2, Kinds DEF Follows
    <2> DEFINE n == r.cfg.n
               iv == r.cfg.interval
               a == r.seq * iv
               past == 4 + 4 * d + 5 * r.seq
    <2>2. /\ n \in Nat \ {0} /\ iv \in Nat /\ iv > 0 /\ r.seq \in Nat
        BY <1>2 DEF Follows, Sane, Counted, Typed
    <2>3. /\ r.inc = 1 /\ r.block = d /\ d < n /\ r.pending \in 0 .. iv /\ r.pending < iv
          /\ r.done = {<<b, 1>> : b \in 0 .. d - 1} /\ a + r.pending = d
          /\ Len(r.trace) = past + 4
        BY <2>1, Whole DEF InScript
    <2>4. q.done = {<<b, 1>> : b \in 0 .. (d + 1) - 1}
        <3>1. d \in Nat /\ q.done = {<<b, 1>> : b \in 0 .. d - 1} \cup {<<d, 1>>}
            BY <2>3
        <3> QED BY ONLY <3>1, Committed
    <2>5. Cardinality(q.done) = d + 1
        <3>1. d + 1 \in Nat
            BY <2>2
        <3>2. Cardinality({<<b, 1>> : b \in 0 .. (d + 1) - 1}) = d + 1
            BY ONLY <3>1, Committed
        <3> QED BY ONLY <2>4, <3>2
    <2>6. a \in Nat /\ r.seq * iv = a
        BY <2>2
    <2> HIDE DEF n, iv, a
    <2>7. q.pending \in 0 .. iv /\ a + q.pending = d + 1 /\ q.pending > 0
        <3>1. a \in Nat /\ iv \in Nat /\ d \in Nat
            BY <2>2, <2>6
        <3>2. r.pending \in 0 .. iv /\ r.pending < iv /\ a + r.pending = d
            BY <2>3
        <3>3. q.pending = r.pending + 1
            OBVIOUS
        <3> QED BY ONLY <3>1, <3>2, <3>3
    <2>8. q.pc = IF q.pending >= iv /\ d + 1 < n THEN "checkpoint" ELSE "running"
        BY <2>5 DEF n, iv
    <2>9. Len(q.trace) = 4 + 4 * (d + 1) + 5 * q.seq
        BY <1>1, <2>2, <2>3
    <2>10. Passed("begin", 5) = 0
        BY DEF Passed, StageNumber
    <2>11. 4 + 4 * (d + 1) + 5 * q.seq + 0 = 4 + 4 * (d + 1) + 5 * q.seq
        BY <1>1, <2>2
    <2>12. /\ q.pc = "running" => (q.pending < iv \/ d + 1 = n)
           /\ q.pc = "checkpoint" => d + 1 < n /\ q.pending = iv
        BY <2>2, <2>3, <2>7, <2>8
    <2>13. q.pc \in {"running", "checkpoint"}
        BY <2>8
    <2>14. q.seq * q.cfg.interval = a /\ q.cfg.n = n /\ q.cfg.interval = iv
        BY <1>1, <2>6 DEF n, iv
    <2>15. InScript(q, d + 1)
        <3>1. /\ q.inc = 1 /\ q.pc \notin {"initial", "cleanup", "record", "finish", "return",
                                          "recovery"}
            BY <1>1, <2>3, <2>13
        <3> QED BY <2>4, <2>7, <2>9, <2>10, <2>11, <2>12, <2>14, <3>1 DEF InScript
    <2>16. d + 1 \in 0 .. r.cfg.n
        BY <2>2, <2>3 DEF n
    <2> QED BY <2>15, <2>16
<1>3. q.pc \notin Dying /\ r.pc \notin Dying
    BY Kinds
<1> QED BY <1>1, <1>2, <1>3, Moves

\* A checkpoint is installed.
LEMMA CheckpointFollows ==
    ASSUME NEW r, NEW q, Typed(r), Follows(r), r.pc = "checkpoint", r.stage = "installed",
           Keeps(q, r, {"pc", "stage", "seq", "pending"}),
           q.seq = r.seq + 1, q.pending = 0, q.pc = "running"
    PROVE  Follows(q)
<1>1. /\ q.cfg = r.cfg /\ q.enabled = r.enabled /\ q.hits = r.hits /\ q.trace = r.trace
      /\ q.inc = r.inc /\ q.done = r.done
    BY DEF Keeps, Fields
<1>2. ASSUME r.enabled PROVE \E d \in 0 .. r.cfg.n : InScript(q, d)
    <2>1. PICK d \in 0 .. r.cfg.n : InScript(r, d)
        BY <1>2, Kinds DEF Follows
    <2> DEFINE n == r.cfg.n
               iv == r.cfg.interval
    <2>2. /\ n \in Nat \ {0} /\ iv \in Nat /\ iv > 0 /\ r.seq \in Nat
        BY <1>2 DEF Follows, Sane, Counted, Typed
    <2>3. /\ d < n /\ r.pending = iv /\ r.seq * iv + r.pending = d
          /\ Len(r.trace) = 4 + 4 * d + 5 * r.seq + 5
        BY <2>1, Whole DEF InScript
    <2>4. q.seq * iv + 0 = d
        <3>1. (r.seq + 1) * iv = r.seq * iv + iv /\ r.seq * iv \in Nat
            BY <2>2
        <3>2. q.seq * iv = d
            BY <2>3, <3>1
        <3> QED BY <3>2
    <2>5. Len(q.trace) = 4 + 4 * d + 5 * q.seq
        BY <1>1, <2>2, <2>3
    <2>6. q.cfg.n = n /\ q.cfg.interval = iv /\ 0 \in 0 .. iv /\ 0 < iv /\ d # n
        BY <1>1, <2>2, <2>3
    <2>7. q.inc = 1 /\ q.done = {<<b, 1>> : b \in 0 .. d - 1}
        BY <1>1, <2>1 DEF InScript
    <2> HIDE DEF n, iv
    <2>8. InScript(q, d)
        BY <2>4, <2>5, <2>6, <2>7 DEF InScript
    <2> QED BY <2>8
<1>3. q.pc \notin Dying /\ r.pc \notin Dying
    BY Kinds
<1> QED BY <1>1, <1>2, <1>3, Moves

\* The last manifest is installed.
LEMMA FinishFollows ==
    ASSUME NEW r, NEW q, Typed(r), Follows(r), r.pc = "finish", r.stage = "installed",
           Keeps(q, r, {"pc", "stage", "seq", "status"}), q.pc = "return"
    PROVE  Follows(q)
<1>1. /\ q.cfg = r.cfg /\ q.enabled = r.enabled /\ q.hits = r.hits /\ q.trace = r.trace
      /\ q.inc = r.inc /\ q.done = r.done
    BY DEF Keeps, Fields
<1>2. ASSUME r.enabled PROVE \E d \in 0 .. r.cfg.n : InScript(q, d)
    <2>1. PICK d \in 0 .. r.cfg.n : InScript(r, d)
        BY <1>2, Kinds DEF Follows
    <2> DEFINE n == r.cfg.n
               iv == r.cfg.interval
               c == r.seq
               a == c * iv
    <2>2. /\ n \in Nat \ {0} /\ iv \in Nat /\ iv > 0 /\ c \in Nat
        BY <1>2 DEF Follows, Sane, Counted, Typed
    <2>3. /\ d = n /\ r.pending > 0 /\ r.pending \in 0 .. iv /\ a + r.pending = d
          /\ Len(r.trace) = 4 + 4 * d + 5 * c + 5
        BY <2>1, Whole DEF InScript
    <2>4. a \in Nat /\ (c + 1) * iv = a + iv
        BY <2>2
    <2>5. a < n /\ n <= a + iv
        <3> HIDE DEF a, n, iv
        <3> QED BY <2>2, <2>3, <2>4
    <2>6. c * iv < n /\ n <= (c + 1) * iv
        BY <2>4, <2>5
    <2>7. Len(q.trace) = 4 + 4 * n + 5 * c + 5
        BY <1>1, <2>3
    <2>8. q.inc = 1 /\ q.done = {<<b, 1>> : b \in 0 .. d - 1}
        BY <1>1, <2>1 DEF InScript
    <2>9. q.cfg.n = n /\ q.cfg.interval = iv
        BY <1>1
    <2> HIDE DEF n, iv, c
    <2>10. InScript(q, d)
        BY <2>2, <2>6, <2>7, <2>8, <2>9 DEF InScript
    <2> QED BY <2>10
<1>3. q.pc \notin Dying /\ r.pc \notin Dying
    BY Kinds
<1> QED BY <1>1, <1>2, <1>3, Moves

\* The injector counts what it hits, and stops at the hit that was asked for.
LEMMA AdvanceHits ==
    ASSUME Inv, NEW t \in Tools, Advance(t)
    PROVE  LET r == child[t]
               s == NextStage[r.stage]
               q == child'[t]
               sel == r.enabled /\ Hooked(r.pc, s) /\ <<Artifact(r.pc), s>> = r.cfg.point
           IN /\ q.hits = IF sel THEN r.hits + 1 ELSE r.hits
              /\ q.pc = IF sel /\ q.hits = r.cfg.occurrence THEN "evidence" ELSE r.pc
<1>0. child[t].state = "running"
    BY DEF Advance
<1> USE <1>0, Now
<1> DEFINE r == child[t]
           s == NextStage[r.stage]
           p == [r EXCEPT !.stage = s]
           q == Hit(p)
<1>1. child' = [child EXCEPT ![t] = q]
    BY DEF Advance, Become
<1>2. child'[t] = q
    BY <1>1 DEF Shape
<1>3. DOMAIN r = Fields
    BY DEF Typed
<1>4. /\ DOMAIN p = Fields /\ p.stage = s /\ p.enabled = r.enabled /\ p.pc = r.pc
      /\ p.hits = r.hits /\ p.cfg = r.cfg
    BY <1>3 DEF Fields
<1> HIDE DEF p, s
<1>5. CASE ~(r.enabled /\ Hooked(r.pc, s))
    <2>1. q = p
        BY <1>4, <1>5 DEF Hit
    <2> QED BY <1>2, <1>4, <1>5, <2>1 DEF s
<1>6. CASE r.enabled /\ Hooked(r.pc, s)
    <2> DEFINE sel == <<Artifact(p.pc), p.stage>> = p.cfg.point
               hits == IF sel THEN p.hits + 1 ELSE p.hits
               tr == Append(p.trace, <<Artifact(p.pc), p.stage, Context(p)>>)
               pc == IF sel /\ hits = p.cfg.occurrence THEN "evidence" ELSE p.pc
    <2>1. q = [p EXCEPT !.trace = tr, !.hits = hits, !.pc = pc]
        BY <1>4, <1>6 DEF Hit
    <2> HIDE DEF tr, hits, sel, pc
    <2>2. q.hits = hits /\ q.pc = pc
        BY <1>4, <2>1 DEF Fields
    <2> HIDE DEF q
    <2> QED BY <1>2, <1>4, <1>6, <2>2 DEF hits, sel, pc, s
<1> QED BY <1>5, <1>6

\* The stages are numbered in order.
LEMMA Numbers ==
    ASSUME NEW s0 \in (Before \cup After) \ {"installed"}
    PROVE  LET s == NextStage[s0] IN
           /\ StageNumber[s0] \in 0 .. 4 /\ StageNumber[s] = StageNumber[s0] + 1
           /\ StageNames[StageNumber[s]] = s
           /\ StageNumber[s] = 5 <=> s = "installed"
<1>1. CASE s0 = "begin"
    BY <1>1 DEF NextStage, StageNumber, StageNames
<1>2. CASE s0 = "written"
    BY <1>2 DEF NextStage, StageNumber, StageNames
<1>3. CASE s0 = "fsynced"
    BY <1>3 DEF NextStage, StageNumber, StageNames
<1>4. CASE s0 = "closed"
    BY <1>4 DEF NextStage, StageNumber, StageNames
<1>5. CASE s0 = "renamed"
    BY <1>5 DEF NextStage, StageNumber, StageNames
<1> QED BY <1>1, <1>2, <1>3, <1>4, <1>5 DEF Before, After

\* There are no more checkpoints than blocks.
LEMMA AtMost == ASSUME NEW a \in Nat, NEW iv \in Nat, iv > 0 PROVE a <= a * iv
<1>1. a * iv = a + a * (iv - 1)
    OBVIOUS
<1>2. iv - 1 \in Nat
    OBVIOUS
<1>3. a * (iv - 1) \in Nat
    BY <1>2
<1> QED BY <1>1, <1>3

\* The event of a hook is the next one of the script.
LEMMA NextPlace ==
    ASSUME NEW r, NEW d \in 0 .. r.cfg.n, Typed(r), InScript(r, d), Sane(r.cfg),
           r.cfg.interval > 0, r.pc \in InstallPcs \ {"meta"}, r.stage # "installed",
           Hooked(r.pc, NextStage[r.stage])
    PROVE  LET s == NextStage[r.stage] IN
           /\ Placed(Len(r.trace) + 1, <<Artifact(r.pc), s, Context(r)>>,
                     r.cfg.n, r.cfg.interval)
           /\ r.pc \in {"initial", "record"} =>
                Passed(r.stage, 4) = StageNumber[r.stage] /\ Passed(s, 4) = StageNumber[s]
           /\ r.pc \in {"checkpoint", "finish"} =>
                Passed(r.stage, 5) = StageNumber[r.stage] /\ Passed(s, 5) = StageNumber[s]
<1> DEFINE s == NextStage[r.stage]
           k == StageNumber[s]
           n == r.cfg.n
           iv == r.cfg.interval
           e == <<Artifact(r.pc), s, Context(r)>>
           i == Len(r.trace) + 1
<1>1. r.stage \in (Before \cup After) \ {"installed"} /\ r.seq \in Nat
    BY DEF Typed
<1>2. /\ StageNumber[r.stage] \in 0 .. 4 /\ k = StageNumber[r.stage] + 1 /\ k \in 1 .. 5
      /\ StageNames[k] = s /\ (k = 5 <=> s = "installed")
    BY <1>1, Numbers
<1>3. s = "installed" => r.pc \in {"checkpoint", "finish"}
    BY DEF Hooked
<1>4. n \in Nat \ {0} /\ iv \in Nat /\ iv > 0
    BY DEF Sane
<1>5. r.inc = 1
    BY DEF InScript
<1> HIDE DEF k, s
<1>6. /\ r.pc \in {"initial", "record"} =>
            /\ k \in 1 .. 4 /\ Passed(r.stage, 4) = k - 1 /\ Passed(s, 4) = k
      /\ r.pc \in {"checkpoint", "finish"} => Passed(r.stage, 5) = k - 1 /\ Passed(s, 5) = k
    BY <1>2, <1>3 DEF Passed, k
<1>7. CASE r.pc = "initial"
    <2>1. Len(r.trace) = k - 1 /\ r.seq = 0
        BY <1>6, <1>7 DEF InScript
    <2>2. Artifact(r.pc) = "manifest" /\ Context(r) = [inc |-> 1, block |-> None, seq |-> 0]
        BY <1>5, <1>7, <2>1 DEF Artifact, Context
    <2>3. e = ManifestEvent(k, 0)
        BY <1>2, <2>2 DEF ManifestEvent
    <2>4. i = k /\ k \in 1 .. 4
        BY <1>2, <1>6, <1>7, <2>1
    <2> HIDE DEF e, i, n, iv
    <2>5. FirstManifestAt(i, e)
        BY <2>3, <2>4 DEF FirstManifestAt
    <2>6. Placed(i, e, n, iv)
        BY <2>5 DEF Placed
    <2> QED BY <1>2, <1>6, <1>7, <2>6 DEF e, i, n, iv, k, s
<1> DEFINE a == r.seq * iv
<1>8. a \in Nat /\ (r.seq + 1) * iv = a + iv /\ r.seq <= a
    BY <1>1, <1>4, AtMost
<1>9. CASE r.pc = "record"
    <2>1. /\ r.pending \in 0 .. iv /\ a + r.pending = d /\ d < n /\ r.pending < iv
          /\ r.block = d /\ Len(r.trace) = 4 + 4 * d + 5 * r.seq + (k - 1)
        BY <1>6, <1>9 DEF InScript
    <2>2. Artifact(r.pc) = "result" /\ Context(r) = [inc |-> 1, block |-> d, seq |-> None]
        BY <1>5, <1>9, <2>1 DEF Artifact, Context
    <2>3. e = ResultEvent(k, d)
        BY <1>2, <2>2 DEF ResultEvent
    <2>4. i = 4 + 4 * d + 5 * r.seq + k /\ k \in 1 .. 4
        BY <1>1, <1>2, <1>6, <1>9, <2>1
    <2> HIDE DEF e, i, n, iv, a
    <2>5. a <= d /\ d < a + iv /\ r.seq \in 0 .. n /\ d \in 0 .. n
        <3>1. a \in Nat /\ iv \in Nat /\ d \in 0 .. n /\ n \in Nat /\ r.seq \in Nat
            BY <1>1, <1>4, <1>8 DEF n
        <3>2. r.pending \in 0 .. iv /\ r.pending < iv /\ a + r.pending = d /\ r.seq <= a
            BY <1>8, <2>1
        <3> QED BY ONLY <3>1, <3>2
    <2>6. r.seq * iv <= d /\ d < (r.seq + 1) * iv
        BY <1>8, <2>5 DEF a
    <2>7. ResultAt(i, e, n, iv)
        BY <2>1, <2>3, <2>4, <2>5, <2>6 DEF ResultAt
    <2>8. Placed(i, e, n, iv)
        BY <2>7 DEF Placed
    <2> QED BY <1>2, <1>6, <1>9, <2>8 DEF e, i, n, iv, k, s
<1>10. CASE r.pc \in {"checkpoint", "finish"}
    <2>1. /\ r.pending \in 0 .. iv /\ a + r.pending = d
          /\ r.pending = iv \/ d = n
          /\ r.pending > 0
          /\ Len(r.trace) = 4 + 4 * d + 5 * r.seq + (k - 1)
        BY <1>4, <1>6, <1>10 DEF InScript
    <2>2. /\ Artifact(r.pc) = "manifest"
          /\ Context(r) = [inc |-> 1, block |-> None, seq |-> r.seq + 1]
        BY <1>5, <1>10, <2>1 DEF Artifact, Context
    <2>3. e = ManifestEvent(k, r.seq + 1)
        BY <1>2, <2>2 DEF ManifestEvent
    <2>4. i = 4 + 4 * d + 5 * r.seq + k
        <3>1. r.seq \in Nat /\ k \in 1 .. 5 /\ d \in Nat
            BY <1>1, <1>2, <1>4
        <3>2. Len(r.trace) = 4 + 4 * d + 5 * r.seq + (k - 1)
            BY <2>1
        <3> DEFINE x == 4 + 4 * d + 5 * r.seq
        <3>3. x \in Nat
            BY <3>1
        <3>4. Len(r.trace) = x + (k - 1)
            BY <3>2
        <3> HIDE DEF x
        <3>5. i = x + k
            BY ONLY <3>1, <3>3, <3>4
        <3> QED BY <3>5 DEF x
    <2> HIDE DEF e, i, n, iv, a
    <2>5. /\ a < d /\ d <= a + iv /\ (d = a + iv \/ d = n)
          /\ r.seq \in 0 .. n /\ d \in 0 .. n
        <3>1. a \in Nat /\ iv \in Nat /\ d \in 0 .. n /\ n \in Nat /\ r.seq \in Nat
            BY <1>1, <1>4, <1>8 DEF n
        <3>2. /\ r.pending \in 0 .. iv /\ r.pending > 0 /\ a + r.pending = d /\ r.seq <= a
              /\ r.pending = iv \/ d = n
            BY <1>8, <2>1
        <3> QED BY ONLY <3>1, <3>2
    <2>6. r.seq * iv < d /\ d <= (r.seq + 1) * iv /\ (d = (r.seq + 1) * iv \/ d = n)
        BY <1>8, <2>5 DEF a
    <2>7. NextManifestAt(i, e, n, iv)
        BY <1>2, <2>3, <2>4, <2>5, <2>6 DEF NextManifestAt
    <2>8. Placed(i, e, n, iv)
        BY <2>7 DEF Placed
    <2> QED BY <1>2, <1>6, <1>10, <2>8 DEF e, i, n, iv, k, s
<1>11. r.pc # "recovery"
    BY DEF InScript
<1> QED BY <1>7, <1>9, <1>10, <1>11, Kinds

\* An install goes on to its next hook.
LEMMA AdvanceFollows ==
    ASSUME NEW r, NEW q, Typed(r), Follows(r),
           r.pc \in InstallPcs, r.stage # "installed",
           Keeps(q, r, {"stage", "hits", "pc", "trace"}), q.stage = NextStage[r.stage],
           r.enabled /\ Hooked(r.pc, q.stage) =>
                q.trace = Append(r.trace, <<Artifact(r.pc), q.stage, Context(r)>>),
           ~(r.enabled /\ Hooked(r.pc, q.stage)) => q.trace = r.trace,
           q.hits = IF r.enabled /\ Hooked(r.pc, q.stage)
                       /\ <<Artifact(r.pc), q.stage>> = r.cfg.point
                      THEN r.hits + 1 ELSE r.hits,
           q.pc = IF /\ r.enabled /\ Hooked(r.pc, q.stage)
                     /\ <<Artifact(r.pc), q.stage>> = r.cfg.point
                     /\ q.hits = r.cfg.occurrence
                    THEN "evidence" ELSE r.pc
    PROVE  Follows(q)
<1>1. /\ q.cfg = r.cfg /\ q.enabled = r.enabled /\ q.inc = r.inc /\ q.done = r.done
      /\ q.seq = r.seq /\ q.status = r.status /\ q.pending = r.pending /\ q.block = r.block
    BY DEF Keeps, Fields
<1>2. r.pc \notin Dying /\ q.pc \in {r.pc, "evidence"} /\ "evidence" \in Dying \ Opened
    BY Kinds
<1>3. CASE ~r.enabled
    BY <1>1, <1>3 DEF Follows
<1>4. CASE r.enabled /\ ~Hooked(r.pc, q.stage)
    <2>1. q.hits = r.hits /\ q.pc = r.pc /\ q.trace = r.trace
        BY <1>4
    <2>2. ASSUME r.pc \in Opened PROVE \E d \in 0 .. r.cfg.n : InScript(q, d)
        <3>1. PICK d \in 0 .. r.cfg.n : InScript(r, d)
            BY <1>4, <2>2 DEF Follows
        <3>2. r.stage \in (Before \cup After) \ {"installed"}
            BY DEF Typed
        <3>3. q.stage \in (Before \cup After) \ {"begin"} /\ (q.stage = "installed" <=> r.stage = "renamed")
            BY <3>2, Stages
        <3>4. q.stage = "installed" /\ r.stage = "renamed" /\ r.pc \notin {"checkpoint", "finish"}
            BY <1>4, <2>2, <3>3, Hooks, Kinds
        <3>5. Passed("renamed", 4) = Passed("installed", 4)
            BY DEF Passed, StageNumber
        <3>6. r.pc \in {"initial", "record"}
            BY <2>2, <3>1, <3>4, Kinds DEF InScript
        <3>7. InScript(q, d)
            <4>1. CASE r.pc = "initial"
                BY <1>1, <2>1, <3>1, <3>4, <3>5, <4>1 DEF InScript
            <4>2. CASE r.pc = "record"
                BY <1>1, <2>1, <3>1, <3>4, <3>5, <4>2 DEF InScript
            <4> QED BY <3>6, <4>1, <4>2
        <3> QED BY <3>7
    <2> QED BY <1>1, <2>1, <2>2, Moves
<1>5. CASE r.enabled /\ Hooked(r.pc, q.stage)
    <2> DEFINE s == q.stage
               n == r.cfg.n
               iv == r.cfg.interval
               p == r.cfg.point
               e == <<Artifact(r.pc), s, Context(r)>>
               sel == <<Artifact(r.pc), s>> = p
    <2>1. r.stage \in (Before \cup After) \ {"installed"} /\ s \in (Before \cup After) \ {"begin"}
        BY Stages DEF Typed
    <2>2. r.pc # "meta" /\ r.pc \in Opened
        BY <1>5, <2>1, Hooks, Kinds
    <2>3. PICK d \in 0 .. r.cfg.n : InScript(r, d)
        BY <1>5, <2>2 DEF Follows
    <2>4. Sane(r.cfg) /\ Counted(r) /\ iv \in Nat /\ iv > 0 /\ r.hits < r.cfg.occurrence
        BY <1>2, <1>5 DEF Follows, Counted, Sane
    <2>5. /\ Placed(Len(r.trace) + 1, e, n, iv)
          /\ r.pc \in {"initial", "record"} =>
                Passed(r.stage, 4) = StageNumber[r.stage] /\ Passed(s, 4) = StageNumber[s]
          /\ r.pc \in {"checkpoint", "finish"} =>
                Passed(r.stage, 5) = StageNumber[r.stage] /\ Passed(s, 5) = StageNumber[s]
        BY <1>5, <2>2, <2>3, <2>4, NextPlace
    <2>6. e \in Events /\ r.trace \in Seq(Events)
        <3>1. Artifact(r.pc) \in {"metadata", "result", "manifest"}
            BY <2>1, Hooks
        <3>2. Context(r) \in [inc : Nat, block : Nat \cup {None}, seq : Nat \cup {None}]
            BY Contexts
        <3> QED BY <2>1, <3>1, <3>2 DEF Events, Typed
    <2>7. /\ Scripted(r.trace, n, iv) /\ r.hits = Cardinality(HitSet(r.trace, p))
          /\ r.cfg.workers = 1 /\ r.cfg.occurrence > 0 /\ r.cfg.occurrence \in Nat
          /\ r.hits \in Nat /\ r.cfg.point # None
        BY <2>4, <2>6, HitsFinite DEF Counted, Sane
    <2>8. q.trace = Append(r.trace, e)
        BY <1>5
    <2>a. e[1] = Artifact(r.pc) /\ e[2] = s
        OBVIOUS
    <2> HIDE DEF e, s, n, iv, p
    <2>9. /\ Scripted(q.trace, n, iv)
          /\ IF <<e[1], e[2]>> = p
               THEN /\ Cardinality(HitSet(q.trace, p)) = Cardinality(HitSet(r.trace, p)) + 1
                    /\ Len(q.trace) \in HitSet(q.trace, p)
               ELSE Cardinality(HitSet(q.trace, p)) = Cardinality(HitSet(r.trace, p))
        BY <2>5, <2>6, <2>7, <2>8, ScriptGrows
    <2>10. Len(q.trace) = Len(r.trace) + 1 /\ Len(r.trace) \in Nat
        BY <2>6, <2>8
    <2>11. /\ q.hits = IF sel THEN r.hits + 1 ELSE r.hits
           /\ q.pc = IF sel /\ q.hits = r.cfg.occurrence THEN "evidence" ELSE r.pc
        BY <1>5 DEF s, p
    <2>12. q.hits = Cardinality(HitSet(q.trace, p))
        BY <2>7, <2>9, <2>11, <2>a
    <2>13. Counted(q)
        <3>1. q.cfg.point = p /\ q.cfg.n = n /\ q.cfg.interval = iv
            BY <1>1 DEF p, n, iv
        <3>2. CASE q.pc = "evidence"
            <4>1. sel /\ q.hits = r.cfg.occurrence
                BY <1>2, <2>11, <3>2
            <4> QED BY <1>1, <1>2, <2>4, <2>7, <2>9, <2>12, <2>a, <3>1, <3>2, <4>1 DEF Counted
        <3>3. CASE q.pc # "evidence"
            <4>1. q.hits < r.cfg.occurrence
                BY <2>4, <2>7, <2>11, <3>3
            <4>2. q.pc \notin Dying
                BY <1>2, <3>3
            <4> QED BY <1>1, <2>4, <2>7, <2>9, <2>12, <3>1, <4>1, <4>2 DEF Counted
        <3> QED BY <3>2, <3>3
    <2>14. q.pc # "evidence" => InScript(q, d)
        <3> SUFFICES ASSUME q.pc # "evidence" PROVE InScript(q, d)
            OBVIOUS
        <3>1. q.pc = r.pc
            BY <1>2
        <3>2. StageNumber[s] = StageNumber[r.stage] + 1 /\ StageNumber[r.stage] \in Nat
            BY <2>1, Numbers DEF s
        <3>3. r.seq \in Nat /\ d \in Nat
            BY <2>4 DEF Typed, Sane
        <3>4. CASE r.pc = "initial"
            <4>1. Len(q.trace) = Passed(q.stage, 4)
                BY <2>3, <2>5, <2>10, <3>2, <3>4 DEF InScript, s
            <4> QED BY <1>1, <2>3, <3>1, <3>4, <4>1 DEF InScript
        <3>5. CASE r.pc = "record"
            <4>1. Len(r.trace) = 4 + 4 * d + 5 * r.seq + StageNumber[r.stage]
                BY <2>3, <2>5, <3>5 DEF InScript
            <4>2. Len(q.trace) = 4 + 4 * d + 5 * r.seq + Passed(q.stage, 4)
                BY <2>5, <2>10, <3>2, <3>3, <3>5, <4>1 DEF s
            <4> QED BY <1>1, <2>3, <3>1, <3>5, <4>2 DEF InScript
        <3>6. CASE r.pc \in {"checkpoint", "finish"}
            <4>1. Len(r.trace) = 4 + 4 * d + 5 * r.seq + StageNumber[r.stage]
                BY <2>3, <2>5, <3>6 DEF InScript
            <4>2. Len(q.trace) = 4 + 4 * d + 5 * r.seq + Passed(q.stage, 5)
                <5> DEFINE x == 4 + 4 * d + 5 * r.seq
                <5>1. x \in Nat
                    BY <3>3
                <5>2. Len(r.trace) = x + StageNumber[r.stage]
                    BY <4>1
                <5>3. Passed(q.stage, 5) = StageNumber[r.stage] + 1
                    BY <2>5, <3>2, <3>6 DEF s
                <5> HIDE DEF x
                <5>4. Len(q.trace) = x + Passed(q.stage, 5)
                    BY ONLY <2>10, <3>2, <5>1, <5>2, <5>3
                <5> QED BY <5>4 DEF x
            <4> QED BY <1>1, <2>3, <3>1, <3>6, <4>2 DEF InScript
        <3>7. r.pc # "recovery"
            BY <2>3 DEF InScript
        <3> QED BY <2>2, <3>4, <3>5, <3>6, <3>7, Kinds
    <2> QED BY <1>1, <1>2, <2>4, <2>13, <2>14 DEF Follows
<1> QED BY <1>3, <1>4, <1>5

-----------------------------------------------------------------------------
(* What a step of a child can do *)

\* It goes on ...
On(t) ==
    LET r == child[t]
        q == child'[t] IN
    /\ q.state = "running" /\ q.code = 0 /\ errors' = errors /\ q.pc # "construct"
    /\ q.pc \in Opening => /\ r.pc \in Opening
                           /\ store'[Site(t)].manifests = store[Site(t)].manifests
    /\ q.pc # "sync" => r.pc # "sync" /\ evidence' = evidence
    /\ r.pc # "construct" => q.enabled = r.enabled /\ q.cfg = r.cfg
    /\ r.pc = "construct" => /\ q.enabled = (r.cfg.point # None)
                             /\ q.cfg = [r.cfg EXCEPT !.interval = Cadence(r.cfg)]

\* ... or it ends, in the hook, with the run, or by an exception.
Refused(t) ==
    LET r == child[t] IN
    \/ r.pc = "construct" /\ r.cfg.point # None /\ ~InjectorAccepts(t)
    \/ r.pc = "open" /\ lock[Site(t)] # None
    \/ r.pc = "link" /\ evidence[Site(t)] # NoEvidence
\* A step that ends the child: at the injected exit, at the return, by an exception.
Off(t) ==
    LET r == child[t]
        q == child'[t] IN
    /\ q.state = "zombie" /\ Keeps(q, r, {"state", "code"}) /\ evidence' = evidence
    /\ \/ q.code = Injected /\ r.pc = "sync" /\ errors' = errors
       \/ q.code = Returned /\ r.pc = "return" /\ errors' = errors
       \/ q.code = Threw /\ errors' = errors + 1
       \/ q.code = Threw /\ Refused(t) /\ errors' = errors

\* Nothing happens to the other children and in the other directories.
Elsewhere(t) ==
    /\ \A u \in Tools \ {t} : child'[u] = child[u]
    /\ \A d \in Dirs \ {Site(t)} : /\ store'[d].manifests = store[d].manifests
                                   /\ evidence'[d] = evidence[d]

\* A step of a child, which stays in the script if it found no manifest.
Goes(t) ==
    /\ child[t].state = "running" /\ (On(t) \/ Off(t)) /\ Elsewhere(t)
    /\ Follows(child[t]) /\ (child[t].pc = "scan" => store[Site(t)].manifests = {})
        => Follows(child'[t])

\* The end of a child changes nothing that it has done.
LEMMA SameFollows ==
    ASSUME NEW r, NEW q, Keeps(q, r, {"state", "code"}), Follows(r)
    PROVE  Follows(q)
<1>1. /\ q.cfg = r.cfg /\ q.pc = r.pc /\ q.stage = r.stage /\ q.seq = r.seq /\ q.inc = r.inc
      /\ q.status = r.status /\ q.done = r.done /\ q.pending = r.pending
      /\ q.block = r.block /\ q.enabled = r.enabled /\ q.hits = r.hits /\ q.trace = r.trace
    BY DEF Keeps, Fields
<1>2. \A d : InScript(r, d) => InScript(q, d)
    BY <1>1 DEF InScript
<1> QED BY <1>1, <1>2, Moves DEF Follows

\* A step that ends the child keeps what it has done.
LEMMA Ends ==
    ASSUME Inv, NEW t \in Tools, NEW c, child[t].state = "running",
           child' = [child EXCEPT ![t].state = "zombie", ![t].code = c],
           UNCHANGED evidence, \A d \in Dirs : store'[d].manifests = store[d].manifests,
           \/ c = Injected /\ child[t].pc = "sync" /\ errors' = errors
           \/ c = Returned /\ child[t].pc = "return" /\ errors' = errors
           \/ c = Threw /\ errors' = errors + 1
           \/ c = Threw /\ Refused(t) /\ errors' = errors
    PROVE  Goes(t)
<1>1. Shape /\ DOMAIN child[t] = Fields
    BY Now DEF Typed
<1>2. /\ DOMAIN child'[t] = Fields /\ child'[t].state = "zombie" /\ child'[t].code = c
      /\ \A f \in Fields \ {"state", "code"} : child'[t][f] = child[t][f]
    BY <1>1 DEF Shape, Fields
<1>3. Keeps(child'[t], child[t], {"state", "code"})
    BY <1>2 DEF Keeps
<1>4. Off(t)
    BY <1>2, <1>3 DEF Off
<1>5. Elsewhere(t)
    BY <1>1 DEF Elsewhere, Shape
<1> QED BY <1>3, <1>4, <1>5, SameFollows DEF Goes

\* An exception is an I/O error, or the refusal of the child to go on.
LEMMA ThrowEnds ==
    ASSUME Inv, NEW t \in Tools, child[t].state = "running", Throw(t),
           errors' = errors + 1 \/ (Refused(t) /\ errors' = errors)
    PROVE  Goes(t)
<1>1. child' = [child EXCEPT ![t].state = "zombie", ![t].code = Threw] /\ UNCHANGED evidence
    BY Now DEF Throw, Die, Typed
<1>2. \A d \in Dirs : store'[d].manifests = store[d].manifests
    <2>1. \A d \in Dirs : DOMAIN store[d] = {"meta", "manifests", "results", "temps"}
        BY DEF Inv, Directory
    <2> QED BY <2>1 DEF Throw
<1> QED BY <1>1, <1>2, Ends

\* A child goes on with another record.
LEMMA Continues ==
    ASSUME Inv, NEW t \in Tools, NEW q, NEW S, child[t].state = "running",
           child' = [child EXCEPT ![t] = q], UNCHANGED <<evidence, errors>>,
           Keeps(q, child[t], S), S \cap {"state", "code", "cfg", "enabled"} = {},
           child[t].pc \notin {"construct", "sync"}, q.pc \notin {"construct", "sync"},
           q.pc \in Opening => /\ child[t].pc \in Opening
                               /\ store'[Site(t)].manifests = store[Site(t)].manifests,
           \A d \in Dirs \ {Site(t)} : store'[d].manifests = store[d].manifests,
           Follows(child[t]) /\ (child[t].pc = "scan" => store[Site(t)].manifests = {})
             => Follows(q)
    PROVE  Goes(t)
<1>1. Shape /\ child[t].code = 0
    BY Now
<1>2. child'[t] = q /\ Elsewhere(t)
    BY <1>1 DEF Shape, Elsewhere
<1>3. /\ q.state = "running" /\ q.code = 0 /\ q.enabled = child[t].enabled
      /\ q.cfg = child[t].cfg
    BY <1>1 DEF Keeps, Fields
<1>4. On(t)
    BY <1>2, <1>3 DEF On
<1> QED BY <1>2, <1>4 DEF Goes

\* One lemma for each step of a child, from the construction of its injector.
LEMMA ConstructGoes ==
    ASSUME Inv, NEW t \in Tools, Construct(t)
    PROVE  Goes(t)
<1>0. child[t].state = "running" /\ child[t].pc = "construct"
    BY DEF Construct, At
<1> USE <1>0, Now
<1> DEFINE r == child[t]
           q == Constructed(r)
<1>1. CASE r.cfg.point = None \/ InjectorAccepts(t)
    <2>1. child' = [child EXCEPT ![t] = q] /\ UNCHANGED <<store, evidence, errors>>
        BY <1>1 DEF Construct, Become
    <2>2. DOMAIN r = Fields
        BY DEF Typed
    <2>3. /\ q.pc = "open" /\ q.trace = <<>> /\ q.enabled = (r.cfg.point # None) /\ q.hits = 0
          /\ q.cfg = [r.cfg EXCEPT !.interval = Cadence(r.cfg)]
          /\ q.state = "running" /\ q.code = 0
        BY <2>2 DEF Constructed, Fields
    <2>4. child'[t] = q /\ Elsewhere(t)
        BY <2>1 DEF Shape, Elsewhere
    <2> HIDE DEF q
    <2>5. On(t)
        BY <2>1, <2>3, <2>4, Kinds DEF On
    <2>6. ASSUME Follows(r) PROVE Follows(q)
        <3>1. Sane(r.cfg)
            BY <2>6 DEF Follows
        <3>2. CASE r.cfg.point = None
            <4>1. Sane(q.cfg)
                BY <2>3, <3>1, RunAssumption DEF Sane, Cadence
            <4> QED BY <2>3, <3>2, <4>1 DEF Follows
        <3>3. CASE r.cfg.point # None
            BY <1>1, <2>3, <3>1, <3>3, ConstructFollows DEF InjectorAccepts, ValidInjection
        <3> QED BY <3>2, <3>3
    <2> QED BY <2>4, <2>5, <2>6 DEF Goes
<1>2. CASE ~(r.cfg.point = None \/ InjectorAccepts(t))
    <2>1. Throw(t) /\ errors' = errors /\ Refused(t)
        BY <1>2 DEF Construct, Refused
    <2> QED BY <2>1, ThrowEnds
<1> QED BY <1>1, <1>2

\* RunStore::open takes the lock; a fresh run installs its metadata next.
LEMMA OpenGoes ==
    ASSUME Inv, NEW t \in Tools, Open(t)
    PROVE  Goes(t)
<1>0. child[t].state = "running" /\ child[t].pc = "open"
    BY DEF Open, At
<1> USE <1>0, Now
<1> DEFINE r == child[t]
           q == [r EXCEPT !.stage = "begin",
                          !.pc = IF store[r.dir].meta THEN "scan" ELSE "meta"]
<1>1. CASE lock[r.dir] = None
    <2>1. /\ child' = [child EXCEPT ![t] = q] /\ UNCHANGED <<evidence, errors>>
          /\ store' = [store EXCEPT ![Site(t)].temps = {}]
        BY <1>1 DEF Open, Become
    <2>2. DOMAIN r = Fields
        BY DEF Typed
    <2>3. Keeps(q, r, {"pc", "stage"}) /\ q.pc \in {"scan", "meta"}
        BY <2>2 DEF Fields, Keeps
    <2> HIDE DEF q
    <2>4. \A d \in Dirs : store'[d].manifests = store[d].manifests
        <3>1. \A d \in Dirs : DOMAIN store[d] = {"meta", "manifests", "results", "temps"}
            BY DEF Inv, Directory
        <3> QED BY <2>1, <3>1 DEF Shape
    <2>5. Follows(r) => Follows(q)
        <3>1. q.cfg = r.cfg /\ q.enabled = r.enabled /\ q.hits = r.hits /\ q.trace = r.trace
            BY <2>3 DEF Keeps, Fields
        <3> QED BY <2>3, <3>1, Moves, Kinds
    <2>6. {"pc", "stage"} \cap {"state", "code", "cfg", "enabled"} = {}
        OBVIOUS
    <2> QED BY <2>1, <2>3, <2>4, <2>5, <2>6, Continues, Kinds
<1>2. CASE lock[r.dir] # None
    <2>1. Throw(t) /\ errors' = errors /\ Refused(t)
        BY <1>2 DEF Open, Refused
    <2> QED BY <2>1, ThrowEnds
<1> QED BY <1>1, <1>2

\* The scan of a directory with no manifest starts incarnation 1.
LEMMA ScanGoes ==
    ASSUME Inv, NEW t \in Tools, Scan(t)
    PROVE  Goes(t)
<1>0. child[t].state = "running" /\ child[t].pc = "scan"
    BY DEF Scan, At
<1> USE <1>0, Now
<1> DEFINE r == child[t]
           ms == store[Site(t)].manifests
           q == [Scanned(r, ms) EXCEPT !.stage = "begin"]
           S == {"stage", "pc", "seq", "inc", "status", "done"}
<1>1. child' = [child EXCEPT ![t] = q] /\ UNCHANGED <<store, evidence, errors>>
    BY DEF Scan, Become, Quiet
<1>2. DOMAIN r = Fields
    BY DEF Typed
<1>3. Keeps(q, r, S) /\ q.pc \in {"initial", "cleanup", "recovery"}
    <2>1. CASE ms = {}
        BY <1>2, <2>1 DEF Scanned, Fields, Keeps
    <2>2. CASE ms # {} /\ LatestManifest(ms).status = "complete"
        BY <1>2, <2>2 DEF Scanned, Fields, Keeps
    <2>3. CASE ms # {} /\ LatestManifest(ms).status # "complete"
        BY <1>2, <2>3 DEF Scanned, Fields, Keeps
    <2> QED BY <2>1, <2>2, <2>3
<1>4. ms = {} => /\ q.pc = "initial" /\ q.stage = "begin" /\ q.seq = 0 /\ q.inc = 1
                 /\ q.status = "running" /\ q.done = {}
    BY <1>2 DEF Scanned, Fields
<1> HIDE DEF q
<1>5. Follows(r) /\ ms = {} => Follows(q)
    BY <1>3, <1>4, ScanFollows
<1>6. S \cap {"state", "code", "cfg", "enabled"} = {}
    OBVIOUS
<1> HIDE DEF S
<1> QED BY <1>1, <1>3, <1>5, <1>6, Continues, Kinds

\* The removal of orphans passes no hook.
LEMMA CleanupGoes ==
    ASSUME Inv, NEW t \in Tools, Cleanup(t)
    PROVE  Goes(t)
<1>0. child[t].state = "running" /\ child[t].pc = "cleanup"
    BY DEF Cleanup, At
<1> USE <1>0, Now
<1> DEFINE r == child[t]
           q == [r EXCEPT !.recovered = Cardinality(r.done), !.pending = 0,
                          !.pc = IF r.status = "complete" THEN "return" ELSE "running"]
           S == {"recovered", "pending", "pc"}
<1>1. /\ child' = [child EXCEPT ![t] = q] /\ UNCHANGED <<evidence, errors>>
      /\ store' = [store EXCEPT ![Site(t)].results = r.done]
    BY DEF Cleanup, Become, Quiet
<1>2. DOMAIN r = Fields
    BY DEF Typed
<1>3. /\ Keeps(q, r, S) /\ q.pending = 0
      /\ q.pc = IF r.status = "complete" THEN "return" ELSE "running"
    BY <1>2 DEF Fields, Keeps
<1> HIDE DEF q
<1>4. Follows(r) => Follows(q)
    BY <1>3, CleanupFollows
<1>5. S \cap {"state", "code", "cfg", "enabled"} = {}
    OBVIOUS
<1>6. \A d \in Dirs \ {Site(t)} : store'[d].manifests = store[d].manifests
    BY <1>1 DEF Shape
<1> HIDE DEF S
<1> QED BY <1>1, <1>3, <1>4, <1>5, <1>6, Continues, Kinds

\* With one worker the block that arrives is the next one.
LEMMA ReceiveGoes ==
    ASSUME Inv, NEW t \in Tools, NEW b \in 0 .. MaxBlocks - 1, Receive(t, b)
    PROVE  Goes(t)
<1>0. child[t].state = "running" /\ child[t].pc = "running"
    BY DEF Receive, At
<1> USE <1>0, Now
<1> DEFINE r == child[t]
           q == [r EXCEPT !.pc = "record", !.block = b, !.stage = "begin"]
           S == {"pc", "block", "stage"}
<1>1. /\ child' = [child EXCEPT ![t] = q] /\ UNCHANGED <<store, evidence, errors>>
      /\ b \in Missing(r) /\ (r.cfg.workers = 1 => \A o \in Missing(r) : b <= o)
    BY DEF Receive, Become, Quiet
<1>2. DOMAIN r = Fields
    BY DEF Typed
<1>3. Keeps(q, r, S) /\ q.pc = "record" /\ q.block = b /\ q.stage = "begin"
    BY <1>2 DEF Fields, Keeps
<1> HIDE DEF q
<1>4. Follows(r) => Follows(q)
    BY <1>1, <1>3, ReceiveFollows
<1>5. S \cap {"state", "code", "cfg", "enabled"} = {}
    OBVIOUS
<1> HIDE DEF S
<1> QED BY <1>1, <1>3, <1>4, <1>5, Continues, Kinds

\* The loop ends when every block has been recorded.
LEMMA AllReceivedGoes ==
    ASSUME Inv, NEW t \in Tools, AllReceived(t)
    PROVE  Goes(t)
<1>0. child[t].state = "running" /\ child[t].pc = "running"
    BY DEF AllReceived, At
<1> USE <1>0, Now
<1> DEFINE r == child[t]
           q == [r EXCEPT !.pc = "finish", !.stage = "begin"]
           S == {"pc", "stage"}
<1>1. /\ child' = [child EXCEPT ![t] = q] /\ UNCHANGED <<store, evidence, errors>>
      /\ Missing(r) = {}
    BY DEF AllReceived, Become, Quiet
<1>2. DOMAIN r = Fields
    BY DEF Typed
<1>3. Keeps(q, r, S) /\ q.pc = "finish" /\ q.stage = "begin"
    BY <1>2 DEF Fields, Keeps
<1> HIDE DEF q
<1>4. Follows(r) => Follows(q)
    BY <1>1, <1>3, AllReceivedFollows
<1>5. S \cap {"state", "code", "cfg", "enabled"} = {}
    OBVIOUS
<1> HIDE DEF S
<1> QED BY <1>1, <1>3, <1>4, <1>5, Continues, Kinds

\* The evidence is written to a temporary file first.
LEMMA WriteEvidenceGoes ==
    ASSUME Inv, NEW t \in Tools, WriteEvidence(t)
    PROVE  Goes(t)
<1>0. child[t].state = "running" /\ child[t].pc = "evidence"
    BY DEF WriteEvidence, At
<1> USE <1>0, Now
<1> DEFINE r == child[t]
           q == [r EXCEPT !.pc = "link"]
           S == {"pc"}
<1>1. child' = [child EXCEPT ![t] = q] /\ UNCHANGED <<store, evidence, errors>>
    BY DEF WriteEvidence, Become
<1>2. DOMAIN r = Fields
    BY DEF Typed
<1>3. Keeps(q, r, S) /\ q.pc = "link"
    BY <1>2 DEF Fields, Keeps
<1> HIDE DEF q
<1>4. Follows(r) => Follows(q)
    <2>1. q.cfg = r.cfg /\ q.enabled = r.enabled /\ q.hits = r.hits /\ q.trace = r.trace
        BY <1>3 DEF Keeps, Fields
    <2> QED BY <1>3, <2>1, Moves, Kinds
<1>5. S \cap {"state", "code", "cfg", "enabled"} = {}
    OBVIOUS
<1> HIDE DEF S
<1> QED BY <1>1, <1>3, <1>4, <1>5, Continues, Kinds

\* The evidence appears, or is there already and the child throws.
LEMMA LinkEvidenceGoes ==
    ASSUME Inv, NEW t \in Tools, LinkEvidence(t)
    PROVE  Goes(t)
<1>0. child[t].state = "running" /\ child[t].pc = "link"
    BY DEF LinkEvidence, At
<1> USE <1>0, Now
<1> DEFINE r == child[t]
           q == [r EXCEPT !.pc = "sync"]
<1>1. CASE evidence[Site(t)] = NoEvidence
    <2>1. /\ child' = [child EXCEPT ![t] = q] /\ UNCHANGED <<store, errors>>
          /\ evidence' = [evidence EXCEPT ![Site(t)] = Descriptor(r)]
        BY <1>1 DEF LinkEvidence, LinkNoReplace, Become
    <2>2. DOMAIN r = Fields
        BY DEF Typed
    <2>3. Keeps(q, r, {"pc"}) /\ q.pc = "sync"
        BY <2>2 DEF Fields, Keeps
    <2> HIDE DEF q
    <2>4. /\ q.cfg = r.cfg /\ q.enabled = r.enabled /\ q.hits = r.hits /\ q.trace = r.trace
          /\ q.state = "running" /\ q.code = 0
        BY <2>3 DEF Keeps, Fields
    <2>5. Follows(r) => Follows(q)
        BY <2>3, <2>4, Moves, Kinds
    <2>6. child'[t] = q /\ Elsewhere(t)
        BY <2>1 DEF Shape, Elsewhere
    <2>7. On(t)
        BY <2>1, <2>3, <2>4, <2>6, Kinds DEF On
    <2> QED BY <2>5, <2>6, <2>7 DEF Goes
<1>2. CASE evidence[Site(t)] # NoEvidence
    <2>1. Throw(t) /\ errors' = errors /\ Refused(t)
        BY <1>2 DEF LinkEvidence, LinkNoReplace, Refused
    <2> QED BY <2>1, ThrowEnds
<1> QED BY <1>1, <1>2

\* The injected exit.
LEMMA CrashGoes ==
    ASSUME Inv, NEW t \in Tools, Crash(t)
    PROVE  Goes(t)
BY Ends DEF Crash, Die, At

\* The run has ended before the hit that was asked for.
LEMMA ReturnGoes ==
    ASSUME Inv, NEW t \in Tools, Return(t)
    PROVE  Goes(t)
<1>1. child[t].state = "running" /\ child[t].pc = "return" /\ UNCHANGED <<store, evidence, errors>>
    BY DEF Return, At, Quiet
<1>2. child' = [child EXCEPT ![t].state = "zombie", ![t].code = Returned]
    BY <1>1, Now DEF Return, Die, Typed
<1> QED BY <1>1, <1>2, Ends

\* An I/O error of the evidence file is an exception.
LEMMA EvidenceErrorGoes ==
    ASSUME Inv, NEW t \in Tools, EvidenceError(t)
    PROVE  Goes(t)
BY ThrowEnds DEF EvidenceError

\* A stage of an install passes its hook, and the injector counts.
LEMMA AdvanceGoes ==
    ASSUME Inv, NEW t \in Tools, Advance(t)
    PROVE  Goes(t)
<1>0. child[t].state = "running" /\ child[t].pc \in InstallPcs /\ child[t].stage # "installed"
    BY DEF Advance
<1> USE <1>0, Now
<1> DEFINE r == child[t]
           s == NextStage[r.stage]
           q == child'[t]
           S == {"stage", "hits", "pc", "trace"}
<1>1. /\ child' = [child EXCEPT ![t] = q] /\ DOMAIN q = Fields /\ q.stage = s
      /\ q.trace = IF r.enabled /\ Hooked(r.pc, s)
                     THEN Append(r.trace, <<Artifact(r.pc), s, Context(r)>>) ELSE r.trace
      /\ \A f \in Fields \ S : q[f] = r[f]
    BY AdvanceChild
<1>2. /\ q.hits = IF r.enabled /\ Hooked(r.pc, s) /\ <<Artifact(r.pc), s>> = r.cfg.point
                    THEN r.hits + 1 ELSE r.hits
      /\ q.pc = IF /\ r.enabled /\ Hooked(r.pc, s) /\ <<Artifact(r.pc), s>> = r.cfg.point
                   /\ q.hits = r.cfg.occurrence
                  THEN "evidence" ELSE r.pc
    BY AdvanceHits
<1>3. Keeps(q, r, S)
    BY <1>1 DEF Keeps
<1>4. q.pc \in {r.pc, "evidence"}
    BY <1>2
<1>5. /\ UNCHANGED <<evidence, errors>>
      /\ \A d \in Dirs \ {Site(t)} : store'[d] = store[d]
      /\ r.pc = "meta" => store'[Site(t)].manifests = store[Site(t)].manifests
    <2>1. UNCHANGED errors
        BY DEF Advance, Quiet
    <2>2. /\ UNCHANGED evidence /\ \A d \in Dirs \ {Site(t)} : store'[d] = store[d]
          /\ store'[Site(t)].manifests = store[Site(t)].manifests \cup
                (IF r.stage = "closed" /\ r.pc \in ManifestPcs THEN {Manifest(r)} ELSE {})
        BY AdvanceStore
    <2>3. r.pc = "meta" => r.pc \notin ManifestPcs
        BY Kinds
    <2> QED BY <2>1, <2>2, <2>3
<1> HIDE DEF q, S
<1>6. Follows(r) => Follows(q)
    BY <1>1, <1>2, <1>3, AdvanceFollows DEF S
<1>7. S \cap {"state", "code", "cfg", "enabled"} = {}
    BY DEF S
<1>8. q.pc \in Opening => r.pc = "meta"
    BY <1>4, Kinds
<1> QED BY <1>1, <1>3, <1>4, <1>5, <1>6, <1>7, <1>8, Continues, Kinds

\* The end of an install: the next block, a checkpoint or the return.
LEMMA SettleGoes ==
    ASSUME Inv, NEW t \in Tools, Settle(t)
    PROVE  Goes(t)
<1>0. child[t].state = "running" /\ child[t].pc \in InstallPcs /\ child[t].stage = "installed"
    BY DEF Settle
<1> USE <1>0, Now
<1> DEFINE r == child[t]
           q == [Settled(r) EXCEPT !.stage = "begin"]
           S == {"pc", "stage", "done", "pending", "seq", "status"}
<1>1. child' = [child EXCEPT ![t] = q] /\ UNCHANGED <<store, evidence, errors>>
    BY DEF Settle, Become, Quiet
<1>2. DOMAIN r = Fields
    BY DEF Typed
<1>a. S \cap {"state", "code", "cfg", "enabled"} = {}
    OBVIOUS
<1>3. ASSUME Keeps(q, r, S), q.pc \in {"scan", "cleanup", "running", "checkpoint", "return"},
             q.pc = "scan" => r.pc = "meta", Follows(r) => Follows(q)
      PROVE  Goes(t)
    <2> HIDE DEF q, S
    <2> QED BY <1>1, <1>3, <1>a, Continues, Kinds
<1>4. CASE r.pc = "meta"
    <2>1. Settled(r) = [r EXCEPT !.pc = "scan"]
        BY <1>4 DEF Settled
    <2>2. Keeps(q, r, S) /\ q.pc = "scan"
        BY <1>2, <2>1 DEF Fields, Keeps
    <2>3. q.cfg = r.cfg /\ q.enabled = r.enabled /\ q.hits = r.hits /\ q.trace = r.trace
        <3> HIDE DEF q
        <3> QED BY <2>2 DEF Keeps, Fields
    <2>4. Follows(r) => Follows(q)
        <3> HIDE DEF q
        <3> QED BY <1>4, <2>2, <2>3, Moves, Kinds
    <2> QED BY <1>3, <1>4, <2>2, <2>4
<1>5. CASE r.pc \in {"initial", "recovery"}
    <2>1. Settled(r) = [r EXCEPT !.pc = "cleanup"]
        BY <1>5 DEF Settled
    <2>2. Keeps(q, r, S) /\ Keeps(q, r, {"pc", "stage"}) /\ q.pc = "cleanup"
        BY <1>2, <2>1 DEF Fields, Keeps
    <2>3. Follows(r) => Follows(q)
        <3> HIDE DEF q
        <3> QED BY <1>5, <2>2, InitialFollows
    <2> QED BY <1>3, <2>2, <2>3
<1>6. CASE r.pc = "record"
    <2> DEFINE p == [r EXCEPT !.done = @ \cup {<<r.block, r.inc>>}, !.pending = @ + 1]
    <2>1. Settled(r) = [p EXCEPT !.pc = IF CheckpointDue(p) THEN "checkpoint" ELSE "running"]
        BY <1>6 DEF Settled
    <2>2. /\ DOMAIN p = Fields /\ p.done = r.done \cup {<<r.block, r.inc>>}
          /\ p.pending = r.pending + 1
          /\ \A f \in Fields \ {"done", "pending"} : p[f] = r[f]
        BY <1>2 DEF Fields
    <2> HIDE DEF p
    <2>3. /\ DOMAIN q = Fields /\ q.stage = "begin"
          /\ q.pc = IF CheckpointDue(p) THEN "checkpoint" ELSE "running"
          /\ \A f \in Fields \ {"pc", "stage"} : q[f] = p[f]
        BY <2>1, <2>2 DEF Fields
    <2> HIDE DEF q
    <2>4. p.cfg = r.cfg /\ q.done = p.done /\ q.pending = p.pending
        BY <2>2, <2>3 DEF Fields
    <2>5. q.pc = IF q.pending >= r.cfg.interval /\ Cardinality(q.done) < r.cfg.n
                   THEN "checkpoint" ELSE "running"
        BY <2>3, <2>4 DEF CheckpointDue
    <2>6. Keeps(q, r, {"pc", "stage", "done", "pending"}) /\ Keeps(q, r, S)
        BY <2>2, <2>3 DEF Keeps
    <2>7. Follows(r) => Follows(q)
        BY <1>6, <2>2, <2>3, <2>4, <2>5, <2>6, RecordFollows
    <2>8. q.pc \in {"checkpoint", "running"}
        BY <2>3
    <2> HIDE DEF S
    <2> QED BY <1>3, <2>6, <2>7, <2>8
<1>7. CASE r.pc = "checkpoint"
    <2>1. Settled(r) = [r EXCEPT !.pc = "running", !.seq = @ + 1, !.pending = 0]
        BY <1>7 DEF Settled
    <2>2. /\ Keeps(q, r, S) /\ Keeps(q, r, {"pc", "stage", "seq", "pending"})
          /\ q.pc = "running" /\ q.seq = r.seq + 1 /\ q.pending = 0
        BY <1>2, <2>1 DEF Fields, Keeps
    <2>3. Follows(r) => Follows(q)
        <3> HIDE DEF q
        <3> QED BY <1>7, <2>2, CheckpointFollows
    <2> QED BY <1>3, <2>2, <2>3
<1>8. CASE r.pc = "finish"
    <2>1. Settled(r) = [r EXCEPT !.pc = "return", !.seq = @ + 1, !.status = "complete"]
        BY <1>8 DEF Settled
    <2>2. /\ Keeps(q, r, S) /\ Keeps(q, r, {"pc", "stage", "seq", "status"})
          /\ q.pc = "return"
        BY <1>2, <2>1 DEF Fields, Keeps
    <2>3. Follows(r) => Follows(q)
        <3> HIDE DEF q
        <3> QED BY <1>8, <2>2, FinishFollows
    <2> QED BY <1>3, <2>2, <2>3
<1> QED BY <1>4, <1>5, <1>6, <1>7, <1>8, Kinds

\* The steps of a child together.
LEMMA ChildGoes ==
    ASSUME Inv, NEW t \in Tools, RunChild(t)
    PROVE  Goes(t)
<1>1. ChildStep(t)
    BY DEF RunChild
<1> QED BY <1>1, ConstructGoes, OpenGoes, ScanGoes, CleanupGoes, AdvanceGoes, SettleGoes,
           AllReceivedGoes, ReturnGoes, ReceiveGoes, WriteEvidenceGoes, LinkEvidenceGoes,
           CrashGoes, EvidenceErrorGoes DEF ChildStep

-----------------------------------------------------------------------------
(* A replay that nobody disturbs *)

\* Evidence stays.
LEMMA Kept ==
    ASSUME Inv, Next, NEW p \in Dirs, evidence[p] # NoEvidence
    PROVE  evidence'[p] = evidence[p]
<1>1. CASE StartEarlier \/ StartOriginal \/ EndOriginal
    BY <1>1 DEF StartEarlier, StartOriginal, EndOriginal, childVars
<1>2. ASSUME NEW t \in Replays, StartReplay(t) \/ Judge(t) PROVE evidence'[p] = evidence[p]
    BY <1>2 DEF StartReplay, Judge, childVars
<1>3. ASSUME NEW t \in Tools, Supervise(t) PROVE evidence'[p] = evidence[p]
    BY <1>3 DEF Supervise, WatchdogStep, Poll, CheckClock, Reap, Expire, childVars
<1>4. ASSUME NEW t \in Tools, RunChild(t) PROVE evidence'[p] = evidence[p]
    <2>0. ChildStep(t)
        BY <1>4 DEF RunChild
    <2>1. CASE LinkEvidence(t)
        <3>1. CASE evidence[child[t].path] # NoEvidence
            BY <2>1, <3>1 DEF LinkEvidence, LinkNoReplace, Throw
        <3>2. CASE evidence[child[t].path] = NoEvidence
            BY <2>1, <3>2 DEF LinkEvidence, LinkNoReplace, Inv, Shape
        <3> QED BY <3>1, <3>2
    <2>2. CASE ~LinkEvidence(t)
        <3>1. UNCHANGED evidence
            BY <2>0, <2>2
            DEF ChildStep, Construct, Open, Scan, Cleanup, Advance, Settle, AllReceived,
                Return, Receive, WriteEvidence, Crash, EvidenceError, Throw, Quiet
        <3> QED BY <3>1
    <2> QED BY <2>1, <2>2
<1> QED BY <1>1, <1>2, <1>3, <1>4 DEF Next

\* What the watchdog does to its child.
Watched(t) ==
    LET r == child[t]
        q == child'[t] IN
    /\ \A u \in Tools \ {t} : child'[u] = child[u] /\ wait'[u] = wait[u]
    /\ UNCHANGED <<store, evidence, errors, config, resumed, phase, verdict>>
    /\ \/ q = r /\ wait'[t] # "exited"
       \/ q = r /\ wait'[t] = wait[t]
       \/ /\ r.state = "running" /\ q.state = "zombie" /\ q.code = Signal
          /\ Keeps(q, r, {"state", "code"}) /\ wait'[t] # "exited"
       \/ /\ r.state = "zombie" /\ q.state = "reaped" /\ q.code = r.code
          /\ Keeps(q, r, {"state", "code"}) /\ (wait'[t] = "exited" => r.code # Signal)

\* A watchdog kills its child, reaps it or waits.
LEMMA Supervised ==
    ASSUME Inv, NEW t \in Tools, Supervise(t)
    PROVE  Watched(t)
<1>1. Shape /\ DOMAIN child[t] = Fields /\ DOMAIN child = Tools /\ DOMAIN wait = Tools
    BY DEF Inv, Shape, Tool, ToolOK, Typed
<1>0. UNCHANGED <<store, evidence, errors, config, resumed, phase, verdict>>
    BY DEF Supervise, WatchdogStep, Poll, CheckClock, Reap, Expire, childVars, replayVars
<1>2. ASSUME child[t].state = "zombie", Reaped(t)
      PROVE  /\ child'[t].state = "reaped" /\ child'[t].code = child[t].code
             /\ Keeps(child'[t], child[t], {"state", "code"})
             /\ \A u \in Tools \ {t} : child'[u] = child[u]
    <2>1. DOMAIN child'[t] = Fields /\ child'[t].state = "reaped"
          /\ \A f \in Fields \ {"state"} : child'[t][f] = child[t][f]
        BY <1>1, <1>2 DEF Reaped, Fields
    <2>2. child'[t].code = child[t].code
        BY <2>1 DEF Fields
    <2>3. \A u \in Tools \ {t} : child'[u] = child[u]
        BY <1>1, <1>2 DEF Reaped
    <2> QED BY <2>1, <2>2, <2>3 DEF Keeps
<1>3. CASE Expire(t)
    BY <1>0, <1>3 DEF Expire, Watched, childVars
<1>4. CASE Reap(t)
    <2>1. Reaped(t) /\ child[t].state = "zombie" /\ wait' = [wait EXCEPT ![t] = "failed"]
        BY <1>4 DEF Reap
    <2>2. wait'[t] = "failed" /\ \A u \in Tools \ {t} : wait'[u] = wait[u]
        BY <1>1, <2>1
    <2> QED BY <1>0, <1>2, <2>1, <2>2 DEF Watched
<1>5. CASE Poll(t)
    <2>1. CASE child[t].state = "zombie"
        <3>1. /\ Reaped(t)
              /\ wait' = [wait EXCEPT ![t] =
                    IF child[t].code = Signal THEN "failed" ELSE "exited"]
            BY <1>5, <2>1 DEF Poll
        <3>2. /\ wait'[t] = IF child[t].code = Signal THEN "failed" ELSE "exited"
              /\ \A u \in Tools \ {t} : wait'[u] = wait[u]
            BY <1>1, <3>1
        <3> QED BY <1>0, <1>2, <2>1, <3>1, <3>2 DEF Watched
    <2>2. CASE child[t].state # "zombie"
        <3>1. wait' = [wait EXCEPT ![t] = "clock"] /\ UNCHANGED child
            BY <1>5, <2>2 DEF Poll
        <3>2. wait'[t] = "clock" /\ \A u \in Tools \ {t} : wait'[u] = wait[u]
            BY <1>1, <3>1
        <3> QED BY <1>0, <3>1, <3>2 DEF Watched
    <2> QED BY <2>1, <2>2
<1>6. CASE CheckClock(t)
    <2>1. /\ wait'[t] # "exited" /\ \A u \in Tools \ {t} : wait'[u] = wait[u]
        <3>1. wait' = [wait EXCEPT ![t] = "reap"] \/ wait' = [wait EXCEPT ![t] = "poll"]
            BY <1>6 DEF CheckClock, AtDeadline
        <3> QED BY <1>1, <3>1
    <2>2. CASE UNCHANGED child
        BY <1>0, <2>1, <2>2 DEF Watched
    <2>3. CASE child' # child
        <3>1. child[t].state = "running" /\ Die(t, Signal)
            BY <1>6, <2>3 DEF CheckClock, AtDeadline, Kill
        <3>2. /\ DOMAIN child'[t] = Fields /\ child'[t].state = "zombie"
              /\ child'[t].code = Signal
              /\ \A f \in Fields \ {"state", "code"} : child'[t][f] = child[t][f]
            BY <1>1, <3>1 DEF Die, Fields
        <3>3. \A u \in Tools \ {t} : child'[u] = child[u]
            BY <1>1, <3>1 DEF Die
        <3> QED BY <1>0, <2>1, <3>1, <3>2, <3>3 DEF Watched, Keeps
    <2> QED BY <2>2, <2>3
<1> QED BY <1>3, <1>4, <1>5, <1>6 DEF Supervise, WatchdogStep

\* The original that has left evidence has followed the script to its end.
LEMMA Original ==
    ASSUME Inv, Fixed, ~resumed, evidence[home] # NoEvidence
    PROVE  LET a == child[origin] IN
           /\ evidence[home] = Descriptor(a) /\ Sane(a.cfg) /\ Counted(a) /\ a.pc \in Dying
           /\ a.trace \in Seq(Events)
<1>1. /\ evidence[home] = Descriptor(child[origin]) /\ child[origin].state # "none"
      /\ Typed(child[origin])
    BY Sites DEF Inv, Origin, Tool, ToolOK
<1>2. child[origin].pc = "sync" /\ Follows(child[origin])
    BY <1>1 DEF Fixed
<1>3. "sync" \in Dying
    BY Kinds
<1>4. child[origin].enabled /\ child[origin].trace \in Seq(Events)
    BY <1>1, <1>2, <1>3 DEF Typed
<1> QED BY <1>1, <1>2, <1>3, <1>4 DEF Follows

\* The fields of a descriptor.
LEMMA Descriptors ==
    ASSUME NEW r
    PROVE  LET e == Descriptor(r) IN
           /\ e.point = r.cfg.point /\ e.occurrence = r.cfg.occurrence /\ e.n = r.cfg.n
           /\ e.workers = r.cfg.workers /\ e.interval = r.cfg.interval /\ e.trace = r.trace
BY DEF Descriptor

\* A child with the policy of the original does not return: it meets its hook.
LEMMA NoReturn ==
    ASSUME Inv, Fixed, ~resumed, NEW r, Typed(r), Faithful(r, evidence[home])
    PROVE  r.pc # "return"
<1> SUFFICES ASSUME r.pc = "return" PROVE FALSE
    OBVIOUS
<1> DEFINE a == child[origin]
           n == r.cfg.n
           iv == r.cfg.interval
           p == r.cfg.point
<1>1. Follows(r) /\ r.enabled /\ evidence[home] # NoEvidence
    BY DEF Faithful, Readable
<1>2. /\ evidence[home] = Descriptor(a) /\ Counted(a) /\ a.pc \in Dying
      /\ a.trace \in Seq(Events)
    BY <1>1, Original
<1>3. a.cfg.n = n /\ a.cfg.interval = iv /\ a.cfg.point = p /\ a.cfg.occurrence = r.cfg.occurrence
    BY <1>2, Descriptors DEF Faithful
<1>4. /\ Counted(r) /\ n \in Nat \ {0} /\ iv \in Nat \ {0} /\ r.cfg.occurrence \in Nat
      /\ r.trace \in Seq(Events)
    BY <1>1 DEF Follows, Counted, Sane, Typed
<1>5. PICK c \in Nat : n <= (c + 1) * iv /\ Len(r.trace) = 4 + 4 * n + 5 * c + 5
    <2>1. PICK d \in 0 .. r.cfg.n : InScript(r, d)
        BY <1>1, Kinds DEF Follows
    <2> QED BY <2>1 DEF InScript
<1>6. /\ Scripted(r.trace, n, iv) /\ Scripted(a.trace, n, iv)
      /\ Cardinality(HitSet(r.trace, p)) < r.cfg.occurrence
      /\ Cardinality(HitSet(a.trace, p)) = r.cfg.occurrence
    BY <1>2, <1>3, <1>4, Kinds DEF Counted
<1> HIDE DEF a, n, iv, p
<1>7. Cardinality(HitSet(a.trace, p)) <= Cardinality(HitSet(r.trace, p))
    BY <1>2, <1>4, <1>5, <1>6, AllMet
<1>8. Cardinality(HitSet(r.trace, p)) \in Nat
    BY <1>4, HitsFinite
<1> QED BY <1>4, <1>6, <1>7, <1>8

\* A child that died in its hook has the trace of the original.
LEMMA SameEvidence ==
    ASSUME Inv, Fixed, ~resumed, NEW r, Typed(r), Faithful(r, evidence[home]), r.pc = "sync"
    PROVE  Descriptor(r) = evidence[home] /\ Readable(Descriptor(r))
<1> DEFINE a == child[origin]
           n == r.cfg.n
           iv == r.cfg.interval
           p == r.cfg.point
<1>1. Follows(r) /\ r.enabled /\ evidence[home] # NoEvidence
    BY DEF Faithful, Readable
<1>2. /\ evidence[home] = Descriptor(a) /\ Counted(a) /\ a.pc \in Dying
      /\ a.trace \in Seq(Events)
    BY <1>1, Original
<1>3. /\ a.cfg.n = n /\ a.cfg.interval = iv /\ a.cfg.point = p
      /\ a.cfg.occurrence = r.cfg.occurrence /\ a.cfg.workers = r.cfg.workers
    BY <1>2, Descriptors DEF Faithful
<1>4. /\ Counted(r) /\ n \in Nat \ {0} /\ iv \in Nat \ {0} /\ r.pc \in Dying
      /\ r.trace \in Seq(Events)
    BY <1>1, Kinds DEF Follows, Counted, Sane, Typed
<1>5. /\ Scripted(r.trace, n, iv) /\ Scripted(a.trace, n, iv)
      /\ Cardinality(HitSet(r.trace, p)) = Cardinality(HitSet(a.trace, p))
      /\ Len(r.trace) \in HitSet(r.trace, p) /\ Len(a.trace) \in HitSet(a.trace, p)
    BY <1>2, <1>3, <1>4 DEF Counted
<1>6. r.trace = a.trace
    <2> HIDE DEF a, n, iv, p
    <2> QED BY <1>2, <1>4, <1>5, OneTrace
<1>7. Descriptor(r) = Descriptor(a)
    BY <1>3, <1>6 DEF Descriptor
<1> QED BY <1>2, <1>7 DEF Faithful

\* The verdict on a replay that was alone.
LEMMA Concluded ==
    ASSUME Inv, Fixed, NEW t \in Replays, Alone(t), Judge(t)
    PROVE  verdict'[t] \in {"reproduced", "timeout"}
<1> USE Sites
<1>1. /\ Shape /\ Tool(t) /\ wait[t] \in {"exited", "failed"}
    BY DEF Inv, Judge
<1>2. verdict'[t] = IF wait[t] = "failed" THEN "timeout"
                    ELSE IF child[t].code # Injected THEN "missed"
                    ELSE IF ~Readable(evidence[target]) THEN "unreadable"
                    ELSE IF same_replay(evidence[target], evidence[home])
                      THEN "reproduced" ELSE "mismatch"
    BY <1>1 DEF Judge, Shape
<1>3. Solo(t) /\ InHook(child[t]) /\ ~resumed
    BY DEF Fixed, Alone
<1>4. child[t].state = "reaped" /\ Typed(child[t])
    BY <1>1 DEF Tool, ToolOK
<1>5. Faithful(child[t], evidence[home])
    BY <1>3, <1>4 DEF Solo
<1>6. CASE wait[t] = "failed"
    BY <1>2, <1>6
<1>7. CASE wait[t] = "exited"
    <2>1. child[t].code = Injected /\ child[t].pc = "sync"
        BY <1>3, <1>4, <1>5, <1>7 DEF Solo, Faithful, InHook
    <2>2. evidence[target] = Descriptor(child[t])
        BY <1>1, <2>1 DEF Tool, ToolOK, Linked
    <2>3. evidence[target] = evidence[home] /\ Readable(evidence[target])
        BY <1>3, <1>4, <1>5, <2>1, <2>2, SameEvidence
    <2> QED BY <1>2, <1>7, <2>1, <2>3 DEF same_replay
<1> QED BY <1>1, <1>6, <1>7

\* A replay does not notice a step that is not about it.
LEMMA SoloStays ==
    ASSUME NEW t \in Replays, Solo(t),
           child'[t] = child[t], wait'[t] = wait[t], phase'[t] = phase[t],
           verdict'[t] = verdict[t],
           child[t].state = "running" => /\ store'[target].manifests = store[target].manifests
                                         /\ evidence'[target] = evidence[target],
           evidence[home] # NoEvidence \/ phase[origin] = "ended"
             => evidence'[home] = evidence[home],
           phase[origin] = "ended" => phase'[origin] = "ended"
    PROVE  Solo(t)'
BY DEF Solo, Faithful, Readable

\* Nothing is refused to a child that is alone in its directory.
LEMMA Welcome ==
    ASSUME Inv, NEW t \in Replays, Alone(t), Solo(t), child[t].state = "running"
    PROVE  ~Refused(t)
<1> USE Sites
<1>1. child[t].path = target /\ child[t].dir = target /\ Site(t) = target
    BY Now
<1>2. ~(child[t].pc = "construct" /\ ~InjectorAccepts(t))
    BY <1>1 DEF Solo, Faithful, Readable, InjectorAccepts, ValidInjection
<1>3. child[t].pc = "open" => lock[target] = None
    <2> SUFFICES ASSUME child[t].pc = "open", lock[target] # None PROVE FALSE
        OBVIOUS
    <2>1. PICK v \in Tools : /\ lock[target] = v /\ Site(v) = target
                             /\ child[v].state = "running"
                             /\ child[v].pc \notin {"construct", "open"}
        BY DEF Inv, Owned
    <2>2. v # t /\ v \in Replays
        BY <2>1
    <2> QED BY <2>1, <2>2 DEF Alone
<1>4. child[t].pc = "link" => evidence[target] = NoEvidence
    BY DEF Solo
<1> QED BY <1>1, <1>2, <1>3, <1>4 DEF Refused

\* A step of a replay's own child.
LEMMA SoloGoes ==
    ASSUME Inv, Fixed, Inv', NEW t \in Replays, RunChild(t), Alone(t), errors' = 0
    PROVE  Solo(t)'
<1> USE Sites
<1> DEFINE r == child[t]
           q == child'[t]
<1>1. Goes(t) /\ Typed(r) /\ Typed(q) /\ r.state = "running" /\ r.code = 0
    BY ChildGoes, Now DEF Goes, Inv, Tool, ToolOK
<1>2. /\ Solo(t) /\ ~resumed /\ errors = 0
      /\ UNCHANGED <<wait, phase, verdict>>
    BY DEF Fixed, Alone, RunChild, watchdogVars
<1>3. Faithful(r, evidence[home]) /\ phase[origin] = "ended" /\ evidence[home] # NoEvidence
    BY <1>1, <1>2 DEF Solo, Faithful, Readable
<1>4. evidence'[home] = evidence[home]
    BY <1>1 DEF Goes, Elsewhere
<1>5. Follows(q)
    <2>1. r.pc = "scan" => store[target].manifests = {}
        BY <1>1, <1>2, Kinds DEF Solo
    <2> QED BY <1>1, <1>3, <2>1 DEF Goes, Faithful
<1>6. /\ wait'[t] # "exited" /\ (phase'[t] = "ended" => phase[t] = "ended")
      /\ verdict' = verdict /\ q.state # "none"
    <2>1. wait[t] # "exited"
        BY <1>1 DEF Inv, Tool, ToolOK
    <2>2. q.state # "none"
        BY <1>1 DEF Goes, On, Off
    <2> QED BY <1>2, <2>1, <2>2
<1>7. CASE On(t)
    <2>1. /\ q.cfg.n = r.cfg.n /\ q.cfg.interval = r.cfg.interval
          /\ q.cfg.workers = r.cfg.workers /\ q.cfg.point = r.cfg.point
          /\ q.cfg.occurrence = r.cfg.occurrence /\ q.enabled /\ q.state = "running"
        <3>1. CASE r.pc # "construct"
            BY <1>3, <1>7, <3>1 DEF On, Faithful
        <3>2. CASE r.pc = "construct"
            <4>1. q.cfg = [r.cfg EXCEPT !.interval = Cadence(r.cfg)]
                  /\ q.enabled = (r.cfg.point # None) /\ q.state = "running"
                BY <1>7, <3>2 DEF On
            <4>2. /\ r.cfg.interval # 0
                  /\ DOMAIN r.cfg = {"n", "interval", "workers", "point", "occurrence"}
                BY <1>3 DEF Faithful, Readable, Follows, Sane
            <4>3. Cadence(r.cfg) = r.cfg.interval
                BY <4>2 DEF Cadence
            <4>4. r.cfg.point # None
                <5>1. /\ evidence[home] = Descriptor(child[origin])
                      /\ Counted(child[origin])
                    BY <1>2, <1>3, Original
                <5> QED BY <1>3, <5>1, Descriptors DEF Counted, Faithful
            <4> QED BY <4>1, <4>2, <4>3, <4>4
        <3> QED BY <3>1, <3>2
    <2>2. Faithful(q, evidence[home])
        BY <1>3, <1>5, <2>1 DEF Faithful
    <2>3. q.pc \in Opening => store'[target].manifests = {}
        BY <1>1, <1>2, <1>7 DEF On, Solo
    <2>4. q.pc # "sync" => evidence'[target] = NoEvidence
        BY <1>1, <1>2, <1>7 DEF On, Solo
    <2> QED BY <1>2, <1>3, <1>4, <1>6, <2>2, <2>3, <2>4 DEF Solo
<1>8. CASE Off(t)
    <2>1. q.code = Injected
        <3>1. ~Refused(t)
            BY <1>1, <1>2, Welcome
        <3>2. r.pc # "return"
            BY <1>1, <1>2, <1>3, NoReturn
        <3> QED BY <1>2, <1>8, <3>1, <3>2 DEF Off
    <2>2. q.state = "zombie" /\ q.cfg = r.cfg /\ q.enabled = r.enabled /\ q.pc = r.pc
        BY <1>8 DEF Off, Keeps, Fields
    <2>3. Faithful(q, evidence[home])
        BY <1>3, <1>5, <2>1, <2>2 DEF Faithful
    <2> QED BY <1>2, <1>3, <1>4, <1>6, <2>1, <2>2, <2>3 DEF Solo
<1> QED BY <1>1, <1>7, <1>8 DEF Goes

\* One lemma for each disjunct of Next: a step of a child keeps Fixed.
LEMMA RunChildFixed ==
    ASSUME Inv, Fixed, Unvisited, Inv', NEW t \in Tools, RunChild(t)
    PROVE  Fixed'
<1> USE Sites
<1>1. Goes(t) /\ child[t].state = "running" /\ Typed(child[t])
    BY ChildGoes, Now DEF Goes
<1>2. UNCHANGED <<wait, phase, verdict, resumed>>
    BY DEF RunChild, watchdogVars
<1>3. errors' \in Nat /\ (errors' = 0 => errors = 0) /\ child'[t].state # "none"
    BY <1>1 DEF Goes, On, Off, Fixed
<1>4. InHook(child'[t])
    <2>1. CASE On(t)
        BY <2>1 DEF On, InHook, Injected
    <2>2. CASE Off(t)
        <3>1. child'[t].pc = child[t].pc
            BY <2>2 DEF Off, Keeps, Fields
        <3> QED BY <2>2, <3>1 DEF Off, InHook, Injected, Returned, Threw
    <2> QED BY <1>1, <2>1, <2>2 DEF Goes
<1>5. \A u \in Tools \ {t} : child'[u] = child[u]
    BY <1>1 DEF Goes, Elsewhere
<1>6. ASSUME ~resumed', child'[origin].state # "none" PROVE Follows(child'[origin])
    <2>1. CASE t = origin
        <3>1. Follows(child[origin])
            BY <1>1, <1>2, <1>6, <2>1 DEF Fixed
        <3>2. child[t].pc = "scan" => store[Site(t)].manifests = {}
            BY <1>1, <1>2, <1>6, <2>1, Now, Kinds
        <3> QED BY <1>1, <2>1, <3>1, <3>2 DEF Goes
    <2>2. CASE t # origin
        BY <1>2, <1>5, <1>6, <2>2 DEF Fixed
    <2> QED BY <2>1, <2>2
<1>7. evidence'[home] # NoEvidence => child'[origin].pc = "sync"
    <2>1. CASE t = origin /\ On(t)
        BY <2>1 DEF On, Fixed
    <2>2. CASE t = origin /\ Off(t)
        <3>1. child'[t].pc = child[t].pc
            BY <2>2 DEF Off, Keeps, Fields
        <3> QED BY <2>2, <3>1 DEF Off, Fixed
    <2>3. CASE t # origin
        <3>1. evidence'[home] = evidence[home]
            BY <1>1, <2>3 DEF Goes, Elsewhere
        <3> QED BY <1>5, <2>3, <3>1 DEF Fixed
    <2> QED BY <1>1, <2>1, <2>2, <2>3 DEF Goes
<1>8. ASSUME NEW o \in Replays
      PROVE  /\ InHook(child'[o]) /\ phase'[o] \in {"start", "replaying", "ended"}
             /\ Alone(o)' => Solo(o)'
    <2>1. InHook(child'[o]) /\ phase'[o] \in {"start", "replaying", "ended"}
        <3>1. CASE o = t
            BY <1>2, <1>4, <3>1 DEF Fixed
        <3>2. CASE o # t
            BY <1>2, <1>5, <3>2 DEF Fixed
        <3> QED BY <3>1, <3>2
    <2>2. ASSUME Alone(o)' PROVE Solo(o)'
        <3>1. ~resumed /\ errors = 0 /\ errors' = 0
            BY <1>2, <1>3, <2>2 DEF Alone
        <3>2. CASE o = t
            <4>1. Alone(t)
                BY <1>5, <2>2, <3>1, <3>2 DEF Alone
            <4> QED BY <3>1, <3>2, <4>1, SoloGoes
        <3>3. CASE o # t
            <4>1. t = origin
                BY <1>3, <2>2, <3>3 DEF Alone
            <4>2. Alone(o) /\ Solo(o)
                BY <1>5, <2>2, <3>1, <4>1 DEF Alone, Fixed
            <4>3. /\ store'[target].manifests = store[target].manifests
                  /\ evidence'[target] = evidence[target]
                BY <1>1, <4>1 DEF Goes, Elsewhere
            <4>4. evidence[home] # NoEvidence => evidence'[home] = evidence[home]
                <5>1. Next
                    BY DEF Next
                <5> QED BY <5>1, Kept
            <4>5. phase[origin] # "ended"
                BY <1>1, <4>1 DEF Unvisited
            <4> QED BY <1>2, <1>5, <3>3, <4>2, <4>3, <4>4, <4>5, SoloStays
        <3> QED BY <3>2, <3>3
    <2> QED BY <2>1, <2>2
<1> QED BY <1>3, <1>6, <1>7, <1>8 DEF Fixed

\* A child that is killed for its time has a code that no verdict is based on.
LEMMA SuperviseFixed ==
    ASSUME Inv, Fixed, NEW t \in Tools, Supervise(t)
    PROVE  Fixed'
<1> USE Sites
<1>1. Watched(t)
    BY Supervised
<1>2. UNCHANGED <<store, evidence, errors, config, resumed, phase, verdict>>
    BY <1>1 DEF Watched
<1>3. \A u \in Tools \ {t} : child'[u] = child[u] /\ wait'[u] = wait[u]
    BY <1>1 DEF Watched
<1> DEFINE r == child[t]
           q == child'[t]
<1>4. /\ (q = r \/ (Keeps(q, r, {"state", "code"}) /\ r.state # "none" /\ q.state # "none"))
      /\ q.code # r.code => q.code = Signal /\ q.state = "zombie"
      /\ q.state = "running" => q = r
      /\ q.state = "reaped" /\ q # r => r.state = "zombie" /\ q.code = r.code
      /\ q # r => q.code = Signal \/ (r.state = "zombie" /\ q.code = r.code)
      /\ wait'[t] = "exited" => (q = r /\ wait[t] = "exited") \/ q.code # Signal
    BY <1>1 DEF Watched
<1> HIDE DEF q, r
<1>5. q.pc = r.pc /\ q.cfg = r.cfg /\ q.enabled = r.enabled /\ (q.state = "none" <=> r.state = "none")
      /\ (Follows(r) => Follows(q))
    BY <1>4, SameFollows DEF Keeps, Fields
<1>6. ~resumed' /\ child'[origin].state # "none" => Follows(child'[origin])
    BY <1>2, <1>3, <1>5 DEF Fixed, q, r
<1>7. evidence'[home] # NoEvidence => child'[origin].pc = "sync"
    BY <1>2, <1>3, <1>5 DEF Fixed, q, r
<1>8. ASSUME NEW o \in Replays
      PROVE  /\ InHook(child'[o]) /\ phase'[o] \in {"start", "replaying", "ended"}
             /\ Alone(o)' => Solo(o)'
    <2>1. InHook(child'[o]) /\ phase'[o] \in {"start", "replaying", "ended"}
        <3>1. CASE o = t
            <4>1. InHook(r)
                BY <3>1 DEF Fixed, r
            <4>2. InHook(q)
                BY <1>4, <1>5, <4>1 DEF InHook, Injected, Signal
            <4> QED BY <1>2, <3>1, <4>2 DEF Fixed, q
        <3>2. CASE o # t
            BY <1>2, <1>3, <3>2 DEF Fixed
        <3> QED BY <3>1, <3>2
    <2>2. ASSUME Alone(o)' PROVE Solo(o)'
        <3>1. Alone(o)
            <4>1. \A u \in Replays \ {o} : child[u].state = "none"
                BY <1>3, <1>5, <2>2 DEF Alone, q, r
            <4> QED BY <1>2, <2>2, <4>1 DEF Alone
        <3>2. Solo(o)
            BY <3>1 DEF Fixed
        <3>3. CASE o # t
            BY <1>2, <1>3, <3>2, <3>3, SoloStays
        <3>4. CASE o = t
            <4>1. r.state # "none" => Faithful(r, evidence[home]) /\ phase[origin] = "ended"
                BY <3>2, <3>4 DEF Solo, r
            <4>2. q.state \in {"zombie", "reaped"} /\ Faithful(r, evidence[home])
                    => q.code \in {Injected, Signal}
                <5>1. CASE q = r
                    BY <5>1 DEF Faithful
                <5>2. CASE q # r
                    BY <1>4, <5>2 DEF Faithful
                <5> QED BY <5>1, <5>2
            <4>3. q.state # "none" => Faithful(q, evidence[home]) /\ phase[origin] = "ended"
                BY <1>5, <4>1, <4>2 DEF Faithful
            <4>4. q.state = "running" =>
                    /\ q.pc \in Opening => store[target].manifests = {}
                    /\ q.pc # "sync" => evidence[target] = NoEvidence
                BY <1>4, <3>2, <3>4 DEF Solo, r
            <4>5. wait'[t] = "exited" => q.code # Signal
                BY <1>4, <3>2, <3>4 DEF Solo, r
            <4>6. phase[t] = "replaying" => q.state # "none"
                BY <1>5, <3>2, <3>4 DEF Solo, r
            <4> QED BY <1>2, <3>2, <3>4, <4>3, <4>4, <4>5, <4>6 DEF Solo, q
        <3> QED BY <3>3, <3>4
    <2> QED BY <2>1, <2>2
<1> QED BY <1>2, <1>6, <1>7, <1>8 DEF Fixed

\* The replays do not notice how the original run goes on.
LEMMA ReplaysStay ==
    ASSUME Inv, Fixed, \A u \in Replays : child'[u] = child[u] /\ wait'[u] = wait[u]
                                          /\ phase'[u] = phase[u] /\ verdict'[u] = verdict[u],
           UNCHANGED <<store, evidence, errors>>, resumed => resumed',
           phase[origin] = "ended" => phase'[origin] = "ended"
    PROVE  \A t \in Replays : /\ InHook(child'[t])
                              /\ phase'[t] \in {"start", "replaying", "ended"}
                              /\ Alone(t)' => Solo(t)'
<1> SUFFICES ASSUME NEW t \in Replays
             PROVE  /\ InHook(child'[t]) /\ phase'[t] \in {"start", "replaying", "ended"}
                    /\ Alone(t)' => Solo(t)'
    OBVIOUS
<1>1. InHook(child'[t]) /\ phase'[t] \in {"start", "replaying", "ended"}
    BY DEF Fixed
<1>2. Alone(t)' => Alone(t)
    BY DEF Alone
<1>3. Alone(t) => Solo(t)
    BY DEF Fixed
<1> QED BY <1>1, <1>2, <1>3, SoloStays

\* What is asked of a run.
LEMMA AskedSane ==
    ASSUME config \in Configs
    PROVE  Sane(config)
<1>1. config \in RunConfig
    BY ConfigsAssumption
<1>2. /\ DOMAIN config = {"n", "interval", "workers", "point", "occurrence"}
      /\ config.n \in 1 .. MaxBlocks /\ config.interval \in 0 .. MaxBlocks
      /\ config.occurrence \in 0 .. 3
    BY <1>1 DEF RunConfig
<1> QED BY <1>2, RunAssumption DEF Sane

\* After an earlier run the original is not fresh, and nothing is claimed.
LEMMA StartEarlierFixed ==
    ASSUME Inv, Fixed, StartEarlier
    PROVE  Fixed'
<1> USE Sites
<1>1. /\ phase[origin] = "start" /\ resumed' = TRUE
      /\ UNCHANGED <<store, evidence, errors, verdict>>
    BY DEF StartEarlier
<1>2. evidence[home] = NoEvidence
    BY <1>1 DEF Inv, Origin
<1>3. \A u \in Replays : /\ child'[u] = child[u] /\ wait'[u] = wait[u]
                         /\ phase'[u] = phase[u] /\ verdict'[u] = verdict[u]
    BY <1>1 DEF StartEarlier, Fork, Goto, Inv, Shape
<1>4. \A t \in Replays : /\ InHook(child'[t])
                         /\ phase'[t] \in {"start", "replaying", "ended"}
                         /\ Alone(t)' => Solo(t)'
    BY <1>1, <1>3, ReplaysStay
<1> QED BY <1>1, <1>2, <1>4 DEF Fixed

\* The original starts at the beginning of the script.
LEMMA StartOriginalFixed ==
    ASSUME Inv, Fixed, config \in Configs, StartOriginal
    PROVE  Fixed'
<1> USE Sites
<1>1. /\ phase[origin] \in {"start", "earlier"}
      /\ UNCHANGED <<store, evidence, errors, verdict, resumed>>
    BY DEF StartOriginal
<1>2. evidence[home] = NoEvidence
    BY <1>1 DEF Inv, Origin
<1>3. \A u \in Replays : /\ child'[u] = child[u] /\ wait'[u] = wait[u]
                         /\ phase'[u] = phase[u] /\ verdict'[u] = verdict[u]
    BY <1>1 DEF StartOriginal, Fork, Goto, Inv, Shape
<1>4. \A t \in Replays : /\ InHook(child'[t])
                         /\ phase'[t] \in {"start", "replaying", "ended"}
                         /\ Alone(t)' => Solo(t)'
    BY <1>1, <1>3, ReplaysStay
<1> DEFINE q == Spawned("inject", config, home, home)
<1>5. child'[origin] = q
    BY DEF StartOriginal, Fork, Inv, Shape
<1>6. ~q.enabled /\ q.cfg = config
    BY Newborn
<1> HIDE DEF q
<1>7. Follows(child'[origin])
    BY <1>5, <1>6, AskedSane DEF Follows
<1> QED BY <1>1, <1>2, <1>4, <1>7 DEF Fixed

\* The tools may start when the original has ended.
LEMMA EndOriginalFixed ==
    ASSUME Inv, Fixed, EndOriginal
    PROVE  Fixed'
<1> USE Sites
<1>1. /\ UNCHANGED <<child, wait, store, evidence, errors, verdict, resumed>>
      /\ phase' = [phase EXCEPT ![origin] = "ended"]
    BY DEF EndOriginal, childVars, watchdogVars, Goto
<1>2. phase'[origin] = "ended" /\ \A u \in Replays : phase'[u] = phase[u]
    BY <1>1 DEF Inv, Shape
<1>3. \A t \in Replays : /\ InHook(child'[t])
                         /\ phase'[t] \in {"start", "replaying", "ended"}
                         /\ Alone(t)' => Solo(t)'
    BY <1>1, <1>2, ReplaysStay
<1> QED BY <1>1, <1>3 DEF Fixed

\* A child is forked with the policy of the evidence.
LEMMA ForkSolo ==
    ASSUME Inv, Fixed, NEW t \in Replays, StartReplay(t), ~resumed,
           EmptyTarget, Readable(evidence[home]), evidence[target] = NoEvidence
    PROVE  Solo(t)'
<1> USE Sites
<1> DEFINE e == evidence[home]
           cfg == Rebuilt(e)
           q == Spawned("replay", cfg, target, target)
<1>1. /\ child'[t] = q /\ wait'[t] = "poll" /\ phase'[t] = "replaying"
      /\ phase'[origin] = "ended" /\ UNCHANGED <<store, evidence>>
    BY DEF StartReplay, Fork, Goto, Inv, Shape
<1>2. q.state = "running" /\ q.code = 0 /\ q.pc = "construct" /\ q.cfg = cfg /\ ~q.enabled
    BY Newborn
<1>3. /\ DOMAIN cfg = {"n", "interval", "workers", "point", "occurrence"}
      /\ cfg.n = e.n /\ cfg.interval = e.interval /\ cfg.workers = e.workers
      /\ cfg.point = e.point /\ cfg.occurrence = e.occurrence
    BY DEF Rebuilt
<1>4. e # NoEvidence
    BY DEF Readable
<1>5. e = Descriptor(child[origin]) /\ Sane(child[origin].cfg)
    BY <1>4, Original
<1> HIDE DEF q, cfg, e
<1>6. Sane(cfg)
    BY <1>3, <1>5, Descriptors DEF Sane
<1>7. Follows(q)
    BY <1>2, <1>6 DEF Follows
<1>8. Faithful(q, e)
    BY <1>2, <1>3, <1>7 DEF Faithful, e
<1>9. store'[target].manifests = {}
    BY <1>1 DEF EmptyTarget, EmptyStore
<1> QED BY <1>1, <1>2, <1>8, <1>9 DEF Solo, e

\* A tool that is alone finds nothing to refuse: its target is empty, and the
\* evidence of a fresh run says one worker, a cadence and an occurrence.
LEMMA NotRefused ==
    ASSUME Inv, Fixed, Unvisited, ~resumed, evidence[home] # NoEvidence,
           \A o \in Replays : child[o].state = "none"
    PROVE  EmptyTarget /\ Readable(evidence[home]) /\ evidence[target] = NoEvidence
<1>1. store[target] = EmptyStore /\ evidence[target] = NoEvidence
    BY DEF Unvisited
<1>2. /\ evidence[home] = Descriptor(child[origin]) /\ Sane(child[origin].cfg)
      /\ Counted(child[origin])
    BY Original
<1>3. /\ child[origin].cfg.workers = 1 /\ child[origin].cfg.interval # 0
      /\ child[origin].cfg.occurrence # 0
    BY <1>2 DEF Counted, Sane
<1>4. Readable(evidence[home])
    BY <1>2, <1>3, Descriptors DEF Readable
<1> QED BY <1>1, <1>4 DEF EmptyTarget

\* A replay starts in an empty directory with what the evidence says.
LEMMA StartReplayFixed ==
    ASSUME Inv, Fixed, Unvisited, NEW t \in Replays, StartReplay(t)
    PROVE  Fixed'
<1> USE Sites
<1>1. /\ phase[t] = "start" /\ phase[origin] = "ended"
      /\ UNCHANGED <<store, evidence, errors, resumed>>
    BY DEF StartReplay
<1>2. \A u \in Tools \ {t} : /\ child'[u] = child[u] /\ wait'[u] = wait[u]
                             /\ phase'[u] = phase[u] /\ verdict'[u] = verdict[u]
    BY DEF StartReplay, Fork, Goto, Inv, Shape, watchdogVars
<1>3. child[t].state = "none"
    BY <1>1 DEF Inv, Tool, ToolOK
<1>4. ASSUME NEW o \in Replays \ {t}
      PROVE  /\ InHook(child'[o]) /\ phase'[o] \in {"start", "replaying", "ended"}
             /\ Alone(o)' => Solo(o)'
    <2>1. InHook(child'[o]) /\ phase'[o] \in {"start", "replaying", "ended"}
        BY <1>2 DEF Fixed
    <2>2. Alone(o)' => Alone(o)
        BY <1>1, <1>2, <1>3 DEF Alone
    <2>3. Alone(o) => Solo(o)
        BY DEF Fixed
    <2> QED BY <1>1, <1>2, <2>1, <2>2, <2>3, SoloStays
<1>5. /\ InHook(child'[t]) /\ phase'[t] \in {"start", "replaying", "ended"}
      /\ Alone(t)' => Solo(t)'
    <2>1. CASE EmptyTarget /\ Readable(evidence[home]) /\ evidence[target] = NoEvidence
        <3> DEFINE q == Spawned("replay", Rebuilt(evidence[home]), target, target)
        <3>1. child'[t] = q /\ phase'[t] = "replaying"
            BY <2>1 DEF StartReplay, Fork, Goto, Inv, Shape
        <3>2. q.code = 0
            BY Newborn
        <3> HIDE DEF q
        <3>3. Alone(t)' => ~resumed
            BY <1>1 DEF Alone
        <3>4. Alone(t)' => Solo(t)'
            BY <2>1, <3>3, ForkSolo
        <3> QED BY <3>1, <3>2, <3>4 DEF InHook, Injected
    <2>2. CASE ~(EmptyTarget /\ Readable(evidence[home]) /\ evidence[target] = NoEvidence)
        <3>1. /\ phase'[t] = "ended" /\ verdict'[t] = "refused" /\ UNCHANGED <<child, wait>>
            BY <2>2 DEF StartReplay, Goto, Inv, Shape, watchdogVars
        <3>2. wait[t] # "exited"
            BY <1>3 DEF Inv, Tool, ToolOK
        <3>3. Alone(t)' => evidence[home] = NoEvidence
            <4>1. Alone(t)' => ~resumed /\ \A o \in Replays : child[o].state = "none"
                BY <1>1, <1>3, <3>1 DEF Alone
            <4> QED BY <2>2, <4>1, NotRefused
        <3>4. phase'[origin] = "ended"
            BY <1>1, <1>2
        <3>5. Alone(t)' => Solo(t)'
            BY <1>1, <1>3, <3>1, <3>2, <3>3, <3>4 DEF Solo
        <3> QED BY <3>1, <3>5 DEF Fixed
    <2> QED BY <2>1, <2>2
<1> QED BY <1>1, <1>2, <1>4, <1>5 DEF Fixed

\* The verdict compares two traces that follow one script to one hit.
LEMMA JudgeFixed ==
    ASSUME Inv, Fixed, NEW t \in Replays, Judge(t)
    PROVE  Fixed'
<1> USE Sites
<1>1. /\ UNCHANGED <<child, wait, store, evidence, errors, resumed>>
      /\ phase'[t] = "ended" /\ phase[t] = "replaying"
      /\ \A u \in Tools \ {t} : phase'[u] = phase[u] /\ verdict'[u] = verdict[u]
    BY DEF Judge, childVars, watchdogVars, Goto, Inv, Shape
<1>2. ASSUME NEW o \in Replays
      PROVE  /\ InHook(child'[o]) /\ phase'[o] \in {"start", "replaying", "ended"}
             /\ Alone(o)' => Solo(o)'
    <2>1. InHook(child'[o]) /\ phase'[o] \in {"start", "replaying", "ended"}
        BY <1>1 DEF Fixed
    <2>2. Alone(o)' => Alone(o) /\ Solo(o)
        BY <1>1 DEF Alone, Fixed
    <2>3. CASE o = t
        <3>1. Alone(t) => verdict'[t] \in {"reproduced", "timeout"}
            BY Concluded
        <3> QED BY <1>1, <2>1, <2>2, <2>3, <3>1 DEF Solo
    <2>4. CASE o # t
        BY <1>1, <2>1, <2>2, <2>4, SoloStays
    <2> QED BY <2>3, <2>4
<1> QED BY <1>1, <1>2 DEF Fixed

\* Nobody has started.
LEMMA InitFixed == Init => Fixed
<1> SUFFICES ASSUME Init PROVE Fixed
    OBVIOUS
<1> USE Sites DEF Init, ChildInit, WatchdogInit
<1>1. NoChild.state = "none" /\ NoChild.code = 0
    BY DEF NoChild
<1>2. evidence[home] = NoEvidence /\ errors \in Nat /\ child[origin] = NoChild
    BY PlacesAssumption
<1>3. ASSUME NEW t \in Replays
      PROVE  /\ InHook(child[t]) /\ phase[t] \in {"start", "replaying", "ended"}
             /\ Alone(t) => Solo(t)
    <2>1. child[t] = NoChild /\ phase[t] = "start" /\ wait[t] = "idle"
        OBVIOUS
    <2> QED BY <1>1, <2>1 DEF InHook, Injected, Solo
<1> QED BY <1>1, <1>2, <1>3 DEF Fixed

\* The directory that a child does not work in stays empty.
LEMMA NotItsOwn ==
    ASSUME Inv, NEW t \in Tools, RunChild(t), NEW d \in Dirs \ {Site(t)},
           store[d] = EmptyStore
    PROVE  store'[d] = EmptyStore /\ evidence'[d] = evidence[d]
<1>1. Goes(t) /\ child[t].state = "running" /\ child[t].dir = Site(t) /\ DOMAIN store = Dirs
    BY ChildGoes, Now DEF Goes, Inv, Shape
<1>2. evidence'[d] = evidence[d]
    BY <1>1 DEF Goes, Elsewhere
<1>3. ChildStep(t)
    BY DEF RunChild
<1>4. CASE Throw(t)
    <2>1. store'[d] = [store[d] EXCEPT !.temps = @ \ {t}]
        BY <1>4 DEF Throw
    <2>2. [EmptyStore EXCEPT !.temps = @ \ {t}] = EmptyStore
        BY DEF EmptyStore
    <2> QED BY <1>2, <2>1, <2>2
<1>5. CASE ~Throw(t)
    <2>1. store'[d] = store[d]
        BY <1>1, <1>3, <1>5 DEF ChildStep, Construct, Open, Scan, Cleanup, Advance, Settle,
            AllReceived, Return, Receive, WriteEvidence, LinkEvidence, LinkNoReplace,
            Crash, EvidenceError
    <2> QED BY <1>2, <2>1
<1> QED BY <1>4, <1>5

\* Nobody has started.
LEMMA InitUnvisited == Init => Unvisited
<1>1. home \in Dirs /\ target \in Dirs /\ target \in Paths
    BY PlacesAssumption
<1> QED BY <1>1, Sites DEF Init, ChildInit, Unvisited

\* The first to enter the target is the child of a replay, and no child is at work
\* in the home of the original once that has ended.
LEMMA NextUnvisited ==
    ASSUME Inv, Unvisited, Next
    PROVE  Unvisited'
<1> USE Sites
<1>1. CASE StartEarlier \/ StartOriginal
    <2>1. /\ UNCHANGED <<store, evidence>> /\ phase'[origin] # "ended"
          /\ \A o \in Replays : child'[o] = child[o]
        BY <1>1 DEF StartEarlier, StartOriginal, Fork, Goto, Inv, Shape
    <2> QED BY <2>1 DEF Unvisited
<1>2. CASE EndOriginal
    <2>1. UNCHANGED <<store, evidence, child>> /\ wait[origin] \in {"exited", "failed"}
        BY <1>2 DEF EndOriginal, childVars
    <2>2. child[origin].state = "reaped"
        BY <2>1 DEF Inv, Tool, ToolOK
    <2> QED BY <2>1, <2>2 DEF Unvisited
<1>3. ASSUME NEW t \in Replays, StartReplay(t) PROVE Unvisited'
    <2>1. /\ UNCHANGED <<store, evidence>> /\ phase'[origin] = phase[origin]
          /\ \A u \in Tools \ {t} : child'[u] = child[u]
        BY <1>3 DEF StartReplay, Fork, Goto, Inv, Shape
    <2>2. child[t].state = "none"
        BY <1>3 DEF StartReplay, Inv, Tool, ToolOK
    <2> QED BY <2>1, <2>2 DEF Unvisited
<1>4. ASSUME NEW t \in Replays, Judge(t) PROVE Unvisited'
    <2>1. UNCHANGED <<store, evidence, child>> /\ phase'[origin] = phase[origin]
        BY <1>4 DEF Judge, Goto, childVars, Inv, Shape
    <2> QED BY <2>1 DEF Unvisited
<1>5. ASSUME NEW t \in Tools, RunChild(t) PROVE Unvisited'
    <2>1. /\ child[t].state = "running" /\ child'[t].state # "none"
          /\ \A u \in Tools \ {t} : child'[u] = child[u]
        BY <1>5, ChildGoes DEF Goes, On, Off, Elsewhere
    <2>2. UNCHANGED phase
        BY <1>5 DEF RunChild
    <2>3. CASE t = origin
        <3>1. /\ phase[origin] # "ended"
              /\ store[target] = EmptyStore =>
                    store'[target] = EmptyStore /\ evidence'[target] = evidence[target]
            BY <1>5, <2>1, <2>3, NotItsOwn DEF Unvisited
        <3> QED BY <2>1, <2>2, <2>3, <3>1 DEF Unvisited
    <2>4. CASE t # origin
        BY <2>1, <2>2, <2>4 DEF Unvisited
    <2> QED BY <2>3, <2>4
<1>6. ASSUME NEW t \in Tools, Supervise(t) PROVE Unvisited'
    <2>1. Watched(t)
        BY <1>6, Supervised
    <2>2. /\ \A u \in Tools \ {t} : child'[u] = child[u]
          /\ child'[t].state = "none" <=> child[t].state = "none"
          /\ child[t].state = "reaped" => child'[t].state = "reaped"
          /\ UNCHANGED <<store, evidence, phase>>
        BY <2>1 DEF Watched
    <2> QED BY <2>2 DEF Unvisited
<1> QED BY <1>1, <1>2, <1>3, <1>4, <1>5, <1>6 DEF Next

\* A failure of a fresh run is reproduced by a replay that is alone in its directory,
\* in time and free of I/O errors, for every policy and every number of blocks: the
\* evidence can be read back, and one worker follows the script to the hit that was
\* asked for.
THEOREM ReplaysReproduce == Spec => []AloneReproduces
<1> DEFINE J == Inv /\ config \in Configs /\ Fixed /\ Unvisited
<1>1. Init => J
    BY InitInv, InitFixed, InitUnvisited
<1>2. J /\ [Next]_vars => J'
    <2> SUFFICES ASSUME J, [Next]_vars PROVE J'
        OBVIOUS
    <2>1. Inv' /\ config' \in Configs
        BY NextInv
    <2>2. CASE Next
        <3>1. Fixed'
            BY <2>1, <2>2, StartEarlierFixed, StartOriginalFixed, EndOriginalFixed,
               StartReplayFixed, JudgeFixed, RunChildFixed, SuperviseFixed DEF Next
        <3>2. Unvisited'
            BY <2>2, NextUnvisited
        <3> QED BY <2>1, <3>1, <3>2
    <2>3. CASE UNCHANGED vars
        <3>1. Unvisited'
            BY <2>3 DEF vars, childVars, replayVars, Unvisited
        <3>2. Fixed'
            BY <2>3 DEF vars, childVars, watchdogVars, replayVars, Fixed, Alone, Solo
        <3> QED BY <2>1, <3>1, <3>2
    <2> QED BY <2>2, <2>3
<1>3. J => AloneReproduces
    <2> SUFFICES ASSUME Fixed PROVE AloneReproduces
        OBVIOUS
    <2> QED BY DEF AloneReproduces, Fixed, Alone, Solo
<1> HIDE DEF J
<1> QED BY <1>1, <1>2, <1>3, PTL DEF Spec
=============================================================================
