------------------------- MODULE CrashMatrixProofs -------------------------
(***************************************************************************)
(* For any number of cases, blocks and failure points: the crash matrix    *)
(* meets every hook it schedules, its evidence is durable before the child *)
(* dies, recovery is exact, no child outlives it, and it passes only if    *)
(* every point was covered.                                                *)
(***************************************************************************)
EXTENDS CrashMatrix, Integers, FiniteSetTheorems, TLAPS

-----------------------------------------------------------------------------
(* The inductive invariants *)

Fields == {"state", "code", "job", "dir", "path", "cfg", "pc", "stage", "seq", "inc",
           "status", "done", "recovered", "pending", "block", "enabled", "hits",
           "trace", "reports"}

r == child[matrix]
Running == r.state = "running"

\* What make_case builds.
CaseOK ==
    /\ points \subseteq kFailurePoints
    /\ case_ \in [n : 3 .. MaxBlocks, interval : 1 .. MaxBlocks, workers : {1},
                  point : points, occurrence : 1 .. 2]
    /\ case_.interval <= case_.n - 1

Shape ==
    /\ DOMAIN child = {matrix} /\ DOMAIN r = Fields
    /\ DOMAIN wait = {matrix}
    /\ DOMAIN store = Dirs /\ DOMAIN evidence = Dirs /\ DOMAIN lock = Dirs
    /\ \A d \in Dirs : DOMAIN store[d] = {"meta", "manifests", "results", "temps"}
    /\ index \in 1 .. Iterations + 1
    /\ points \subseteq kFailurePoints

\* How far the matrix, its watchdog and the child are with one another.
Life ==
    /\ r.state \in {"none", "running", "zombie", "reaped"}
    /\ wait[matrix] \in Waiting
    /\ phase \in {"next", "injected", "recovering", "stopped"}
    /\ wait[matrix] = "idle" => phase = "next" /\ index = 1
    /\ r.state = "none" <=> wait[matrix] = "idle"
    /\ r.state = "reaped" <=> wait[matrix] \in {"exited", "failed"}
    /\ wait[matrix] = "reap" => r.state = "zombie"
    /\ phase = "next" => wait[matrix] \in {"idle", "exited"}
    /\ phase = "stopped" => wait[matrix] \in {"exited", "failed"}
    /\ phase = "stopped" <=> code # None
    /\ phase \in {"injected", "recovering"} => index <= Iterations
    /\ Running => r.code = 0

\* The child works on the current case.
Assigned ==
    /\ phase \in {"injected", "recovering"} => CaseOK /\ r.dir = index
    /\ phase = "injected" => r.job = "inject" /\ r.path = index /\ r.cfg = case_
    /\ phase = "recovering" => r.job = "recover" /\ r.cfg = [case_ EXCEPT !.point = None]

\* Only an injected child has hooks.
Armed ==
    /\ r.enabled \in BOOLEAN
    /\ Running => (r.enabled <=> r.job = "inject" /\ r.pc # "construct")
    /\ Running /\ r.pc \in {"evidence", "link", "sync"} => r.job = "inject"

\* A run directory is locked by a child that has opened it.
Locked ==
    \A d \in Dirs :
        \/ lock[d] = None
        \/ lock[d] = matrix /\ Running /\ r.pc \notin {"construct", "open"}

\* The descriptor has its name before the child exits.
Linked == Running /\ r.pc = "sync" => evidence[r.path] = Descriptor(r)

\* Entries of a manifest for n blocks: one for a block, or exactly one.
Partial(es, n) ==
    /\ IsFiniteSet(es)
    /\ \A e \in es : e[1] \in 0 .. n - 1
    /\ \A e \in es, f \in es : e[1] = f[1] => e = f
Full(es, n) == Partial(es, n) /\ \A b \in 0 .. n - 1 : \E e \in es : e[1] = b

\* One manifest is the latest; nothing is in a directory that is not in use.
Latest(m, ms) == m \in ms /\ \A o \in ms : o.seq <= m.seq
Log ==
    /\ \A d \in Dirs :
        LET ms == store[d].manifests IN
        /\ \A m \in ms : DOMAIN m = {"seq", "inc", "entries", "status"} /\ m.seq \in Nat
        /\ \A a \in ms, b \in ms : a.seq = b.seq => a = b
        /\ ms # {} => \E m \in ms : Latest(m, ms)
        /\ ms # {} => d = index /\ phase # "next"
        /\ \A m \in ms : /\ m.status \in {"running", "complete"}
                         /\ Partial(m.entries, case_.n)
                         /\ m.status = "complete" => Full(m.entries, case_.n)

Manifests == store[r.dir].manifests
Ended(ms) == \E m \in ms : m.status = "complete" /\ Latest(m, ms)

\* Before and after the rename of an install.
Before == {"begin", "written", "fsynced", "closed"}
After == {"renamed", "installed"}
Opened == ManifestPcs \cup {"cleanup", "running", "record", "return"}

\* A child that has read the directory is ahead of it.
Ahead ==
    Running =>
        /\ r.pc \in InstallPcs \cup Opened \cup
                {"construct", "open", "scan", "evidence", "link", "sync"}
        /\ r.stage \in Before \cup After
        /\ r.seq \in Nat
        /\ r.pc \in Opened =>
            \A o \in Manifests :
                IF r.pc \in {"initial", "recovery"} /\ r.stage \in Before
                  THEN o.seq < r.seq
                ELSE IF r.pc \in {"checkpoint", "finish"} /\ r.stage \in After
                  THEN o.seq <= r.seq + 1
                ELSE o.seq <= r.seq

\* What it has in memory, and the end of the run.
Memory ==
    Running /\ r.pc \in Opened =>
        /\ Partial(r.done, case_.n)
        /\ r.status \in {"running", "complete"}
        /\ r.pc \notin {"cleanup", "return"} => r.status = "running"
        /\ r.pc = "record" => /\ r.block \in 0 .. case_.n - 1
                              /\ \A e \in r.done : e[1] # r.block
        /\ r.pc \in {"finish", "return"} => Full(r.done, case_.n)
        /\ r.pc = "cleanup" /\ r.status = "complete" => Full(r.done, case_.n)
        /\ \/ r.pc = "return"
           \/ r.pc = "cleanup" /\ r.status = "complete"
           \/ r.pc = "finish" /\ r.stage \in After
           => Ended(Manifests)

\* The second run of a recovery child finds the run complete.
Reported ==
    Running /\ r.job = "recover" =>
        /\ r.recovered \in Nat
        /\ r.reports \in Seq([recovered : Int, computed : Int])
        /\ \/ r.reports = <<>>
           \/ /\ Len(r.reports) = 1
              /\ r.reports[1].recovered + r.reports[1].computed = case_.n
              /\ Ended(Manifests)
              /\ r.pc \in {"construct", "open", "meta", "scan", "cleanup", "return"}
              /\ r.pc = "cleanup" => r.status = "complete"
              /\ r.pc = "return" => r.recovered = case_.n

\* The stages that an install has passed.
Passed(stage) ==
    CASE stage = "begin" -> {}
      [] stage = "written" -> {"written"}
      [] stage = "fsynced" -> {"written", "fsynced"}
      [] stage = "closed" -> {"written", "fsynced", "closed"}
      [] stage = "renamed" -> {"written", "fsynced", "closed", "renamed"}
      [] OTHER -> {"written", "fsynced", "closed", "renamed", "installed"}

\* The hooks of the selected point that the injected child must have met: one
\* for every artifact it has installed, and one if the current install is past it.
Base ==
    IF r.cfg.point[1] = "result" THEN Cardinality(r.done)
    ELSE IF r.pc = "initial" THEN 0
    ELSE IF r.cfg.point[2] = "installed" THEN r.seq ELSE r.seq + 1
Extra ==
    IF /\ r.pc \in InstallPcs /\ Hooked(r.pc, r.cfg.point[2])
       /\ Artifact(r.pc) = r.cfg.point[1] /\ r.cfg.point[2] \in Passed(r.stage)
      THEN 1 ELSE 0
Met == Base + Extra

\* It is a fresh run: it writes a first manifest, a periodic one and a last one.
Count ==
    Running /\ r.job = "inject" =>
        /\ r.pc \in {"construct", "open", "meta", "scan"} => Manifests = {}
        /\ r.hits \in Nat /\ r.pending \in Nat
        /\ r.pc \notin {"evidence", "link", "sync"} => r.hits < case_.occurrence
        /\ r.pc \in Opened =>
            /\ r.pc # "recovery"
            /\ r.hits >= Met
            /\ r.pc \in {"initial", "cleanup"} => r.done = {} /\ r.seq = 0 /\ r.status = "running"
            /\ r.pc \in {"running", "record", "checkpoint"} /\ r.seq = 0
                => r.pending = Cardinality(r.done)
            /\ r.pc \in {"running", "record"} /\ r.seq = 0
                => Cardinality(r.done) < case_.interval
            /\ r.pc = "finish" => r.seq >= 1
            /\ r.pc = "return" => r.seq >= 2

\* The cases that were judged, and where their children died.
Judged ==
    /\ covered = {v[2] : v \in crashed}
    /\ phase \in {"next", "injected"} => {v[1] : v \in crashed} = 1 .. index - 1
    /\ phase = "recovering" => {v[1] : v \in crashed} = 1 .. index

\* What the steps of a child change, and what the matrix and its watchdog change.
Inside == Armed /\ Locked /\ Linked /\ Log /\ Ahead /\ Memory /\ Reported /\ Count
Outside ==
    /\ Life /\ Assigned /\ Judged
    /\ InjectionReached /\ EvidenceBeforeDeath /\ RecoveryExact /\ PassMeansCovered
Inv == Shape /\ Outside /\ Inside

-----------------------------------------------------------------------------
(* Entries *)

\* Entries for all blocks are as many as the blocks.
LEMMA FullSize ==
    ASSUME NEW n \in Nat, NEW es, Full(es, n)
    PROVE  Cardinality(es) = n
<1> DEFINE f == [e \in es |-> e[1]]
<1>1. f \in Bijection(es, 0 .. n - 1)
    BY DEF Full, Partial, Bijection, Injection, Surjection, IsInjective
<1>2. ExistsBijection(es, 0 .. n - 1)
    BY <1>1 DEF ExistsBijection
<1>3. Cardinality(es) = Cardinality(0 .. n - 1)
    BY <1>2, FS_Bijection DEF Full, Partial
<1>4. Cardinality(0 .. n - 1) = n
    BY FS_Interval
<1> QED BY <1>3, <1>4

LEMMA PartialSize ==
    ASSUME NEW n, NEW es, Partial(es, n)
    PROVE  Cardinality(es) \in Nat
BY FS_CardinalityType DEF Partial

\* No entries, and one more.
LEMMA PartialGrows ==
    ASSUME NEW n \in Nat
    PROVE  /\ Partial({}, n) /\ Cardinality({}) = 0
           /\ \A es, b, i :
                Partial(es, n) /\ b \in 0 .. n - 1 /\ (\A e \in es : e[1] # b)
                => /\ Partial(es \cup {<<b, i>>}, n)
                   /\ Cardinality(es \cup {<<b, i>>}) = Cardinality(es) + 1
<1>1. Partial({}, n) /\ Cardinality({}) = 0
    BY FS_EmptySet DEF Partial
<1>2. ASSUME NEW es, NEW b, NEW i, Partial(es, n), b \in 0 .. n - 1,
             \A e \in es : e[1] # b
      PROVE  /\ Partial(es \cup {<<b, i>>}, n)
             /\ Cardinality(es \cup {<<b, i>>}) = Cardinality(es) + 1
    <2>1. <<b, i>> \notin es /\ <<b, i>>[1] = b
        BY <1>2
    <2>2. /\ IsFiniteSet(es \cup {<<b, i>>})
          /\ Cardinality(es \cup {<<b, i>>}) = Cardinality(es) + 1
        BY <1>2, <2>1, FS_AddElement DEF Partial
    <2>3. \A e \in es \cup {<<b, i>>} : e[1] \in 0 .. n - 1
        BY <1>2, <2>1 DEF Partial
    <2>4. \A e \in es \cup {<<b, i>>}, f \in es \cup {<<b, i>>} : e[1] = f[1] => e = f
        BY <1>2, <2>1 DEF Partial
    <2> QED BY <2>2, <2>3, <2>4 DEF Partial
<1> QED BY <1>1, <1>2

-----------------------------------------------------------------------------
(* Steps of a running child *)

\* A running child works on the current case, with the configuration of the case.
LEMMA OnCase ==
    ASSUME Shape, Life, Assigned, Running
    PROVE  /\ phase \in {"injected", "recovering"} /\ CaseOK
           /\ r.dir = index /\ index \in Dirs
           /\ r.job = (IF phase = "injected" THEN "inject" ELSE "recover")
           /\ phase = "injected" => r.cfg = case_ /\ r.path = index
           /\ phase = "recovering" => r.cfg.point = None
           /\ r.cfg.n = case_.n /\ r.cfg.interval = case_.interval
           /\ r.cfg.workers = 1 /\ r.cfg.occurrence = case_.occurrence
           /\ r.cfg \in [n : 3 .. MaxBlocks, interval : 1 .. MaxBlocks, workers : {1},
                         point : points \cup {None}, occurrence : 1 .. 2]
           /\ Cadence(r.cfg) = r.cfg.interval
<1>1. phase \in {"injected", "recovering"}
    BY DEF Life, Running
<1>2. CaseOK /\ r.dir = index /\ index \in Dirs
    BY <1>1, CasesAssumption DEF Life, Assigned, Shape
<1>3. /\ case_ \in [n : 3 .. MaxBlocks, interval : 1 .. MaxBlocks, workers : {1},
                     point : points, occurrence : 1 .. 2]
      /\ case_.interval # 0
    BY <1>2 DEF CaseOK
<1>4. CASE phase = "injected"
    <2>1. r.cfg = case_ /\ r.path = index /\ r.job = "inject"
        BY <1>4 DEF Assigned
    <2>2. Cadence(case_) = case_.interval
        BY <1>3 DEF Cadence
    <2> QED BY <1>2, <1>3, <1>4, <2>1, <2>2
<1>5. CASE phase = "recovering"
    <2>1. r.cfg = [case_ EXCEPT !.point = None] /\ r.job = "recover"
        BY <1>5 DEF Assigned
    <2>2. /\ r.cfg.point = None /\ r.cfg.n = case_.n /\ r.cfg.interval = case_.interval
          /\ r.cfg.workers = 1 /\ r.cfg.occurrence = case_.occurrence
        BY <1>3, <2>1
    <2>3. Cadence(r.cfg) = r.cfg.interval
        BY <1>3, <2>2 DEF Cadence
    <2>4. r.cfg \in [n : 3 .. MaxBlocks, interval : 1 .. MaxBlocks, workers : {1},
                     point : points \cup {None}, occurrence : 1 .. 2]
        BY <1>3, <2>1
    <2> QED BY <1>2, <1>5, <2>1, <2>2, <2>3, <2>4
<1> QED BY <1>1, <1>4, <1>5

\* The manifests in the run directories, and the run directories themselves.
SameManifests ==
    /\ DOMAIN store' = Dirs
    /\ \A d \in Dirs : /\ DOMAIN store'[d] = {"meta", "manifests", "results", "temps"}
                       /\ store'[d].manifests = store[d].manifests

LEMMA SameLog ==
    ASSUME Log, SameManifests, UNCHANGED <<index, phase, case_>>
    PROVE  Log'
BY DEF Log, SameManifests, Latest, Partial, Full

\* What is true of a running child is not at stake when it is dead.
LEMMA NotRunning ==
    ASSUME Shape, Inside, ~Running', r'.enabled = r.enabled, Unlock(matrix), Log'
    PROVE  Inside'
<1>1. Armed' /\ Linked' /\ Ahead' /\ Memory' /\ Reported' /\ Count'
    BY DEF Inside, Armed, Linked, Ahead, Memory, Reported, Count
<1>2. Locked'
    <2> SUFFICES ASSUME NEW d \in Dirs PROVE lock'[d] = None
        BY DEF Locked
    <2>1. lock[d] \in {None, matrix}
        BY DEF Inside, Locked
    <2>2. lock'[d] = IF lock[d] = matrix THEN None ELSE lock[d]
        BY DEF Unlock
    <2> QED BY <2>1, <2>2
<1> QED BY <1>1, <1>2 DEF Inside

\* A child ends, with or without evidence.
LEMMA ChildDies ==
    ASSUME Inv, Running, NEW c, c \notin {Returned, RecoveryFailed},
           child' = [child EXCEPT ![matrix].state = "zombie", ![matrix].code = c],
           Unlock(matrix), SameManifests, DOMAIN evidence' = Dirs,
           c = Injected => /\ evidence'[r.path] = Descriptor(r)
                           /\ r.path \in synced'
                           /\ <<r.path, matrix>> \notin litter',
           UNCHANGED <<watchdogVars, matrixVars>>
    PROVE  Inv'
<1> USE DEF watchdogVars, matrixVars
<1>0. /\ DOMAIN child' = {matrix} /\ DOMAIN r' = Fields
      /\ r'.state = "zombie" /\ r'.code = c /\ r'.enabled = r.enabled
      /\ r'.job = r.job /\ r'.dir = r.dir /\ r'.path = r.path /\ r'.cfg = r.cfg
      /\ r'.trace = r.trace
    BY DEF Inv, Shape, Fields, r
<1>1. Shape'
    BY <1>0 DEF Inv, Shape, Unlock, SameManifests
<1>2. Inside'
    BY <1>0, NotRunning, SameLog DEF Inv, Inside, Running
<1>3. Life'
    BY <1>0 DEF Inv, Outside, Life, Waiting, Running
<1>4. Assigned'
    BY <1>0 DEF Inv, Outside, Assigned, CaseOK
<1>5. Judged' /\ PassMeansCovered'
    BY DEF Inv, Outside, Judged, PassMeansCovered
<1>6. InjectionReached' /\ RecoveryExact'
    BY <1>0 DEF InjectionReached, RecoveryExact, r
<1>7. EvidenceBeforeDeath'
    <2>1. Descriptor(r)' = Descriptor(r)
        BY <1>0 DEF Descriptor
    <2> QED BY <1>0, <2>1 DEF EvidenceBeforeDeath, r
<1> QED BY <1>1, <1>2, <1>3, <1>4, <1>5, <1>6, <1>7 DEF Inv, Outside

\* A step after which the child is still running, on the same case.
StoreShape ==
    /\ DOMAIN store' = Dirs
    /\ \A d \in Dirs : DOMAIN store'[d] = {"meta", "manifests", "results", "temps"}
Alive ==
    /\ DOMAIN child' = {matrix} /\ DOMAIN r' = Fields
    /\ r'.state = "running" /\ r'.code = r.code /\ r'.job = r.job
    /\ r'.dir = r.dir /\ r'.path = r.path /\ r'.cfg = r.cfg

LEMMA ChildLives ==
    ASSUME Inv, Running, Alive, StoreShape, DOMAIN evidence' = Dirs, DOMAIN lock' = Dirs,
           UNCHANGED <<watchdogVars, matrixVars>>
    PROVE  Shape' /\ Outside'
<1> USE DEF watchdogVars, matrixVars
<1>0. r'.code = 0 /\ Running'
    BY DEF Inv, Outside, Life, Alive, Running
<1>1. Shape'
    BY DEF Inv, Shape, StoreShape, Alive
<1>3. Life'
    BY <1>0 DEF Inv, Outside, Life, Waiting, Running, Alive
<1>4. Assigned'
    BY DEF Inv, Outside, Assigned, CaseOK, Alive
<1>5. Judged' /\ PassMeansCovered'
    BY DEF Inv, Outside, Judged, PassMeansCovered
<1>6. InjectionReached' /\ RecoveryExact' /\ EvidenceBeforeDeath'
    BY <1>0 DEF InjectionReached, RecoveryExact, EvidenceBeforeDeath, r,
        Returned, RecoveryFailed, Injected
<1> QED BY <1>1, <1>3, <1>4, <1>5, <1>6 DEF Outside

\* An exception ends an injected child.
LEMMA Throws ==
    ASSUME Inv, Running, r.job = "inject", Throw(matrix),
           UNCHANGED <<watchdogVars, matrixVars>>
    PROVE  Inv'
<1>1. child' = [child EXCEPT ![matrix].state = "zombie", ![matrix].code = Threw]
    BY DEF Throw, Die, r
<1>2. Unlock(matrix) /\ DOMAIN evidence' = Dirs
    BY DEF Throw, Die, Inv, Shape
<1>3. SameManifests
    BY DEF Throw, Inv, Shape, SameManifests
<1>4. Threw \notin {Returned, RecoveryFailed} /\ Threw # Injected
    BY DEF Threw, Returned, RecoveryFailed, Injected
<1> QED BY <1>1, <1>2, <1>3, <1>4, ChildDies

\* The FailureInjector is made; a path that is taken ends the child.
LEMMA ConstructStep ==
    ASSUME Inv, Construct(matrix), UNCHANGED <<watchdogVars, matrixVars>>
    PROVE  Inv'
<1> USE DEF watchdogVars, matrixVars
<1>0. Running /\ r.pc = "construct"
    BY DEF Construct, At, Running, r
<1>a. Shape /\ Life /\ Assigned /\ Inside
    BY DEF Inv, Outside
<1>c. /\ phase \in {"injected", "recovering"} /\ CaseOK
      /\ r.dir = index /\ index \in Dirs
      /\ r.job = (IF phase = "injected" THEN "inject" ELSE "recover")
      /\ phase = "injected" => r.cfg = case_
      /\ phase = "recovering" => r.cfg.point = None
    BY <1>0, <1>a, OnCase
<1>1. CASE r.cfg.point = None \/ InjectorAccepts(matrix)
    <2>1. child' = [child EXCEPT ![matrix] = Constructed(r)]
          /\ UNCHANGED <<store, lock, evidence>>
        BY <1>1 DEF Construct, Become, r
    <2>2. /\ DOMAIN Constructed(r) = Fields
          /\ \A f \in Fields \ {"pc", "enabled", "cfg", "hits", "trace"} :
                Constructed(r)[f] = r[f]
          /\ Constructed(r).pc = "open" /\ Constructed(r).hits = 0
          /\ Constructed(r).enabled = (r.cfg.point # None)
        BY <1>a DEF Constructed, Shape, Fields
    <2>3. Constructed(r).cfg = r.cfg
        <3>1. Constructed(r).cfg = [r.cfg EXCEPT !.interval = Cadence(r.cfg)]
            BY <1>a DEF Constructed, Shape, Fields
        <3>2. Cadence(r.cfg) = r.cfg.interval
            BY <1>0, <1>a, OnCase
        <3>3. r.cfg \in [n : 3 .. MaxBlocks, interval : 1 .. MaxBlocks, workers : {1},
                         point : points \cup {None}, occurrence : 1 .. 2]
            BY <1>0, <1>a, OnCase
        <3> QED BY <3>1, <3>2, <3>3
    <2>4. r' = Constructed(r)
        BY <1>a, <2>1 DEF Shape, r
    <2>5. Alive
        BY <1>a, <1>0, <2>1, <2>2, <2>3, <2>4 DEF Alive, Shape, Fields, Running
    <2>6. Shape' /\ Outside'
        BY <1>0, <1>a, <2>1, <2>5, ChildLives DEF StoreShape, Shape
    <2>7. r'.stage = r.stage /\ r'.seq = r.seq /\ r'.reports = r.reports
          /\ r'.pending = r.pending
          /\ r'.recovered = r.recovered /\ r'.pc = "open" /\ r'.hits = 0
          /\ r'.enabled = (r.cfg.point # None)
        BY <2>2, <2>4 DEF Fields
    <2>8. Armed'
        BY <1>c, <2>5, <2>7, ApartAssumption DEF Armed, Alive, Running, CaseOK
    <2>9. Locked' /\ Linked'
        BY <1>0, <1>a, <2>1, <2>7 DEF Inside, Locked, Linked
    <2>10. Log' /\ Manifests' = Manifests
        BY <1>a, <2>1, <2>5, SameLog DEF Inside, SameManifests, Shape, Manifests, Alive
    <2>11. Ahead' /\ Memory'
        BY <1>0, <1>a, <2>7 DEF Inside, Ahead, Memory, Opened, ManifestPcs
    <2>12. Reported'
        BY <1>0, <1>a, <2>5, <2>7, <2>10 DEF Inside, Reported, Alive, Ended, Latest, Running
    <2>13. Count'
        BY <1>0, <1>a, <1>c, <2>5, <2>7, <2>10
        DEF Inside, Count, Alive, Running, Opened, ManifestPcs, CaseOK
    <2> QED BY <2>6, <2>8, <2>9, <2>10, <2>11, <2>12, <2>13 DEF Inv, Inside
<1>2. CASE ~(r.cfg.point = None \/ InjectorAccepts(matrix))
    <2>1. Throw(matrix) /\ r.job = "inject"
        BY <1>2, <1>c DEF Construct, r
    <2> QED BY <1>0, <2>1, Throws
<1> QED BY <1>1, <1>2

\* The facts that every step of a running child starts from.
LEMMA Now ==
    ASSUME Inv, Running
    PROVE  /\ Shape /\ Life /\ Assigned /\ Inside
           /\ phase \in {"injected", "recovering"} /\ CaseOK
           /\ r.dir = index /\ index \in Dirs
           /\ r.job = (IF phase = "injected" THEN "inject" ELSE "recover")
           /\ phase = "injected" => r.cfg = case_ /\ r.path = index
           /\ phase = "recovering" => r.cfg.point = None
           /\ r.cfg.n = case_.n /\ r.cfg.interval = case_.interval
           /\ r.cfg.workers = 1 /\ r.cfg.occurrence = case_.occurrence
           /\ case_.n \in Nat /\ case_.n >= 3 /\ case_.interval \in Nat
           /\ case_.interval >= 1 /\ case_.interval <= case_.n - 1
           /\ case_.occurrence \in 1 .. 2 /\ case_.point \in kFailurePoints
<1>1. Shape /\ Life /\ Assigned /\ Inside
    BY DEF Inv, Outside
<1>2. /\ phase \in {"injected", "recovering"} /\ CaseOK
      /\ r.dir = index /\ index \in Dirs
      /\ r.job = (IF phase = "injected" THEN "inject" ELSE "recover")
      /\ phase = "injected" => r.cfg = case_ /\ r.path = index
      /\ phase = "recovering" => r.cfg.point = None
      /\ r.cfg.n = case_.n /\ r.cfg.interval = case_.interval
      /\ r.cfg.workers = 1 /\ r.cfg.occurrence = case_.occurrence
    BY <1>1, OnCase
<1>3. /\ case_.n \in Nat /\ case_.n >= 3 /\ case_.interval \in Nat
      /\ case_.interval >= 1 /\ case_.interval <= case_.n - 1
      /\ case_.occurrence \in 1 .. 2 /\ case_.point \in kFailurePoints
    BY <1>2, RunAssumption DEF CaseOK
<1> QED BY <1>1, <1>2, <1>3

\* The run directory is locked and tmp/ is swept; nobody else holds the lock.
LEMMA OpenStep ==
    ASSUME Inv, Open(matrix), UNCHANGED <<watchdogVars, matrixVars>>
    PROVE  Inv'
<1> USE DEF watchdogVars, matrixVars
<1>0. Running /\ r.pc = "open"
    BY DEF Open, At, Running, r
<1> USE <1>0, Now
<1>1. \A d \in Dirs : lock[d] = None
    BY DEF Inside, Locked
<1>2. /\ lock' = [lock EXCEPT ![r.dir] = matrix]
      /\ store' = [store EXCEPT ![r.dir].temps = {}]
      /\ child' = [child EXCEPT ![matrix] = [r EXCEPT !.stage = "begin",
                        !.pc = IF store[r.dir].meta THEN "scan" ELSE "meta"]]
      /\ evidence' = evidence
    BY <1>1 DEF Open, Become, r
<1>3. /\ DOMAIN r' = Fields /\ r'.stage = "begin" /\ r'.pc \in {"scan", "meta"}
      /\ \A f \in Fields \ {"stage", "pc"} : r'[f] = r[f]
    BY <1>2 DEF Shape, Fields, r
<1>4. Alive
    BY <1>2, <1>3 DEF Alive, Shape, Fields, Running
<1>5. SameManifests
    BY <1>2 DEF SameManifests, Shape
<1>6. Shape' /\ Outside'
    BY <1>2, <1>4, <1>5, ChildLives DEF StoreShape, SameManifests, Shape
<1>7. /\ r'.seq = r.seq /\ r'.reports = r.reports /\ r'.recovered = r.recovered
      /\ r'.pending = r.pending /\ r'.hits = r.hits /\ r'.enabled = r.enabled
    BY <1>3 DEF Fields
<1>8. Armed' /\ Linked'
    BY <1>3, <1>4, <1>7 DEF Inside, Armed, Linked, Alive, Running
<1>9. Locked'
    BY <1>1, <1>2, <1>3, <1>4 DEF Locked, Alive, Running, Shape
<1>10. Log' /\ Manifests' = Manifests
    BY <1>4, <1>5, SameLog DEF Inside, SameManifests, Manifests, Alive
<1>11. Ahead' /\ Memory'
    BY <1>3, <1>7 DEF Inside, Ahead, Memory, Opened, InstallPcs, ManifestPcs, Before
<1>12. Reported'
    BY <1>3, <1>4, <1>7, <1>10 DEF Inside, Reported, Alive, Ended, Latest, Running
<1>13. Count'
    BY <1>3, <1>4, <1>7, <1>10 DEF Inside, Count, Alive, Running, Opened, ManifestPcs
<1> QED BY <1>6, <1>8, <1>9, <1>10, <1>11, <1>12, <1>13 DEF Inv, Inside

\* The latest manifest is read (load_latest_valid_manifest).
LEMMA ScanStep ==
    ASSUME Inv, Scan(matrix), UNCHANGED <<watchdogVars, matrixVars>>
    PROVE  Inv'
<1> USE DEF watchdogVars, matrixVars
<1>0. Running /\ r.pc = "scan"
    BY DEF Scan, At, Running, r
<1> USE <1>0, Now
<1> DEFINE ms == Manifests
           m == LatestManifest(ms)
<1>1. /\ child' = [child EXCEPT ![matrix] = [Scanned(r, ms) EXCEPT !.stage = "begin"]]
      /\ UNCHANGED <<store, lock, evidence>>
    BY DEF Scan, Become, Quiet, r, Manifests
<1>2. ms # {} => /\ Latest(m, ms) /\ m.seq \in Nat /\ Partial(m.entries, case_.n)
                 /\ m.status \in {"running", "complete"}
                 /\ m.status = "complete" => Full(m.entries, case_.n)
    <2> SUFFICES ASSUME ms # {}
                 PROVE  /\ Latest(m, ms) /\ m.seq \in Nat /\ Partial(m.entries, case_.n)
                        /\ m.status \in {"running", "complete"}
                        /\ m.status = "complete" => Full(m.entries, case_.n)
        OBVIOUS
    <2>1. \E x \in ms : \A o \in ms : o.seq <= x.seq
        BY DEF Inside, Log, Latest, Manifests
    <2>2. Latest(m, ms)
        BY <2>1 DEF LatestManifest, Latest
    <2> QED BY <2>2 DEF Inside, Log, Latest, Manifests
<1>3. Ended(ms) => ms # {} /\ m.status = "complete"
    <2> SUFFICES ASSUME Ended(ms) PROVE ms # {} /\ m.status = "complete"
        OBVIOUS
    <2>1. PICK x \in ms : x.status = "complete" /\ Latest(x, ms)
        BY DEF Ended
    <2>2. Latest(m, ms)
        BY <1>2, <2>1
    <2>3. x.seq \in Nat /\ m.seq \in Nat /\ x.seq <= m.seq /\ m.seq <= x.seq
        BY <1>2, <2>1, <2>2 DEF Latest, Inside, Log, Manifests
    <2>4. x = m
        BY <2>1, <2>2, <2>3 DEF Latest, Inside, Log, Manifests
    <2> QED BY <2>1, <2>4
<1>4. /\ DOMAIN r' = Fields /\ r'.stage = "begin"
      /\ \A f \in Fields \ {"stage", "pc", "seq", "inc", "status", "done"} : r'[f] = r[f]
      /\ \/ /\ ms = {} /\ r'.pc = "initial" /\ r'.seq = 0 /\ r'.status = "running"
            /\ r'.done = {}
         \/ /\ ms # {} /\ m.status = "complete" /\ r'.pc = "cleanup" /\ r'.seq = m.seq
            /\ r'.status = "complete" /\ r'.done = m.entries
         \/ /\ ms # {} /\ m.status # "complete" /\ r'.pc = "recovery"
            /\ r'.seq = m.seq + 1 /\ r'.status = m.status /\ r'.done = m.entries
    <2>1. (CHOOSE h \in ms : \A o \in ms : o.seq <= h.seq) = m
        BY DEF LatestManifest
    <2>2. r' = [Scanned(r, ms) EXCEPT !.stage = "begin"]
        BY <1>1 DEF Shape, r
    <2> HIDE DEF m, ms
    <2>3. CASE ms = {}
        BY <2>2, <2>3 DEF Scanned, Shape, Fields
    <2>4. CASE ms # {} /\ m.status = "complete"
        BY <2>2, <2>4 DEF Scanned, Shape, Fields, m
    <2>5. CASE ms # {} /\ m.status # "complete"
        BY <2>1, <2>2, <2>5 DEF Scanned, Shape, Fields, m
    <2> QED BY <2>3, <2>4, <2>5
<1> HIDE DEF m
<1>5. Alive
    BY <1>1, <1>4 DEF Alive, Shape, Fields, Running
<1>6. Shape' /\ Outside'
    BY <1>1, <1>5, ChildLives DEF StoreShape, Shape
<1>7. /\ r'.reports = r.reports /\ r'.recovered = r.recovered
      /\ r'.pending = r.pending /\ r'.hits = r.hits /\ r'.enabled = r.enabled
    BY <1>4 DEF Fields
<1>8. Armed' /\ Linked' /\ Locked'
    BY <1>1, <1>4, <1>5, <1>7 DEF Inside, Armed, Linked, Locked, Alive, Running
<1>9. Log' /\ Manifests' = Manifests
    BY <1>1, <1>5, SameLog DEF Inside, SameManifests, Manifests, Alive, Shape
<1>10. Ahead'
    <2>1. \A o \in ms : o.seq \in Nat /\ o.seq <= m.seq
        BY <1>2 DEF Inside, Log, Latest, Manifests
    <2>2. Manifests' = ms
        BY <1>9
    <2>3. m.seq \in Nat \/ ms = {}
        BY <1>2
    <2> HIDE DEF ms
    <2>4. r'.seq \in Nat /\ r'.pc \in {"initial", "recovery", "cleanup"}
        BY <1>4, <2>3
    <2>5. \A o \in ms : IF r'.pc \in {"initial", "recovery"} THEN o.seq < r'.seq
                       ELSE o.seq <= r'.seq
        BY <1>4, <2>1, <2>3
    <2> QED BY <1>4, <2>2, <2>4, <2>5
        DEF Ahead, Opened, InstallPcs, ManifestPcs, Before, After
<1>11. Memory'
    <2>1. CASE ms = {}
        BY <1>4, <2>1, PartialGrows DEF Memory, After, Before
    <2>2. CASE ms # {}
        BY <1>2, <1>4, <1>9, <2>2 DEF Memory, Ended, Before, After, Latest
    <2> QED BY <2>1, <2>2
<1>12. Reported'
    BY <1>3, <1>4, <1>5, <1>7, <1>9 DEF Inside, Reported, Alive, Ended, Latest, Running
<1>13. Count'
    <2> SUFFICES ASSUME Running', r'.job = "inject" PROVE Count'
        BY DEF Count
    <2>1. /\ Manifests = {} /\ r.hits \in Nat /\ r.hits < case_.occurrence
          /\ r.pending \in Nat
        BY <1>5 DEF Inside, Count, Alive
    <2>2. r'.pc = "initial" /\ r'.seq = 0 /\ r'.done = {} /\ r'.status = "running"
        BY <1>4, <2>1
    <2>3. Met' = 0
        <3>1. Passed(r.stage)' = {}
            BY <1>4 DEF Passed
        <3> QED BY <2>2, <3>1, PartialGrows DEF Met, Base, Extra
    <2> QED BY <1>7, <1>9, <2>1, <2>2, <2>3 DEF Count
<1> QED BY <1>6, <1>8, <1>9, <1>10, <1>11, <1>12, <1>13 DEF Inv, Inside

\* A step that only moves the child on, between opening and the hooks' evidence.
LEMMA MovesOn ==
    ASSUME Inv, Running, Alive, SameManifests, UNCHANGED <<lock, evidence>>,
           UNCHANGED <<watchdogVars, matrixVars>>, r'.enabled = r.enabled,
           r.pc \notin {"construct", "open"},
           r'.pc \notin {"construct", "open", "evidence", "link", "sync"}
    PROVE  /\ Shape' /\ Outside' /\ Armed' /\ Linked' /\ Locked' /\ Log'
           /\ Manifests' = Manifests
<1> USE Now DEF watchdogVars, matrixVars
<1>1. Shape' /\ Outside'
    BY ChildLives DEF StoreShape, SameManifests, Shape
<1>2. Armed' /\ Linked' /\ Locked'
    BY DEF Inside, Armed, Linked, Locked, Alive, Running
<1>3. Log' /\ Manifests' = Manifests
    BY SameLog DEF Inside, SameManifests, Manifests, Alive
<1> QED BY <1>1, <1>2, <1>3

\* Orphans are removed; a run that is complete is returned as it is.
LEMMA CleanupStep ==
    ASSUME Inv, Cleanup(matrix), UNCHANGED <<watchdogVars, matrixVars>>
    PROVE  Inv'
<1>0. Running /\ r.pc = "cleanup"
    BY DEF Cleanup, At, Running, r
<1> USE <1>0, Now
<1>1. /\ store' = [store EXCEPT ![r.dir].results = r.done]
      /\ child' = [child EXCEPT ![matrix] =
                     [r EXCEPT !.recovered = Cardinality(r.done), !.pending = 0,
                               !.pc = IF r.status = "complete" THEN "return"
                                      ELSE "running"]]
      /\ UNCHANGED <<lock, evidence>>
    BY DEF Cleanup, Become, Quiet, r
<1>2. /\ DOMAIN r' = Fields /\ r'.pending = 0 /\ r'.recovered = Cardinality(r.done)
      /\ r'.pc = IF r.status = "complete" THEN "return" ELSE "running"
      /\ \A f \in Fields \ {"recovered", "pending", "pc"} : r'[f] = r[f]
    BY <1>1 DEF Shape, Fields, r
<1>3. Alive /\ SameManifests
    BY <1>1, <1>2 DEF Alive, Shape, Fields, Running, SameManifests
<1>4. /\ r'.seq = r.seq /\ r'.reports = r.reports /\ r'.done = r.done /\ r'.stage = r.stage
      /\ r'.status = r.status /\ r'.hits = r.hits /\ r'.enabled = r.enabled /\ r'.cfg = r.cfg
      /\ r'.job = r.job
    BY <1>2 DEF Fields
<1>5. /\ Shape' /\ Outside' /\ Armed' /\ Linked' /\ Locked' /\ Log'
      /\ Manifests' = Manifests
    BY <1>1, <1>2, <1>3, <1>4, MovesOn
<1>a. UNCHANGED case_
    BY DEF matrixVars
<1>6. Ahead'
    BY <1>2, <1>4, <1>5 DEF Inside, Ahead, Opened, InstallPcs, ManifestPcs
<1>b. /\ Partial(r.done, case_.n) /\ Cardinality(r.done) \in Nat
      /\ r.status = "complete" => /\ Full(r.done, case_.n) /\ Ended(Manifests)
                                  /\ Cardinality(r.done) = case_.n
    BY PartialSize, FullSize DEF Inside, Memory, Opened
<1>7. Memory'
    BY <1>2, <1>4, <1>5, <1>a, <1>b DEF Inside, Memory, Opened, ManifestPcs
<1>8. Reported'
    BY <1>2, <1>3, <1>4, <1>5, <1>a, <1>b DEF Inside, Reported, Alive, Running
<1>9. Count'
    <2> SUFFICES ASSUME Running', r'.job = "inject" PROVE Count'
        BY DEF Count
    <2>1. /\ r.hits \in Nat /\ r.hits < case_.occurrence /\ r.hits >= Met
          /\ r.done = {} /\ r.seq = 0 /\ r.status = "running"
        BY <1>4 DEF Inside, Count, Opened
    <2>2. Met' = Met
        BY <1>2, <1>4, <2>1 DEF Met, Base, Extra, InstallPcs, ManifestPcs
    <2>3. Cardinality(r'.done) = 0
        BY <1>4, <2>1, PartialGrows
    <2> QED BY <1>2, <1>4, <1>a, <2>1, <2>2, <2>3 DEF Count, Opened
<1> QED BY <1>5, <1>6, <1>7, <1>8, <1>9 DEF Inv, Inside

\* A completion is received, and its result is to be recorded.
LEMMA ReceiveStep ==
    ASSUME Inv, NEW b \in 0 .. MaxBlocks - 1, Receive(matrix, b),
           UNCHANGED <<watchdogVars, matrixVars>>
    PROVE  Inv'
<1>0. Running /\ r.pc = "running"
    BY DEF Receive, At, Running, r
<1> USE <1>0, Now
<1>1. /\ child' = [child EXCEPT ![matrix] =
                     [r EXCEPT !.pc = "record", !.block = b, !.stage = "begin"]]
      /\ b \in Missing(r) /\ UNCHANGED <<store, lock, evidence>>
    BY DEF Receive, Become, Quiet, r
<1>2. /\ DOMAIN r' = Fields /\ r'.pc = "record" /\ r'.block = b /\ r'.stage = "begin"
      /\ \A f \in Fields \ {"pc", "block", "stage"} : r'[f] = r[f]
    BY <1>1 DEF Shape, Fields, r
<1>3. Alive /\ SameManifests
    BY <1>1, <1>2 DEF Alive, Shape, Fields, Running, SameManifests
<1>4. /\ r'.seq = r.seq /\ r'.reports = r.reports /\ r'.done = r.done
      /\ r'.status = r.status /\ r'.hits = r.hits /\ r'.enabled = r.enabled
      /\ r'.cfg = r.cfg /\ r'.job = r.job /\ r'.pending = r.pending
      /\ r'.recovered = r.recovered
    BY <1>2 DEF Fields
<1>5. /\ Shape' /\ Outside' /\ Armed' /\ Linked' /\ Locked' /\ Log'
      /\ Manifests' = Manifests
    BY <1>1, <1>2, <1>3, <1>4, MovesOn
<1>a. UNCHANGED case_
    BY DEF matrixVars
<1>6. Ahead'
    BY <1>2, <1>4, <1>5 DEF Inside, Ahead, Opened, InstallPcs, ManifestPcs, Before
<1>b. b \in 0 .. case_.n - 1 /\ \A e \in r.done : e[1] # b
    BY <1>1 DEF Missing, Blocks
<1>7. Memory'
    BY <1>2, <1>4, <1>5, <1>a, <1>b DEF Inside, Memory, Opened, ManifestPcs
<1>8. Reported'
    BY <1>2, <1>3, <1>4, <1>5, <1>a DEF Inside, Reported, Alive, Running
<1>9. Count'
    <2>1. Met' = Met
        <3>1. Passed(r.stage)' = {}
            BY <1>2 DEF Passed
        <3> QED BY <1>2, <1>4, <3>1 DEF Met, Base, Extra, InstallPcs, ManifestPcs
    <2> QED BY <1>2, <1>3, <1>4, <1>a, <2>1 DEF Inside, Count, Opened, Alive, Running
<1> QED BY <1>5, <1>6, <1>7, <1>8, <1>9 DEF Inv, Inside

\* All blocks are in memory.  An injected child has taken a checkpoint before.
LEMMA AllReceivedStep ==
    ASSUME Inv, AllReceived(matrix), UNCHANGED <<watchdogVars, matrixVars>>
    PROVE  Inv'
<1>0. Running /\ r.pc = "running"
    BY DEF AllReceived, At, Running, r
<1> USE <1>0, Now
<1>1. /\ child' = [child EXCEPT ![matrix] = [r EXCEPT !.pc = "finish", !.stage = "begin"]]
      /\ Missing(r) = {} /\ UNCHANGED <<store, lock, evidence>>
    BY DEF AllReceived, Become, Quiet, r
<1>2. /\ DOMAIN r' = Fields /\ r'.pc = "finish" /\ r'.stage = "begin"
      /\ \A f \in Fields \ {"pc", "stage"} : r'[f] = r[f]
    BY <1>1 DEF Shape, Fields, r
<1>3. Alive /\ SameManifests
    BY <1>1, <1>2 DEF Alive, Shape, Fields, Running, SameManifests
<1>4. /\ r'.seq = r.seq /\ r'.reports = r.reports /\ r'.done = r.done
      /\ r'.status = r.status /\ r'.hits = r.hits /\ r'.enabled = r.enabled
      /\ r'.cfg = r.cfg /\ r'.job = r.job /\ r'.pending = r.pending
      /\ r'.recovered = r.recovered
    BY <1>2 DEF Fields
<1>5. /\ Shape' /\ Outside' /\ Armed' /\ Linked' /\ Locked' /\ Log'
      /\ Manifests' = Manifests
    BY <1>1, <1>2, <1>3, <1>4, MovesOn
<1>a. UNCHANGED case_
    BY DEF matrixVars
<1>6. Ahead'
    BY <1>2, <1>4, <1>5 DEF Inside, Ahead, Opened, InstallPcs, ManifestPcs, Before, After
<1>b. Full(r.done, case_.n) /\ Cardinality(r.done) = case_.n
    <2>1. Partial(r.done, case_.n)
        BY DEF Inside, Memory, Opened
    <2>2. \A b \in 0 .. case_.n - 1 : \E e \in r.done : e[1] = b
        BY <1>1 DEF Missing, Blocks
    <2> QED BY <2>1, <2>2, FullSize DEF Full
<1>7. Memory'
    BY <1>2, <1>4, <1>5, <1>a, <1>b DEF Inside, Memory, Opened, ManifestPcs, After
<1>8. Reported'
    BY <1>2, <1>3, <1>4, <1>5, <1>a DEF Inside, Reported, Alive, Running
<1>9. Count'
    <2>1. Met' = Met
        <3>1. Passed(r.stage)' = {}
            BY <1>2 DEF Passed
        <3> QED BY <1>2, <1>4, <3>1 DEF Met, Base, Extra, InstallPcs, ManifestPcs
    <2>2. r.job = "inject" => r.seq >= 1
        <3>1. r.seq \in Nat
            BY DEF Inside, Ahead
        <3> QED BY <1>b, <3>1 DEF Inside, Count, Opened
    <2> QED BY <1>2, <1>3, <1>4, <1>a, <2>1, <2>2 DEF Inside, Count, Opened, Alive, Running
<1> QED BY <1>5, <1>6, <1>7, <1>8, <1>9 DEF Inv, Inside

\* The injected child writes its descriptor beside the final name.
LEMMA WriteEvidenceStep ==
    ASSUME Inv, WriteEvidence(matrix), UNCHANGED <<watchdogVars, matrixVars>>
    PROVE  Inv'
<1> USE DEF watchdogVars, matrixVars
<1>0. Running /\ r.pc = "evidence"
    BY DEF WriteEvidence, At, Running, r
<1> USE <1>0, Now
<1>1. /\ child' = [child EXCEPT ![matrix] = [r EXCEPT !.pc = "link"]]
      /\ UNCHANGED <<store, lock, evidence>>
    BY DEF WriteEvidence, Become, r
<1>2. /\ DOMAIN r' = Fields /\ r'.pc = "link"
      /\ \A f \in Fields \ {"pc"} : r'[f] = r[f]
    BY <1>1 DEF Shape, Fields, r
<1>3. Alive /\ SameManifests
    BY <1>1, <1>2 DEF Alive, Shape, Fields, Running, SameManifests
<1>4. /\ r'.seq = r.seq /\ r'.reports = r.reports /\ r'.stage = r.stage
      /\ r'.hits = r.hits /\ r'.enabled = r.enabled /\ r'.pending = r.pending
      /\ r'.recovered = r.recovered
    BY <1>2 DEF Fields
<1>5. Shape' /\ Outside'
    BY <1>1, <1>3, ChildLives DEF StoreShape, SameManifests, Shape
<1>6. Armed' /\ Linked' /\ Locked'
    BY <1>1, <1>2, <1>3, <1>4 DEF Inside, Armed, Linked, Locked, Alive, Running
<1>7. Log' /\ Manifests' = Manifests
    BY <1>3, SameLog DEF Inside, SameManifests, Manifests, Alive
<1>8. Ahead' /\ Memory'
    BY <1>2, <1>4 DEF Inside, Ahead, Memory, Opened, ManifestPcs
<1>9. Reported' /\ Count'
    BY <1>2, <1>3, <1>4, <1>7
    DEF Inside, Armed, Reported, Count, Alive, Running, Opened, ManifestPcs
<1> QED BY <1>5, <1>6, <1>7, <1>8, <1>9 DEF Inv, Inside

\* It links it there, unless the name is taken.
LEMMA LinkEvidenceStep ==
    ASSUME Inv, LinkEvidence(matrix), UNCHANGED <<watchdogVars, matrixVars>>
    PROVE  Inv'
<1> USE DEF watchdogVars, matrixVars
<1>0. Running /\ r.pc = "link"
    BY DEF LinkEvidence, At, Running, r
<1> USE <1>0, Now
<1>a. r.job = "inject" /\ r.path \in Dirs
    BY DEF Inside, Armed
<1>1. CASE evidence[r.path] # NoEvidence
    BY <1>1, <1>a, Throws DEF LinkEvidence, LinkNoReplace, r
<1>2. CASE evidence[r.path] = NoEvidence
    <2>1. /\ child' = [child EXCEPT ![matrix] = [r EXCEPT !.pc = "sync"]]
          /\ evidence' = [evidence EXCEPT ![r.path] = Descriptor(r)]
          /\ UNCHANGED <<store, lock>>
        BY <1>2 DEF LinkEvidence, LinkNoReplace, Become, r
    <2>2. /\ DOMAIN r' = Fields /\ r'.pc = "sync"
          /\ \A f \in Fields \ {"pc"} : r'[f] = r[f]
        BY <2>1 DEF Shape, Fields, r
    <2>3. Alive /\ SameManifests
        BY <2>1, <2>2 DEF Alive, Shape, Fields, Running, SameManifests
    <2>4. /\ r'.seq = r.seq /\ r'.reports = r.reports /\ r'.stage = r.stage
          /\ r'.hits = r.hits /\ r'.enabled = r.enabled /\ r'.pending = r.pending
          /\ r'.recovered = r.recovered /\ r'.trace = r.trace
        BY <2>2 DEF Fields
    <2>5. Shape' /\ Outside'
        BY <2>1, <2>3, ChildLives DEF StoreShape, SameManifests, Shape
    <2>6. Armed' /\ Locked'
        BY <2>1, <2>2, <2>3, <2>4 DEF Inside, Armed, Locked, Alive, Running
    <2>7. Linked'
        <3>1. Descriptor(r)' = Descriptor(r)
            BY <2>3, <2>4 DEF Descriptor, Alive
        <3>2. evidence'[r.path] = Descriptor(r)
            BY <1>a, <2>1 DEF Shape
        <3> QED BY <2>3, <3>1, <3>2 DEF Linked, Alive
    <2>8. Log' /\ Manifests' = Manifests
        BY <2>3, SameLog DEF Inside, SameManifests, Manifests, Alive
    <2>9. Ahead' /\ Memory'
        BY <2>2, <2>4 DEF Inside, Ahead, Memory, Opened, ManifestPcs
    <2>10. Reported' /\ Count'
        BY <1>a, <2>2, <2>3, <2>4, <2>8
        DEF Inside, Armed, Reported, Count, Alive, Running, Opened, ManifestPcs
    <2> QED BY <2>5, <2>6, <2>7, <2>8, <2>9, <2>10 DEF Inv, Inside
<1> QED BY <1>1, <1>2

\* It fsyncs the directory and exits with code 86.
LEMMA CrashStep ==
    ASSUME Inv, Crash(matrix), UNCHANGED <<watchdogVars, matrixVars>>
    PROVE  Inv'
<1>0. Running /\ r.pc = "sync"
    BY DEF Crash, At, Running, r
<1>1. /\ child' = [child EXCEPT ![matrix].state = "zombie", ![matrix].code = Injected]
      /\ Unlock(matrix) /\ UNCHANGED <<store, evidence>>
    BY DEF Crash, Die
<1>2. SameManifests /\ DOMAIN evidence' = Dirs
    BY <1>1 DEF Inv, Shape, SameManifests
<1>3. /\ evidence'[r.path] = Descriptor(r) /\ r.path \in synced'
      /\ <<r.path, matrix>> \notin litter'
    BY <1>0, <1>1 DEF Inv, Inside, Linked, Crash, SyncParent, r
<1>4. Injected \notin {Returned, RecoveryFailed}
    BY DEF Injected, Returned, RecoveryFailed
<1> QED BY <1>0, <1>1, <1>2, <1>3, <1>4, ChildDies

\* Or an error while it writes the evidence ends it as an exception.
LEMMA EvidenceErrorStep ==
    ASSUME Inv, EvidenceError(matrix), UNCHANGED <<watchdogVars, matrixVars>>
    PROVE  Inv'
<1>1. Running /\ r.pc \in {"evidence", "link", "sync"} /\ Throw(matrix)
    BY DEF EvidenceError, Running, r
<1>2. r.job = "inject"
    BY <1>1 DEF Inv, Inside, Armed
<1> QED BY <1>1, <1>2, Throws

\* A run is never over before the selected hook was met as often as asked for:
\* it records three results, and it writes three manifests, two of them with
\* the hook after the install.
LEMMA HookWasMet ==
    ASSUME Inv, Running, r.pc = "return"
    PROVE  r.job = "recover"
<1> USE Now
<1> SUFFICES ASSUME r.job = "inject" PROVE FALSE
    OBVIOUS
<1>1. /\ r.hits \in Nat /\ r.hits < case_.occurrence /\ r.hits >= Met /\ r.seq >= 2
      /\ r.seq \in Nat
    BY DEF Inside, Count, Opened, Ahead
<1>2. Cardinality(r.done) = case_.n
    BY FullSize DEF Inside, Memory, Opened
<1>3. Extra = 0
    BY DEF Extra, InstallPcs, ManifestPcs
<1>4. Base \in Nat /\ Base >= 2
    BY <1>1, <1>2 DEF Base
<1> QED BY <1>1, <1>3, <1>4 DEF Met

\* A recovery child returns twice: complete, then found complete.
LEMMA ReturnStep ==
    ASSUME Inv, Return(matrix), UNCHANGED <<watchdogVars, matrixVars>>
    PROVE  Inv'
<1> USE DEF watchdogVars, matrixVars
<1>0. Running /\ r.pc = "return"
    BY DEF Return, At, Running, r
<1> USE <1>0, Now
<1> DEFINE report == [recovered |-> r.recovered,
                      computed |-> Cardinality(r.done) - r.recovered]
           reports == Append(r.reports, report)
<1>a. r.job = "recover"
    BY HookWasMet
<1>b. /\ Cardinality(r.done) = case_.n /\ r.recovered \in Nat /\ Ended(Manifests)
      /\ r.reports \in Seq([recovered : Int, computed : Int])
      /\ \/ r.reports = <<>>
         \/ /\ Len(r.reports) = 1 /\ r.recovered = case_.n
            /\ r.reports[1].recovered + r.reports[1].computed = case_.n
    BY <1>a, FullSize DEF Inside, Memory, Opened, Reported
<1>c. /\ report \in [recovered : Int, computed : Int]
      /\ report.recovered + report.computed = case_.n
    BY <1>b
<1>d. SameManifests /\ UNCHANGED <<store, evidence>> /\ DOMAIN evidence' = Dirs
    BY DEF Return, Quiet, SameManifests, Shape
<1>1. CASE r.reports = <<>>
    <2>1. /\ Len(reports) = 1 /\ reports[1] = report
          /\ reports \in Seq([recovered : Int, computed : Int])
        BY <1>1, <1>c
    <2>2. /\ child' = [child EXCEPT ![matrix] =
                        [r EXCEPT !.pc = "construct", !.reports = reports]]
          /\ Unlock(matrix)
        BY <1>a, <2>1 DEF Return, Become, r
    <2> HIDE DEF reports, report
    <2>3. /\ DOMAIN r' = Fields /\ r'.pc = "construct" /\ r'.reports = reports
          /\ \A f \in Fields \ {"pc", "reports"} : r'[f] = r[f]
        BY <2>2 DEF Shape, Fields, r
    <2>4. Alive
        BY <2>2, <2>3 DEF Alive, Shape, Fields, Running
    <2>5. r'.seq = r.seq /\ r'.recovered = r.recovered /\ r'.stage = r.stage
          /\ r'.enabled = r.enabled
        BY <2>3 DEF Fields
    <2>6. Shape' /\ Outside'
        BY <1>d, <2>2, <2>4, ChildLives DEF StoreShape, SameManifests, Shape, Unlock
    <2>7. Armed' /\ Linked'
        BY <1>a, <2>3, <2>4, <2>5 DEF Inside, Armed, Linked, Alive, Running
    <2>8. Locked'
        <3> SUFFICES ASSUME NEW d \in Dirs PROVE lock'[d] = None
            BY DEF Locked
        <3>1. lock[d] \in {None, matrix}
            BY DEF Inside, Locked
        <3> QED BY <2>2, <3>1 DEF Unlock
    <2>9. Log' /\ Manifests' = Manifests
        BY <1>d, <2>4, SameLog DEF Inside, SameManifests, Manifests, Alive
    <2>10. Ahead' /\ Memory'
        BY <2>3, <2>5 DEF Inside, Ahead, Memory, Opened, ManifestPcs
    <2>11. Reported'
        BY <1>a, <1>b, <1>c, <2>1, <2>3, <2>5, <2>9 DEF Reported
    <2>12. Count'
        BY <1>a, <2>4 DEF Count, Alive
    <2> QED BY <2>6, <2>7, <2>8, <2>9, <2>10, <2>11, <2>12 DEF Inv, Inside
<1>2. CASE r.reports # <<>>
    <2>1. /\ Len(reports) = 2 /\ reports[1] = r.reports[1] /\ reports[2] = report
        <3>1. Len(r.reports) = 1
            BY <1>2, <1>b
        <3> HIDE DEF report
        <3>2. Len(reports) = Len(r.reports) + 1 /\ reports[Len(r.reports) + 1] = report
            BY <1>b, <1>c
        <3>3. reports[1] = r.reports[1]
            BY <1>b, <1>c, <3>1
        <3> QED BY <3>1, <3>2, <3>3
    <2>2. RecoveryHolds(reports, r.cfg.n)
        BY <1>2, <1>b, <2>1 DEF RecoveryHolds
    <2>3. Die(matrix, 0)
        BY <1>a, <2>1, <2>2 DEF Return, r
    <2>4. 0 \notin {Returned, RecoveryFailed} /\ 0 # Injected
        BY DEF Injected, Returned, RecoveryFailed
    <2> QED BY <1>d, <2>3, <2>4, ChildDies DEF Die
<1> QED BY <1>1, <1>2

\* What a failure point is.
LEMMA Points ==
    ASSUME NEW p \in kFailurePoints
    PROVE  /\ p = <<p[1], p[2]>> /\ p[1] \in {"result", "manifest"}
           /\ p[2] \in {"written", "fsynced", "closed", "renamed", "installed"}
           /\ p[2] = "installed" => p[1] = "manifest"
BY DEF kFailurePoints, HookStages

\* Every install but the first of a manifest passes the selected hook of its artifact.
LEMMA Passes ==
    ASSUME Shape, r.cfg.point \in kFailurePoints, r.pc \in InstallPcs, r.stage = "installed"
    PROVE  Extra = IF /\ r.cfg.point[1] = Artifact(r.pc)
                      /\ r.cfg.point[2] = "installed" => r.pc \in {"checkpoint", "finish"}
                     THEN 1 ELSE 0
<1>1. Passed(r.stage) = {"written", "fsynced", "closed", "renamed", "installed"}
    BY DEF Passed
<1>2. ASSUME Artifact(r.pc) = r.cfg.point[1]
      PROVE  <<Artifact(r.pc), r.cfg.point[2]>> \in kFailurePoints
    BY <1>2, Points
<1> QED BY <1>1, <1>2, Points DEF Extra, Hooked

\* What follows an install.
LEMMA SettleFrame ==
    ASSUME Inv, Settle(matrix), UNCHANGED <<watchdogVars, matrixVars>>
    PROVE  /\ Running /\ r.pc \in InstallPcs /\ r.stage = "installed" /\ r'.stage = "begin"
           /\ Alive /\ Shape' /\ Outside' /\ Armed' /\ Linked' /\ Locked' /\ Log'
           /\ Manifests' = Manifests /\ UNCHANGED case_
           /\ r'.reports = r.reports /\ r'.hits = r.hits /\ r'.recovered = r.recovered
           /\ r.pc = "meta" => r'.pc = "scan"
           /\ r.pc \in {"initial", "recovery"} => r'.pc = "cleanup"
           /\ r.pc = "record" =>
                /\ r'.done = r.done \cup {<<r.block, r.inc>>} /\ r'.pending = r.pending + 1
                /\ r'.pc = IF /\ r'.pending >= r.cfg.interval
                              /\ Cardinality(r'.done) < r.cfg.n
                             THEN "checkpoint" ELSE "running"
           /\ r.pc = "checkpoint" =>
                r'.pc = "running" /\ r'.seq = r.seq + 1 /\ r'.pending = 0
           /\ r.pc = "finish" =>
                r'.pc = "return" /\ r'.seq = r.seq + 1 /\ r'.status = "complete"
           /\ r.pc # "record" => r'.done = r.done
           /\ r.pc \notin {"checkpoint", "finish"} => r'.seq = r.seq
           /\ r.pc \notin {"record", "checkpoint"} => r'.pending = r.pending
           /\ r.pc # "finish" => r'.status = r.status
<1>0. Running /\ r.pc \in InstallPcs /\ r.stage = "installed"
    BY DEF Settle, Running, r
<1> USE <1>0, Now
<1>1. /\ child' = [child EXCEPT ![matrix] = [Settled(r) EXCEPT !.stage = "begin"]]
      /\ UNCHANGED <<store, lock, evidence>>
    BY DEF Settle, Become, Quiet, r
<1>2. r' = [Settled(r) EXCEPT !.stage = "begin"] /\ DOMAIN child' = {matrix}
    BY <1>1 DEF Shape, r
<1> DEFINE Changes ==
        /\ DOMAIN r' = Fields /\ r'.stage = "begin"
        /\ \A f \in Fields \ {"pc", "stage", "done", "pending", "seq", "status"} :
                r'[f] = r[f]
        /\ r.pc = "meta" => r'.pc = "scan"
        /\ r.pc \in {"initial", "recovery"} => r'.pc = "cleanup"
        /\ r.pc = "record" =>
             /\ r'.done = r.done \cup {<<r.block, r.inc>>} /\ r'.pending = r.pending + 1
             /\ r'.pc = IF /\ r'.pending >= r.cfg.interval
                           /\ Cardinality(r'.done) < r.cfg.n
                          THEN "checkpoint" ELSE "running"
        /\ r.pc = "checkpoint" =>
             r'.pc = "running" /\ r'.seq = r.seq + 1 /\ r'.pending = 0
        /\ r.pc = "finish" =>
             r'.pc = "return" /\ r'.seq = r.seq + 1 /\ r'.status = "complete"
        /\ r.pc # "record" => r'.done = r.done
        /\ r.pc \notin {"checkpoint", "finish"} => r'.seq = r.seq
        /\ r.pc \notin {"record", "checkpoint"} => r'.pending = r.pending
        /\ r.pc # "finish" => r'.status = r.status
<1>3. Changes
    <2>1. CASE r.pc = "meta"
        <3>1. Settled(r) = [r EXCEPT !.pc = "scan"]
            BY <2>1 DEF Settled
        <3> QED BY <1>2, <2>1, <3>1 DEF Shape, Fields
    <2>2. CASE r.pc \in {"initial", "recovery"}
        <3>1. Settled(r) = [r EXCEPT !.pc = "cleanup"]
            BY <2>2 DEF Settled
        <3> QED BY <1>2, <2>2, <3>1 DEF Shape, Fields
    <2>3. CASE r.pc = "record"
        <3> DEFINE q == [r EXCEPT !.done = @ \cup {<<r.block, r.inc>>}, !.pending = @ + 1]
        <3>1. Settled(r) = [q EXCEPT !.pc = IF CheckpointDue(q) THEN "checkpoint"
                                            ELSE "running"]
            BY <2>3 DEF Settled
        <3>2. /\ DOMAIN q = Fields /\ q.done = r.done \cup {<<r.block, r.inc>>}
              /\ q.pending = r.pending + 1
              /\ \A f \in Fields \ {"done", "pending"} : q[f] = r[f]
            BY DEF Shape, Fields
        <3> HIDE DEF q
        <3>3. /\ DOMAIN r' = Fields /\ r'.stage = "begin"
              /\ r'.pc = IF CheckpointDue(q) THEN "checkpoint" ELSE "running"
              /\ \A f \in Fields \ {"pc", "stage"} : r'[f] = q[f]
            BY <1>2, <3>1, <3>2 DEF Fields
        <3>4. /\ q.cfg = r.cfg /\ q.seq = r.seq /\ q.status = r.status
              /\ r'.done = q.done /\ r'.pending = q.pending
              /\ r'.seq = q.seq /\ r'.status = q.status
            BY <3>2, <3>3 DEF Fields
        <3> QED BY <2>3, <3>2, <3>3, <3>4 DEF CheckpointDue, Fields
    <2>4. CASE r.pc = "checkpoint"
        <3>1. Settled(r) = [r EXCEPT !.pc = "running", !.seq = @ + 1, !.pending = 0]
            BY <2>4 DEF Settled
        <3> QED BY <1>2, <2>4, <3>1 DEF Shape, Fields
    <2>5. CASE r.pc = "finish"
        <3>1. Settled(r) = [r EXCEPT !.pc = "return", !.seq = @ + 1, !.status = "complete"]
            BY <2>5 DEF Settled
        <3> QED BY <1>2, <2>5, <3>1 DEF Shape, Fields
    <2> QED BY <2>1, <2>2, <2>3, <2>4, <2>5 DEF InstallPcs, ManifestPcs
<1>4. Alive /\ SameManifests
    BY <1>1, <1>2, <1>3 DEF Alive, Shape, Fields, Running, SameManifests
<1>5. r'.enabled = r.enabled /\ r'.reports = r.reports /\ r'.hits = r.hits
      /\ r'.recovered = r.recovered
    BY <1>3 DEF Fields
<1>6. r'.pc \in {"scan", "cleanup", "checkpoint", "running", "return"}
    BY <1>3 DEF InstallPcs, ManifestPcs
<1>7. r.pc \notin {"construct", "open"}
    BY DEF InstallPcs, ManifestPcs
<1>8. /\ Shape' /\ Outside' /\ Armed' /\ Linked' /\ Locked' /\ Log'
      /\ Manifests' = Manifests
    BY <1>1, <1>4, <1>5, <1>6, <1>7, MovesOn
<1>9. UNCHANGED case_
    BY DEF matrixVars
<1> QED BY <1>3, <1>4, <1>5, <1>8, <1>9

\* A running child that installs or has opened the run, and what it counts.
LEMMA Counting ==
    ASSUME Inv, Running, r.job = "inject"
    PROVE  /\ r.cfg.point \in kFailurePoints /\ r.seq \in Nat
           /\ r.hits \in Nat /\ r.pending \in Nat
           /\ r.pc \in Opened => r.hits >= Met /\ r.pc # "recovery"
           /\ r.pc \in Opened => Cardinality(r.done) \in Nat
<1>1. r.cfg.point \in kFailurePoints
    BY Now
<1>2. Inside
    BY DEF Inv
<1>3. r.pc \in Opened => Cardinality(r.done) \in Nat
    BY <1>2, PartialSize DEF Inside, Memory
<1> QED BY <1>1, <1>2, <1>3 DEF Inside, Count, Ahead

\* The child does not get ahead of its hits by settling.
LEMMA SettledMet ==
    ASSUME Inv, Settle(matrix), UNCHANGED <<watchdogVars, matrixVars>>,
           r.job = "inject", r'.pc \in Opened
    PROVE  r'.hits >= Met'
<1> USE Now, SettleFrame
<1>1. /\ r.cfg.point \in kFailurePoints /\ r.seq \in Nat /\ r.hits \in Nat
      /\ r.pc \in Opened /\ r.hits >= Met /\ r.pc # "recovery"
      /\ Cardinality(r.done) \in Nat
    <2>1. r.pc \in Opened
        BY DEF Opened, ManifestPcs, InstallPcs
    <2> QED BY <2>1, Counting
<1>2. r'.cfg = r.cfg
    BY DEF Alive
<1> DEFINE p == r.cfg.point
<1>3. Extra' = 0
    <2>1. Passed(r.stage)' = {}
        BY DEF Passed
    <2> QED BY <2>1 DEF Extra
<1>4. Extra = IF /\ p[1] = Artifact(r.pc)
                 /\ p[2] = "installed" => r.pc \in {"checkpoint", "finish"}
                THEN 1 ELSE 0
    BY <1>1, Passes
<1>5. p[1] \in {"result", "manifest"} /\ (p[2] = "installed" => p[1] = "manifest")
    BY <1>1, Points
<1>6. Base \in Nat
    BY <1>1 DEF Base
<1>7. Base' = Base + Extra
    <2>1. CASE r.pc = "initial"
        <3>1. r.seq = 0
            BY <1>1, <2>1 DEF Inside, Count
        <3>2. Extra = IF p[1] = "manifest" /\ p[2] # "installed" THEN 1 ELSE 0
            BY <1>4, <2>1 DEF Artifact
        <3> QED BY <1>1, <1>2, <1>5, <2>1, <3>1, <3>2 DEF Base
    <2>2. CASE r.pc = "record"
        <3>1. Cardinality(r'.done) = Cardinality(r.done) + 1
            <4>1. Partial(r.done, case_.n) /\ r.block \in 0 .. case_.n - 1
                  /\ \A e \in r.done : e[1] # r.block
                BY <1>1, <2>2 DEF Inside, Memory
            <4>2. Cardinality(r.done \cup {<<r.block, r.inc>>}) = Cardinality(r.done) + 1
                <5>1. case_.n \in Nat
                    OBVIOUS
                <5> QED BY ONLY <4>1, <5>1, PartialGrows
            <4>3. r'.done = r.done \cup {<<r.block, r.inc>>}
                BY <2>2
            <4> QED BY <4>2, <4>3
        <3>2. Extra = IF p[1] = "result" THEN 1 ELSE 0
            BY <1>4, <1>5, <2>2 DEF Artifact
        <3> QED BY <1>1, <1>2, <1>5, <2>2, <3>1, <3>2 DEF Base
    <2>3. CASE r.pc \in {"checkpoint", "finish"}
        <3>2. Extra = IF p[1] = "manifest" THEN 1 ELSE 0
            BY <1>4, <2>3 DEF Artifact
        <3> QED BY <1>1, <1>2, <1>5, <2>3, <3>2 DEF Base
    <2>4. r.pc # "meta"
        BY <1>1 DEF Opened, ManifestPcs
    <2> QED BY <1>1, <2>1, <2>2, <2>3, <2>4 DEF InstallPcs, ManifestPcs
<1> QED BY <1>1, <1>3, <1>6, <1>7 DEF Met

\* Memory catches up with the disk after an install.
LEMMA SettleStep ==
    ASSUME Inv, Settle(matrix), UNCHANGED <<watchdogVars, matrixVars>>
    PROVE  Inv'
<1> USE Now, SettleFrame
<1>a. r'.job = r.job /\ r'.state = "running"
    BY DEF Alive
<1>1. CASE r.pc = "meta"
    <2>1. Ahead' /\ Memory'
        BY <1>1 DEF Inside, Ahead, Memory, Opened, ManifestPcs, Before
    <2>2. Reported'
        BY <1>1, <1>a DEF Inside, Reported
    <2>3. Count'
        BY <1>1, <1>a DEF Inside, Count, Opened, ManifestPcs
    <2> QED BY <2>1, <2>2, <2>3 DEF Inv, Inside
<1>b. ASSUME r.pc # "meta" PROVE r.pc \in Opened
    BY <1>b DEF Opened, InstallPcs
<1>c. r.pc # "meta" => r.pc \in Opened /\ r.seq \in Nat
    BY <1>b DEF Inside, Ahead
<1>2. CASE r.pc \in {"initial", "recovery"}
    <2>1. Ahead'
        BY <1>c, <1>2 DEF Inside, Ahead, Opened, ManifestPcs, Before, After
    <2>2. Memory'
        BY <1>c, <1>2 DEF Inside, Memory, Opened, ManifestPcs, Before, After
    <2>3. Reported'
        BY <1>2, <1>a DEF Inside, Reported
    <2>4. Count'
        <3> SUFFICES ASSUME r'.job = "inject" PROVE Count'
            BY DEF Count
        <3>1. r'.hits >= Met'
            BY <1>2, <1>a, SettledMet DEF Opened
        <3> QED BY <1>2, <1>a, <1>c, <3>1 DEF Inside, Count, Opened, ManifestPcs, InstallPcs
    <2> QED BY <2>1, <2>2, <2>3, <2>4 DEF Inv, Inside
<1>3. CASE r.pc = "record"
    <2>0. r'.pc \in {"checkpoint", "running"} /\ r'.pc \in Opened
        BY <1>3 DEF Opened, ManifestPcs
    <2>1. Ahead'
        BY <1>c, <1>3, <2>0 DEF Inside, Ahead, Opened, InstallPcs, ManifestPcs, Before, After
    <2>2. /\ Partial(r.done, case_.n) /\ r.block \in 0 .. case_.n - 1
          /\ \A e \in r.done : e[1] # r.block
        BY <1>c, <1>3 DEF Inside, Memory
    <2>3. Partial(r'.done, case_.n) /\ Cardinality(r'.done) = Cardinality(r.done) + 1
        <3>0. case_.n \in Nat
            OBVIOUS
        <3>1. r'.done = r.done \cup {<<r.block, r.inc>>}
            BY <1>3
        <3>2. LET es == r.done \cup {<<r.block, r.inc>>} IN
              Partial(es, case_.n) /\ Cardinality(es) = Cardinality(r.done) + 1
            BY ONLY <2>2, <3>0, PartialGrows
        <3> QED BY ONLY <3>1, <3>2
    <2>4. Memory'
        BY <1>c, <1>3, <2>0, <2>3 DEF Inside, Memory, Opened, ManifestPcs, Before, After
    <2>5. Reported'
        BY <1>3, <1>a DEF Inside, Reported
    <2>6. Count'
        <3> SUFFICES ASSUME r'.job = "inject" PROVE Count'
            BY DEF Count
        <3>1. r'.hits >= Met'
            BY <2>0, <1>a, SettledMet
        <3>2. /\ Cardinality(r.done) \in Nat /\ r.pending \in Nat
              /\ r.seq = 0 => /\ r.pending = Cardinality(r.done)
                              /\ Cardinality(r.done) < case_.interval
            BY <1>3, <1>a, <1>c, <2>2, PartialSize DEF Inside, Count
        <3>3. r.seq = 0 => r'.pending = Cardinality(r'.done)
            BY <1>3, <2>3, <3>2
        <3>4. r.seq = 0 /\ r'.pc = "running" => Cardinality(r'.done) < case_.interval
            BY <1>3, <2>3, <3>2, <3>3
        <3>5. r.hits \in Nat /\ r.hits < case_.occurrence
            BY <1>3, <1>a DEF Inside, Count
        <3> QED BY <1>3, <2>0, <3>1, <3>2, <3>3, <3>4, <3>5 DEF Count
    <2> QED BY <2>1, <2>4, <2>5, <2>6 DEF Inv, Inside
<1>4. CASE r.pc = "checkpoint"
    <2>1. Ahead'
        BY <1>c, <1>4 DEF Inside, Ahead, Opened, ManifestPcs, Before, After
    <2>2. Memory'
        BY <1>c, <1>4 DEF Inside, Memory, Opened, ManifestPcs, Before, After
    <2>3. Reported'
        BY <1>4, <1>a DEF Inside, Reported
    <2>4. Count'
        <3> SUFFICES ASSUME r'.job = "inject" PROVE Count'
            BY DEF Count
        <3>1. r'.hits >= Met'
            BY <1>4, <1>a, SettledMet DEF Opened
        <3>2. r'.seq # 0
            BY <1>4, <1>c
        <3> QED BY <1>4, <1>a, <1>c, <3>1, <3>2 DEF Inside, Count, Opened
    <2> QED BY <2>1, <2>2, <2>3, <2>4 DEF Inv, Inside
<1>5. CASE r.pc = "finish"
    <2>1. Ahead'
        BY <1>c, <1>5 DEF Inside, Ahead, Opened, ManifestPcs, Before, After
    <2>2. Memory'
        BY <1>c, <1>5 DEF Inside, Memory, Opened, ManifestPcs, Before, After
    <2>3. Reported'
        BY <1>5, <1>a DEF Inside, Reported
    <2>4. Count'
        <3> SUFFICES ASSUME r'.job = "inject" PROVE Count'
            BY DEF Count
        <3>1. r'.hits >= Met'
            BY <1>5, <1>a, SettledMet DEF Opened
        <3>2. r'.seq >= 2
            BY <1>5, <1>a, <1>c DEF Inside, Count
        <3> QED BY <1>5, <1>a, <1>c, <3>1, <3>2 DEF Inside, Count, Opened
    <2> QED BY <2>1, <2>2, <2>3, <2>4 DEF Inv, Inside
<1> QED BY <1>1, <1>2, <1>3, <1>4, <1>5 DEF InstallPcs, ManifestPcs

\* The hook of the stage that an install reaches is the selected one.
Selected ==
    /\ r.enabled /\ Hooked(r.pc, r'.stage)
    /\ <<Artifact(r.pc), r'.stage>> = r.cfg.point

\* The stages of an install, in order.
LEMMA Stages ==
    ASSUME NEW s \in (Before \cup After) \ {"installed"}
    PROVE  /\ NextStage[s] \in (Before \cup After) \ {"begin"}
           /\ s # "closed" => NextStage[s] # "renamed" /\ (s \in Before <=> NextStage[s] \in Before)
           /\ s = "closed" => NextStage[s] = "renamed"
           /\ Passed(NextStage[s]) = Passed(s) \cup {NextStage[s]}
<1>1. CASE s = "begin"
    BY <1>1 DEF NextStage, Passed, Before, After
<1>2. CASE s = "written"
    BY <1>2 DEF NextStage, Passed, Before, After
<1>3. CASE s = "fsynced"
    BY <1>3 DEF NextStage, Passed, Before, After
<1>4. CASE s = "closed"
    BY <1>4 DEF NextStage, Passed, Before, After
<1>5. CASE s = "renamed"
    BY <1>5 DEF NextStage, Passed, Before, After
<1> QED BY <1>1, <1>2, <1>3, <1>4, <1>5 DEF Before, After

\* What an install does from one hook to the next, in the child ...
LEMMA AdvanceChild ==
    ASSUME Inv, Advance(matrix)
    PROVE  /\ Running /\ r.pc \in InstallPcs /\ r.stage \in (Before \cup After) \ {"installed"}
           /\ DOMAIN child' = {matrix} /\ DOMAIN r' = Fields
           /\ r'.stage = NextStage[r.stage]
           /\ r'.hits = (IF Selected THEN r.hits + 1 ELSE r.hits)
           /\ r'.pc = (IF Selected /\ r'.hits = r.cfg.occurrence THEN "evidence" ELSE r.pc)
           /\ \A f \in Fields \ {"stage", "hits", "pc", "trace"} : r'[f] = r[f]
<1>0. Running /\ r.pc \in InstallPcs /\ r.stage # "installed"
    BY DEF Advance, Running, r
<1>1. Shape /\ r.stage \in (Before \cup After) \ {"installed"} /\ r.enabled \in BOOLEAN
    BY <1>0 DEF Inv, Inside, Ahead, Armed
<1> DEFINE stage == NextStage[r.stage]
           q == [r EXCEPT !.stage = stage]
<1>2. child' = [child EXCEPT ![matrix] = Hit(q)]
    BY DEF Advance, Become, r
<1>3. DOMAIN child' = {matrix} /\ r' = Hit(q)
    BY <1>1, <1>2 DEF Shape, r
<1>4. /\ DOMAIN q = Fields /\ q.stage = stage
      /\ \A f \in Fields \ {"stage"} : q[f] = r[f]
    BY <1>1 DEF Shape, Fields
<1>5. q.enabled = r.enabled /\ q.pc = r.pc /\ q.hits = r.hits /\ q.cfg = r.cfg
    BY <1>4 DEF Fields
<1> HIDE DEF q, stage
<1>6. CASE ~q.enabled \/ ~Hooked(q.pc, q.stage)
    <2>1. r' = q
        BY <1>3, <1>6 DEF Hit
    <2>2. ~Selected
        BY <1>4, <1>5, <1>6, <2>1 DEF Selected
    <2> QED BY <1>0, <1>1, <1>3, <1>4, <1>5, <2>1, <2>2 DEF Fields, stage
<1>7. CASE q.enabled /\ Hooked(q.pc, q.stage)
    <2> DEFINE sel == <<Artifact(q.pc), q.stage>> = q.cfg.point
               hits == IF sel THEN q.hits + 1 ELSE q.hits
               tr == Append(q.trace, <<Artifact(q.pc), q.stage, Context(q)>>)
    <2>1. r' = [q EXCEPT !.trace = tr, !.hits = hits,
                         !.pc = IF sel /\ hits = q.cfg.occurrence THEN "evidence" ELSE q.pc]
        BY <1>3, <1>7 DEF Hit
    <2> HIDE DEF tr, hits, sel
    <2>2. /\ DOMAIN r' = Fields /\ r'.hits = hits
          /\ r'.pc = IF sel /\ hits = q.cfg.occurrence THEN "evidence" ELSE q.pc
          /\ \A f \in Fields \ {"trace", "hits", "pc"} : r'[f] = q[f]
        BY <1>4, <2>1 DEF Fields
    <2>3. r'.stage = stage
        BY <1>4, <2>2 DEF Fields
    <2>4. Selected <=> sel
        BY <1>4, <1>5, <1>7, <2>3 DEF Selected, sel
    <2>5. \A f \in Fields \ {"stage", "hits", "pc", "trace"} : r'[f] = r[f]
        BY <1>4, <2>2
    <2>6. /\ r'.hits = (IF Selected THEN r.hits + 1 ELSE r.hits)
          /\ r'.pc = (IF Selected /\ r'.hits = r.cfg.occurrence THEN "evidence" ELSE r.pc)
        BY <1>5, <2>2, <2>4 DEF hits
    <2> QED BY <1>0, <1>1, <1>3, <2>2, <2>3, <2>5, <2>6 DEF stage
<1> QED BY <1>6, <1>7

\* ... and in its run directory, where a rename makes a manifest visible.
LEMMA AdvanceStore ==
    ASSUME Inv, Advance(matrix)
    PROVE  /\ StoreShape /\ UNCHANGED <<lock, evidence>>
           /\ \A d \in Dirs \ {r.dir} : store'[d] = store[d]
           /\ store'[r.dir].manifests =
                IF r.stage = "closed" /\ r.pc \in ManifestPcs
                  THEN Manifests \cup {Manifest(r)} ELSE Manifests
<1> USE AdvanceChild, Now
<1> DEFINE stage == NextStage[r.stage]
           s == store[r.dir]
           new == CASE stage = "written" -> [s EXCEPT !.temps = @ \cup {matrix}]
                    [] stage = "renamed" -> [Renamed(r, s) EXCEPT !.temps = @ \ {matrix}]
                    [] OTHER -> s
<1>1. store' = [store EXCEPT ![r.dir] = new] /\ UNCHANGED <<lock, evidence>>
    BY DEF Advance, Quiet, r
<1>2. DOMAIN s = {"meta", "manifests", "results", "temps"}
    BY DEF Shape
<1>3. stage = "renamed" <=> r.stage = "closed"
    BY Stages
<1>4. /\ DOMAIN new = {"meta", "manifests", "results", "temps"}
      /\ new.manifests = IF r.stage = "closed" /\ r.pc \in ManifestPcs
                           THEN s.manifests \cup {Manifest(r)} ELSE s.manifests
    <2> HIDE DEF s, stage
    <2>1. CASE stage = "written"
        <3>1. new = [s EXCEPT !.temps = @ \cup {matrix}]
            BY <2>1
        <3> QED BY <1>2, <1>3, <2>1, <3>1
    <2>2. CASE stage = "renamed"
        <3>0. new = [Renamed(r, s) EXCEPT !.temps = @ \ {matrix}]
            BY <2>2
        <3>1. CASE r.pc = "meta"
            <4>1. Renamed(r, s) = [s EXCEPT !.meta = TRUE]
                BY <3>1 DEF Renamed, Artifact
            <4> QED BY <1>2, <3>0, <3>1, <4>1 DEF ManifestPcs
        <3>2. CASE r.pc = "record"
            <4>1. Renamed(r, s) = [s EXCEPT !.results = @ \cup {<<r.block, r.inc>>}]
                BY <3>2 DEF Renamed, Artifact
            <4> QED BY <1>2, <3>0, <3>2, <4>1 DEF ManifestPcs
        <3>3. CASE r.pc \in ManifestPcs
            <4>1. Renamed(r, s) = [s EXCEPT !.manifests = @ \cup {Manifest(r)}]
                BY <3>3 DEF Renamed, Artifact, ManifestPcs
            <4> QED BY <1>2, <1>3, <2>2, <3>0, <3>3, <4>1
        <3> QED BY <3>1, <3>2, <3>3 DEF InstallPcs
    <2>3. CASE stage \notin {"written", "renamed"}
        <3>1. new = s
            BY <2>3
        <3> QED BY <1>2, <1>3, <2>3, <3>1
    <2> QED BY <2>1, <2>2, <2>3
<1> HIDE DEF new
<1>5. /\ DOMAIN store' = Dirs /\ store'[r.dir] = new
      /\ \A d \in Dirs \ {r.dir} : store'[d] = store[d]
    BY <1>1 DEF Shape
<1>6. StoreShape
    BY <1>4, <1>5 DEF StoreShape, Shape
<1> QED BY <1>1, <1>4, <1>5, <1>6 DEF Manifests

\* A manifest that becomes visible is newer than all that are.
LEMMA NewManifest ==
    ASSUME Inv, Running, r.pc \in ManifestPcs, r.stage = "closed"
    PROVE  LET m == Manifest(r) IN
           /\ DOMAIN m = {"seq", "inc", "entries", "status"} /\ m.seq \in Nat
           /\ m.seq = (IF r.pc \in {"checkpoint", "finish"} THEN r.seq + 1 ELSE r.seq)
           /\ \A o \in Manifests : o.seq \in Nat /\ o.seq < m.seq
           /\ m.status = (IF r.pc = "finish" THEN "complete" ELSE "running")
           /\ Partial(m.entries, case_.n)
           /\ m.status = "complete" => Full(m.entries, case_.n)
<1> USE Now
<1>1. r.pc \in Opened /\ r.seq \in Nat
    BY DEF Opened, Inside, Ahead
<1>2. \A o \in Manifests : o.seq \in Nat
    BY DEF Inside, Log, Manifests
<1>3. \A o \in Manifests : IF r.pc \in {"initial", "recovery"} THEN o.seq < r.seq
                           ELSE o.seq <= r.seq
    BY <1>1 DEF Inside, Ahead, Before, After
<1>4. Partial(r.done, case_.n) /\ (r.pc = "finish" => Full(r.done, case_.n))
    BY <1>1 DEF Inside, Memory
<1> DEFINE m == Manifest(r)
<1>5. /\ DOMAIN m = {"seq", "inc", "entries", "status"} /\ m.entries = r.done
      /\ m.status = (IF r.pc = "finish" THEN "complete" ELSE "running")
      /\ m.seq = Context(r).seq
    BY DEF Manifest
<1>6. Context(r).seq = (IF r.pc \in {"checkpoint", "finish"} THEN r.seq + 1 ELSE r.seq)
    BY DEF Context, Artifact, ManifestPcs
<1> HIDE DEF m
<1>7. m.seq = (IF r.pc \in {"checkpoint", "finish"} THEN r.seq + 1 ELSE r.seq)
    BY <1>5, <1>6
<1>8. \A o \in Manifests : o.seq < m.seq
    BY <1>1, <1>2, <1>3, <1>7 DEF ManifestPcs
<1>9. m.seq \in Nat
    BY <1>1, <1>7
<1>10. Partial(m.entries, case_.n) /\ (m.status = "complete" => Full(m.entries, case_.n))
    BY <1>4, <1>5
<1> QED BY <1>2, <1>5, <1>7, <1>8, <1>9, <1>10 DEF m

\* The visible manifests stay a log.
LEMMA AdvanceLog ==
    ASSUME Inv, Advance(matrix), UNCHANGED <<watchdogVars, matrixVars>>
    PROVE  Log'
<1> USE AdvanceChild, AdvanceStore, Now
<1>a. UNCHANGED <<index, phase, case_>>
    BY DEF matrixVars
<1>1. CASE r.stage = "closed" /\ r.pc \in ManifestPcs
    <2> DEFINE m == Manifest(r)
               ms == store[index].manifests
               ns == store'[index].manifests
    <2>1. /\ DOMAIN m = {"seq", "inc", "entries", "status"} /\ m.seq \in Nat
          /\ \A o \in ms : o.seq \in Nat /\ o.seq < m.seq
          /\ m.status \in {"running", "complete"} /\ Partial(m.entries, case_.n)
          /\ m.status = "complete" => Full(m.entries, case_.n)
        BY <1>1, NewManifest DEF Manifests
    <2>2. ns = ms \cup {m}
        BY <1>1 DEF Manifests
    <2> HIDE DEF m
    <2>3. /\ \A o \in ms : DOMAIN o = {"seq", "inc", "entries", "status"}
          /\ \A a \in ms, b \in ms : a.seq = b.seq => a = b
          /\ \A o \in ms : /\ o.status \in {"running", "complete"}
                           /\ Partial(o.entries, case_.n)
                           /\ o.status = "complete" => Full(o.entries, case_.n)
        BY DEF Inside, Log
    <2> HIDE DEF ms, ns
    <2>4. /\ \A o \in ns : DOMAIN o = {"seq", "inc", "entries", "status"} /\ o.seq \in Nat
          /\ \A o \in ns : /\ o.status \in {"running", "complete"}
                           /\ Partial(o.entries, case_.n)
                           /\ o.status = "complete" => Full(o.entries, case_.n)
        BY <2>1, <2>2, <2>3
    <2>5. \A a \in ns, b \in ns : a.seq = b.seq => a = b
        BY <2>1, <2>2, <2>3
    <2>6. \E o \in ns : Latest(o, ns)
        BY <2>1, <2>2 DEF Latest
    <2> SUFFICES ASSUME NEW d \in Dirs
                 PROVE  LET xs == store'[d].manifests IN
                        /\ \A o \in xs : DOMAIN o = {"seq", "inc", "entries", "status"}
                                         /\ o.seq \in Nat
                        /\ \A a \in xs, b \in xs : a.seq = b.seq => a = b
                        /\ xs # {} => \E o \in xs : Latest(o, xs)
                        /\ xs # {} => d = index /\ phase # "next"
                        /\ \A o \in xs : /\ o.status \in {"running", "complete"}
                                         /\ Partial(o.entries, case_.n)
                                         /\ o.status = "complete" => Full(o.entries, case_.n)
        BY <1>a DEF Log, Latest, Partial, Full
    <2>7. CASE d = index
        BY <2>4, <2>5, <2>6, <2>7 DEF ns
    <2>8. CASE d # index
        BY <2>8 DEF Inside, Log
    <2> QED BY <2>7, <2>8
<1>2. CASE ~(r.stage = "closed" /\ r.pc \in ManifestPcs)
    <2>1. SameManifests
        BY <1>2 DEF SameManifests, StoreShape, Manifests
    <2> QED BY <1>a, <2>1, SameLog DEF Inside
<1> QED BY <1>1, <1>2

\* An install goes from one hook to the next.
LEMMA AdvanceStep ==
    ASSUME Inv, Advance(matrix), UNCHANGED <<watchdogVars, matrixVars>>
    PROVE  Inv'
<1> USE AdvanceChild, AdvanceStore, Now
<1>a. UNCHANGED <<index, phase, case_>>
    BY DEF matrixVars
<1>b. /\ r'.seq = r.seq /\ r'.reports = r.reports /\ r'.done = r.done
      /\ r'.status = r.status /\ r'.enabled = r.enabled /\ r'.block = r.block
      /\ r'.cfg = r.cfg /\ r'.job = r.job /\ r'.pending = r.pending
      /\ r'.recovered = r.recovered /\ r'.dir = r.dir
    BY DEF Fields
<1>1. Alive
    BY DEF Alive, Fields, Running
<1>2. Shape' /\ Outside'
    BY <1>1, ChildLives DEF Shape
<1>3. r.pc \notin {"construct", "open", "evidence", "link", "sync"}
    BY DEF InstallPcs, ManifestPcs
<1>4. /\ r.enabled <=> r.job = "inject"
      /\ r'.pc # r.pc => r'.pc = "evidence" /\ r.job = "inject"
    <2>1. r.enabled <=> r.job = "inject"
        BY <1>3 DEF Inside, Armed
    <2> QED BY <2>1 DEF Selected
<1>5. Armed' /\ Linked' /\ Locked'
    BY <1>1, <1>3, <1>4, <1>b DEF Inside, Armed, Linked, Locked, Alive, Running
<1>6. Log'
    BY AdvanceLog
<1>7. Manifests' = IF r.stage = "closed" /\ r.pc \in ManifestPcs
                     THEN Manifests \cup {Manifest(r)} ELSE Manifests
    BY <1>b DEF Manifests
<1>8. Ahead'
    <2>1. r.pc \in InstallPcs \cup Opened /\ r.seq \in Nat
        BY DEF Inside, Ahead
    <2>2. r'.stage \in Before \cup After
        BY Stages
    <2>3. CASE r'.pc = "evidence"
        BY <2>1, <2>2, <2>3, <1>b DEF Ahead, Opened, ManifestPcs
    <2>4. CASE r'.pc = r.pc /\ r.pc \notin Opened
        BY <2>1, <2>2, <2>4, <1>b DEF Ahead
    <2>5. CASE r'.pc = r.pc /\ r.pc \in Opened /\ r.stage = "closed" /\ r.pc \in ManifestPcs
        <3>1. r'.stage \in After /\ r'.stage \notin Before
            BY <2>5, Stages DEF Before, After
        <3>2. LET m == Manifest(r) IN
              /\ m.seq \in Nat
              /\ m.seq = (IF r.pc \in {"checkpoint", "finish"} THEN r.seq + 1 ELSE r.seq)
              /\ \A o \in Manifests : o.seq \in Nat /\ o.seq < m.seq
            BY <2>5, NewManifest
        <3>3. \A o \in Manifests' :
                o.seq <= IF r.pc \in {"checkpoint", "finish"} THEN r.seq + 1 ELSE r.seq
            BY <1>7, <2>5, <3>2
        <3> QED BY <1>b, <2>1, <2>2, <2>5, <3>1, <3>3 DEF Ahead, ManifestPcs
    <2>6. CASE r'.pc = r.pc /\ r.pc \in Opened /\ ~(r.stage = "closed" /\ r.pc \in ManifestPcs)
        <3>1. Manifests' = Manifests
            BY <1>7, <2>6
        <3>2. r.pc \in ManifestPcs =>
                (r.stage \in Before <=> r'.stage \in Before)
                /\ (r.stage \in After <=> r'.stage \in After)
            BY <2>6, Stages DEF Before, After
        <3>3. CASE r.pc \in ManifestPcs
            BY <1>b, <2>1, <2>2, <2>6, <3>1, <3>2, <3>3 DEF Inside, Ahead
        <3>4. CASE r.pc \notin ManifestPcs
            BY <1>b, <2>1, <2>2, <2>6, <3>1, <3>4 DEF Inside, Ahead, ManifestPcs
        <3> QED BY <3>3, <3>4
    <2> QED BY <1>4, <2>3, <2>4, <2>5, <2>6
<1>9. Memory'
    <2>1. CASE r'.pc \notin Opened
        BY <2>1 DEF Memory
    <2>2. CASE r'.pc = r.pc /\ r.pc \in Opened
        <3>1. r.pc = "finish" /\ r'.stage \in After => Ended(Manifests')
            <4>1. CASE r.stage = "closed"
                <5> SUFFICES ASSUME r.pc = "finish" PROVE Ended(Manifests')
                    OBVIOUS
                <5> DEFINE m == Manifest(r)
                <5>1. /\ m.seq \in Nat /\ m.status = "complete"
                      /\ \A o \in Manifests : o.seq \in Nat /\ o.seq < m.seq
                    BY <4>1, NewManifest DEF ManifestPcs
                <5>2. Manifests' = Manifests \cup {m}
                    BY <1>7, <4>1 DEF ManifestPcs
                <5> HIDE DEF m
                <5> QED BY <5>1, <5>2 DEF Ended, Latest
            <4>2. CASE r.stage # "closed"
                BY <1>7, <2>2, <4>2, Stages DEF Inside, Memory, Before, After
            <4> QED BY <4>1, <4>2
        <3>2. Ended(Manifests)' = Ended(Manifests')
            BY DEF Ended, Latest
        <3>3. r.pc \notin {"cleanup", "return"}
            BY DEF InstallPcs, ManifestPcs
        <3> QED BY <1>a, <1>b, <2>2, <3>1, <3>2, <3>3 DEF Inside, Memory
    <2>3. "evidence" \notin Opened
        BY DEF Opened, ManifestPcs
    <2> QED BY <1>4, <2>1, <2>2, <2>3
<1>10. Reported'
    <2> SUFFICES ASSUME r'.job = "recover" PROVE Reported'
        BY DEF Reported
    <2>1. r'.pc = r.pc
        BY <1>4, <1>b
    <2>2. r.reports # <<>> => r.pc = "meta" /\ Manifests' = Manifests
        BY <1>7, <1>b DEF Inside, Reported, InstallPcs, ManifestPcs
    <2> QED BY <1>a, <1>b, <2>1, <2>2 DEF Inside, Reported, Ended, Latest
<1>11. Count'
    <2> SUFFICES ASSUME r.job = "inject" PROVE Count'
        BY <1>b DEF Count
    <2>1. /\ r.cfg.point \in kFailurePoints /\ r.seq \in Nat
          /\ r.hits \in Nat /\ r.pending \in Nat /\ r.hits < case_.occurrence
        BY <1>3, Counting DEF Inside, Count
    <2>2. r'.hits \in Nat /\ r'.hits >= r.hits
        BY <2>1
    <2>3. CASE r'.pc = "evidence"
        BY <1>b, <2>1, <2>2, <2>3 DEF Count, Opened, ManifestPcs
    <2>4. CASE r'.pc = r.pc
        <3>1. r'.hits < case_.occurrence
            BY <1>3, <2>1, <2>4
        <3>2. r.pc \in {"construct", "open", "meta", "scan"} => Manifests' = {}
            BY <1>7 DEF Inside, Count, ManifestPcs
        <3>3. r.pc \in Opened => r'.hits >= Met'
            <4> SUFFICES ASSUME r.pc \in Opened PROVE r'.hits >= Met'
                OBVIOUS
            <4>1. r.hits >= Met /\ Cardinality(r.done) \in Nat
                BY Counting
            <4>2. Base' = Base /\ Base \in Nat
                BY <1>b, <2>1, <2>4, <4>1 DEF Base
            <4>3. Extra \in {0, 1} /\ Extra' \in {0, 1}
                BY DEF Extra
            <4>4. Extra' = 1 => Extra = 1 \/ Selected
                <5>1. Passed(r.stage)' = Passed(r.stage) \cup {r'.stage}
                    BY Stages
                <5>2. r.cfg.point = <<r.cfg.point[1], r.cfg.point[2]>>
                    BY <2>1, Points
                <5> QED BY <1>4, <1>b, <2>4, <5>1, <5>2 DEF Extra, Selected
            <4> QED BY <2>1, <4>1, <4>2, <4>3, <4>4 DEF Met
        <3> QED BY <1>a, <1>b, <2>1, <2>2, <2>4, <3>1, <3>2, <3>3 DEF Inside, Count
    <2> QED BY <1>4, <2>3, <2>4
<1> QED BY <1>2, <1>5, <1>6, <1>8, <1>9, <1>10, <1>11 DEF Inv, Inside

\* Every step of the child keeps the invariants.
LEMMA ChildSteps ==
    ASSUME Inv, ChildStep(matrix), UNCHANGED <<watchdogVars, matrixVars>>
    PROVE  Inv'
BY ConstructStep, OpenStep, ScanStep, CleanupStep, AdvanceStep, SettleStep,
   AllReceivedStep, ReturnStep, ReceiveStep, WriteEvidenceStep, LinkEvidenceStep,
   CrashStep, EvidenceErrorStep DEF ChildStep

-----------------------------------------------------------------------------
(* Steps of the watchdog *)

\* Nothing is at stake while there is no running child.
LEMMA NobodyRuns ==
    ASSUME Shape, Inside, ~Running, ~Running', r'.enabled \in BOOLEAN,
           lock' = lock, Log'
    PROVE  Inside'
<1>1. Armed' /\ Linked' /\ Ahead' /\ Memory' /\ Reported' /\ Count'
    BY DEF Armed, Linked, Ahead, Memory, Reported, Count
<1>2. Locked'
    BY DEF Inside, Locked
<1> QED BY <1>1, <1>2 DEF Inside

\* The watchdog changes no run directory and does not judge the case.
LEMMA Watching ==
    ASSUME Inv, UNCHANGED <<store, evidence, synced, litter, matrixVars>>,
           DOMAIN lock' = Dirs, DOMAIN wait' = {matrix}, DOMAIN child' = {matrix},
           DOMAIN r' = Fields, \A f \in Fields \ {"state", "code"} : r'[f] = r[f],
           r'.code \in {r.code, Signal}, Life', Inside'
    PROVE  Inv'
<1> USE DEF matrixVars
<1>0. /\ r'.job = r.job /\ r'.dir = r.dir /\ r'.path = r.path /\ r'.cfg = r.cfg
      /\ r'.trace = r.trace
    BY DEF Fields
<1>1. Shape'
    BY DEF Inv, Shape
<1>2. Assigned'
    BY <1>0 DEF Inv, Outside, Assigned, CaseOK
<1>3. Judged' /\ PassMeansCovered'
    BY DEF Inv, Outside, Judged, PassMeansCovered
<1>4. InjectionReached' /\ RecoveryExact'
    BY DEF Inv, Outside, InjectionReached, RecoveryExact, r, Signal, Returned, RecoveryFailed
<1>5. EvidenceBeforeDeath'
    <2>1. Descriptor(r)' = Descriptor(r)
        BY <1>0 DEF Descriptor
    <2> QED BY <1>0, <2>1 DEF Inv, Outside, EvidenceBeforeDeath, r, Signal, Injected
<1> QED BY <1>1, <1>2, <1>3, <1>4, <1>5 DEF Inv, Outside

\* Nothing but the watchdog moves.
LEMMA Untouched ==
    ASSUME Inv, UNCHANGED <<store, lock, evidence, synced, litter, child, matrixVars>>,
           DOMAIN wait' = {matrix}, Life'
    PROVE  Inv'
<1>0. UNCHANGED r /\ UNCHANGED <<index, phase, case_>> /\ Inside /\ Shape
    BY DEF r, matrixVars, Inv
<1>1. Armed' /\ Linked' /\ Locked'
    BY <1>0 DEF Inside, Armed, Linked, Locked, Running, Descriptor
<1>2. SameManifests /\ Manifests' = Manifests
    BY <1>0 DEF SameManifests, Shape, Manifests
<1>3. Log'
    BY <1>0, <1>2, SameLog DEF Inside
<1>4. Ahead'
    BY <1>0, <1>2 DEF Inside, Ahead, Running
<1>5. Memory' /\ Reported'
    BY <1>0, <1>2 DEF Inside, Memory, Reported, Running
<1>6. Met' = Met
    BY <1>0 DEF Met, Base, Extra
<1>7. Count'
    BY <1>0, <1>2, <1>6 DEF Inside, Count, Running
<1>8. Inside'
    BY <1>1, <1>3, <1>4, <1>5, <1>7 DEF Inside
<1> QED BY <1>0, <1>8, Watching DEF Shape

LEMMA PollStep ==
    ASSUME Inv, Poll(matrix), UNCHANGED matrixVars
    PROVE  Inv'
<1> USE DEF matrixVars
<1>0. Shape /\ Inside /\ Life /\ wait[matrix] = "poll"
      /\ UNCHANGED <<store, lock, evidence, synced, litter>>
    BY DEF Inv, Outside, Poll
<1>1. CASE r.state = "zombie"
    <2>1. /\ child' = [child EXCEPT ![matrix].state = "reaped"]
          /\ wait' = [wait EXCEPT ![matrix] =
                        IF r.code = Signal THEN "failed" ELSE "exited"]
        BY <1>1 DEF Poll, Reaped, r
    <2>2. /\ DOMAIN child' = {matrix} /\ DOMAIN r' = Fields /\ r'.state = "reaped"
          /\ \A f \in Fields \ {"state"} : r'[f] = r[f]
          /\ DOMAIN wait' = {matrix} /\ wait'[matrix] \in {"exited", "failed"}
        BY <1>0, <2>1 DEF Shape, Fields, r
    <2>3. Life'
        BY <1>0, <2>2 DEF Life, Waiting, Running
    <2>4. Log'
        BY <1>0, SameLog DEF Inside, SameManifests, Shape
    <2>5. r'.enabled = r.enabled /\ r'.code = r.code /\ ~Running /\ ~Running'
        BY <1>1, <2>2 DEF Running, Fields
    <2>6. Inside'
        BY <1>0, <2>4, <2>5, NobodyRuns DEF Inside, Armed
    <2> QED BY <1>0, <2>2, <2>3, <2>5, <2>6, Watching DEF Shape
<1>2. CASE r.state # "zombie"
    <2>1. wait' = [wait EXCEPT ![matrix] = "clock"] /\ UNCHANGED child
        BY <1>2 DEF Poll, r
    <2>2. DOMAIN wait' = {matrix} /\ wait'[matrix] = "clock" /\ UNCHANGED r
        BY <1>0, <2>1 DEF Shape, r
    <2>3. Life'
        BY <1>0, <1>2, <2>2 DEF Life, Waiting, Running
    <2> QED BY <1>0, <2>1, <2>2, <2>3, Untouched
<1> QED BY <1>1, <1>2

\* A child that is killed is not running and holds no lock.
LEMMA CheckClockStep ==
    ASSUME Inv, CheckClock(matrix), UNCHANGED matrixVars
    PROVE  Inv'
<1> USE DEF matrixVars
<1>0. Shape /\ Inside /\ Life /\ wait[matrix] = "clock"
      /\ UNCHANGED <<store, evidence, synced, litter>>
    BY DEF Inv, Outside, CheckClock, AtDeadline
<1>1. CASE matrix \in late /\ r.state = "running"
    <2>1. /\ child' = [child EXCEPT ![matrix].state = "zombie", ![matrix].code = Signal]
          /\ Unlock(matrix) /\ wait' = [wait EXCEPT ![matrix] = "reap"]
        BY <1>1 DEF CheckClock, AtDeadline, Kill, Die, r
    <2>2. /\ DOMAIN child' = {matrix} /\ DOMAIN r' = Fields /\ r'.state = "zombie"
          /\ r'.code = Signal
          /\ \A f \in Fields \ {"state", "code"} : r'[f] = r[f]
          /\ DOMAIN wait' = {matrix} /\ wait'[matrix] = "reap"
        BY <1>0, <2>1 DEF Shape, Fields, r
    <2>3. Life'
        BY <1>0, <2>2 DEF Life, Waiting, Running
    <2>4. Log'
        BY <1>0, SameLog DEF Inside, SameManifests, Shape
    <2>5. r'.enabled = r.enabled /\ ~Running'
        BY <2>2 DEF Running, Fields
    <2>6. Inside' /\ DOMAIN lock' = Dirs
        BY <1>0, <2>1, <2>4, <2>5, NotRunning DEF Unlock
    <2> QED BY <1>0, <2>2, <2>3, <2>6, Watching
<1>2. CASE ~(matrix \in late /\ r.state = "running")
    <2>1. /\ UNCHANGED <<child, lock>>
          /\ wait' = [wait EXCEPT ![matrix] = IF matrix \in late THEN "reap" ELSE "poll"]
        BY <1>2 DEF CheckClock, AtDeadline, Kill, r
    <2>2. /\ DOMAIN wait' = {matrix} /\ UNCHANGED r
          /\ wait'[matrix] = IF matrix \in late THEN "reap" ELSE "poll"
        BY <1>0, <2>1 DEF Shape, r
    <2>3. Life'
        BY <1>0, <1>2, <2>2 DEF Life, Waiting, Running
    <2> QED BY <1>0, <2>1, <2>2, <2>3, Untouched
<1> QED BY <1>1, <1>2

LEMMA ReapStep ==
    ASSUME Inv, Reap(matrix), UNCHANGED matrixVars
    PROVE  Inv'
<1> USE DEF matrixVars
<1>0. Shape /\ Inside /\ Life /\ wait[matrix] = "reap" /\ r.state = "zombie"
      /\ UNCHANGED <<store, lock, evidence, synced, litter>>
    BY DEF Inv, Outside, Reap, r
<1>1. /\ child' = [child EXCEPT ![matrix].state = "reaped"]
      /\ wait' = [wait EXCEPT ![matrix] = "failed"]
    BY DEF Reap, Reaped
<1>2. /\ DOMAIN child' = {matrix} /\ DOMAIN r' = Fields /\ r'.state = "reaped"
      /\ \A f \in Fields \ {"state"} : r'[f] = r[f]
      /\ DOMAIN wait' = {matrix} /\ wait'[matrix] = "failed"
    BY <1>0, <1>1 DEF Shape, Fields, r
<1>3. Life'
    BY <1>0, <1>2 DEF Life, Waiting, Running
<1>4. Log'
    BY <1>0, SameLog DEF Inside, SameManifests, Shape
<1>5. r'.enabled = r.enabled /\ r'.code = r.code /\ ~Running /\ ~Running'
    BY <1>0, <1>2 DEF Running, Fields
<1>6. Inside'
    BY <1>0, <1>4, <1>5, NobodyRuns DEF Inside, Armed
<1> QED BY <1>0, <1>2, <1>3, <1>5, <1>6, Watching DEF Shape

LEMMA WatchdogSteps ==
    ASSUME Inv, Supervise \/ TimePasses \/ UNCHANGED vars
    PROVE  Inv'
<1>1. CASE Supervise
    BY <1>1, PollStep, CheckClockStep, ReapStep DEF Supervise, WatchdogStep
<1>2. CASE TimePasses \/ UNCHANGED vars
    <2>1. UNCHANGED <<store, lock, evidence, synced, litter, child, wait, matrixVars>>
        BY <1>2 DEF TimePasses, Expire, childVars, vars, watchdogVars
    <2>2. Life' /\ DOMAIN wait' = {matrix}
        BY <2>1 DEF Inv, Outside, Shape, Life, Waiting, Running, r, matrixVars
    <2> QED BY <2>1, <2>2, Untouched
<1> QED BY <1>1, <1>2

-----------------------------------------------------------------------------
(* Steps of the matrix *)

\* A fresh child, and what is true of it.
LEMMA Fresh ==
    ASSUME NEW job, NEW cfg, NEW dir, NEW path, Shape,
           child' = [child EXCEPT ![matrix] = Spawned(job, cfg, dir, path)]
    PROVE  /\ DOMAIN child' = {matrix} /\ DOMAIN r' = Fields
           /\ r'.state = "running" /\ r'.code = 0 /\ r'.job = job /\ r'.cfg = cfg
           /\ r'.dir = dir /\ r'.path = path /\ r'.pc = "construct" /\ r'.stage = "begin"
           /\ r'.seq = 0 /\ r'.recovered = 0 /\ r'.pending = 0 /\ r'.enabled = FALSE
           /\ r'.hits = 0 /\ r'.reports = <<>>
BY DEF Spawned, NoChild, Shape, Fields, r

\* Without a running child every lock is free.
LEMMA Unlocked ==
    ASSUME Inv, ~Running
    PROVE  \A d \in Dirs : lock[d] = None
BY DEF Inv, Inside, Locked

LEMMA InjectStep ==
    ASSUME Inv, NEW c \in Cases, Inject(c)
    PROVE  Inv'
<1>0. /\ Shape /\ Inside /\ Life /\ phase = "next" /\ index <= Iterations
      /\ phase' = "injected" /\ case_' = c
      /\ UNCHANGED <<store, lock, evidence, points, index, covered, code, crashed>>
      /\ index \in Dirs /\ index \in Nat
    BY CasesAssumption, MatrixAssumption DEF Inv, Outside, Inject, MoreCases, Shape
<1>1. /\ child' = [child EXCEPT ![matrix] = Spawned("inject", c, index, index)]
      /\ wait' = [wait EXCEPT ![matrix] = "poll"]
    BY DEF Inject, Fork
<1>2. DOMAIN wait' = {matrix} /\ wait'[matrix] = "poll"
    BY <1>0, <1>1 DEF Shape
<1>3. /\ DOMAIN child' = {matrix} /\ DOMAIN r' = Fields
      /\ r'.state = "running" /\ r'.code = 0 /\ r'.job = "inject" /\ r'.cfg = c
      /\ r'.dir = index /\ r'.path = index /\ r'.pc = "construct" /\ r'.stage = "begin"
      /\ r'.seq = 0 /\ r'.pending = 0 /\ r'.enabled = FALSE /\ r'.hits = 0
    BY <1>0, <1>1, Fresh
<1>4. ~Running
    BY <1>0 DEF Life, Running
<1>5. Shape'
    BY <1>0, <1>2, <1>3 DEF Shape
<1>6. Life'
    BY <1>0, <1>2, <1>3 DEF Life, Waiting, Running
<1>7. CaseOK'
    <2>1. /\ c \in [n : 3 .. MaxBlocks, interval : 1 .. MaxBlocks, workers : {1},
                    point : points, occurrence : 1 .. 2]
          /\ c.interval \in Intervals(c.n)
        BY DEF Cases
    <2>2. c.interval <= c.n - 1
        <3>1. c.n \in 3 .. MaxBlocks /\ c.n \in Int /\ c.interval \in Int
            BY <2>1, RunAssumption
        <3> QED BY <2>1, <3>1 DEF Intervals, Smallest
    <2> QED BY <1>0, <2>1, <2>2 DEF CaseOK, Shape
<1>8. Assigned'
    BY <1>0, <1>3, <1>7 DEF Assigned
<1>9. Judged' /\ PassMeansCovered'
    BY <1>0 DEF Inv, Outside, Judged, PassMeansCovered
<1>10. InjectionReached' /\ RecoveryExact' /\ EvidenceBeforeDeath'
    BY <1>3 DEF InjectionReached, RecoveryExact, EvidenceBeforeDeath, r,
        Returned, RecoveryFailed, Injected
<1>11. \A d \in Dirs : store[d].manifests = {}
    BY <1>0 DEF Inside, Log
<1>12. Log'
    BY <1>0, <1>11 DEF Log
<1>13. Armed' /\ Linked' /\ Ahead' /\ Memory' /\ Reported'
    <2>1. Armed'
        BY <1>3 DEF Armed
    <2>2. Linked' /\ Memory' /\ Reported'
        BY <1>3 DEF Linked, Memory, Reported, Opened, ManifestPcs
    <2>3. Ahead'
        BY <1>3 DEF Ahead, Opened, ManifestPcs, Before
    <2> QED BY <2>1, <2>2, <2>3
<1>14. Locked'
    BY <1>0, <1>4, Unlocked DEF Locked
<1>15. Count'
    <2>1. Manifests' = {}
        BY <1>0, <1>3, <1>11 DEF Manifests
    <2>2. case_'.occurrence \in 1 .. 2
        BY <1>7 DEF CaseOK
    <2> QED BY <1>3, <2>1, <2>2 DEF Count, Opened, ManifestPcs
<1> QED BY <1>5, <1>6, <1>8, <1>9, <1>10, <1>12, <1>13, <1>14, <1>15 DEF Inv, Outside, Inside

\* The matrix stops, with its child reaped.
LEMMA Stops ==
    ASSUME Inv, NEW c \in Nat, Stop(c), phase # "stopped", c # 0 \/ PassMeansCovered',
           wait[matrix] \in {"exited", "failed"},
           UNCHANGED <<store, lock, evidence, synced, litter, child, wait>>,
           UNCHANGED <<points, index, case_, covered, crashed>>
    PROVE  Inv'
<1>0. /\ Shape /\ Inside /\ Life /\ phase' = "stopped" /\ code' = c /\ c # None
      /\ UNCHANGED r
    BY ApartAssumption DEF Inv, Outside, Stop, r
<1>1. ~Running /\ ~Running'
    BY <1>0 DEF Life, Running
<1>2. Shape'
    BY <1>0 DEF Shape
<1>3. Life'
    BY <1>0, <1>1 DEF Life, Waiting
<1>4. Assigned' /\ Judged'
    BY <1>0 DEF Assigned, Judged, Inv, Outside
<1>5. InjectionReached' /\ RecoveryExact' /\ EvidenceBeforeDeath'
    BY <1>0 DEF Inv, Outside, InjectionReached, RecoveryExact, EvidenceBeforeDeath
<1>6. PassMeansCovered'
    BY <1>0 DEF PassMeansCovered
<1>7. Log'
    BY <1>0 DEF Inside, Log, Latest, Partial, Full
<1>8. Inside'
    BY <1>0, <1>1, <1>7, NobodyRuns DEF Inside, Armed
<1> QED BY <1>2, <1>3, <1>4, <1>5, <1>6, <1>8 DEF Inv, Outside

LEMMA JudgeInjectionStep ==
    ASSUME Inv, JudgeInjection
    PROVE  Inv'
<1>0. /\ Shape /\ Inside /\ Life /\ Assigned /\ phase = "injected"
      /\ wait[matrix] \in {"exited", "failed"}
      /\ UNCHANGED <<store, lock, evidence, synced, litter, points, index, case_>>
      /\ index \in Dirs /\ index \in Nat
    BY CasesAssumption, MatrixAssumption DEF Inv, Outside, JudgeInjection, Life, Shape
<1>1. CASE DiedInHook /\ EvidenceMatches
    <2>1. /\ covered' = covered \cup {case_.point}
          /\ child' = [child EXCEPT ![matrix] =
                        Spawned("recover", [case_ EXCEPT !.point = None], index, index)]
          /\ wait' = [wait EXCEPT ![matrix] = "poll"]
          /\ phase' = "recovering" /\ code' = code
          /\ crashed' = crashed \cup {<<index, case_.point>>}
        BY <1>1 DEF JudgeInjection, Fork, DiedInHook, EvidenceMatches
    <2>2. DOMAIN wait' = {matrix} /\ wait'[matrix] = "poll"
        BY <1>0, <2>1 DEF Shape
    <2>3. /\ DOMAIN child' = {matrix} /\ DOMAIN r' = Fields
          /\ r'.state = "running" /\ r'.code = 0 /\ r'.job = "recover"
          /\ r'.cfg = [case_ EXCEPT !.point = None] /\ r'.dir = index
          /\ r'.pc = "construct" /\ r'.stage = "begin"
          /\ r'.seq = 0 /\ r'.recovered = 0 /\ r'.enabled = FALSE /\ r'.reports = <<>>
        BY <1>0, <2>1, Fresh
    <2>4. ~Running
        BY <1>0 DEF Life, Running
    <2>5. Shape'
        BY <1>0, <2>2, <2>3 DEF Shape
    <2>6. Life'
        BY <1>0, <2>1, <2>2, <2>3 DEF Life, Waiting, Running
    <2>7. Assigned'
        BY <1>0, <2>1, <2>3 DEF Assigned, CaseOK
    <2>8. Judged'
        <3>1. /\ covered = {v[2] : v \in crashed}
              /\ {v[1] : v \in crashed} = 1 .. index - 1
            BY <1>0 DEF Inv, Outside, Judged
        <3> DEFINE e == <<index, case_.point>>
        <3>a. e[1] = index /\ e[2] = case_.point /\ crashed' = crashed \cup {e}
            BY <2>1
        <3> HIDE DEF e
        <3>2. {v[2] : v \in crashed'} = {v[2] : v \in crashed} \cup {case_.point}
            BY <3>a
        <3>3. {v[1] : v \in crashed'} = {v[1] : v \in crashed} \cup {index}
            BY <3>a
        <3>4. (1 .. index - 1) \cup {index} = 1 .. index
            BY <1>0 DEF Shape
        <3> QED BY <1>0, <2>1, <3>1, <3>2, <3>3, <3>4 DEF Judged
    <2>9. code # 0 /\ PassMeansCovered'
        BY <1>0, <2>1, ApartAssumption DEF Life, PassMeansCovered
    <2>10. InjectionReached' /\ RecoveryExact' /\ EvidenceBeforeDeath'
        BY <2>3 DEF InjectionReached, RecoveryExact, EvidenceBeforeDeath, r,
            Returned, RecoveryFailed, Injected
    <2>11. Log'
        BY <1>0, <2>1 DEF Inside, Log, Latest, Partial, Full
    <2>12. Armed' /\ Linked' /\ Ahead' /\ Memory' /\ Count'
        <3>1. Armed'
            BY <2>3 DEF Armed
        <3>2. Linked' /\ Memory' /\ Count'
            BY <2>3 DEF Linked, Memory, Count, Opened, ManifestPcs
        <3>3. Ahead'
            BY <2>3 DEF Ahead, Opened, ManifestPcs, Before
        <3> QED BY <3>1, <3>2, <3>3
    <2>13. Locked'
        BY <1>0, <2>4, Unlocked DEF Locked
    <2>14. Reported'
        BY <2>3 DEF Reported
    <2> QED BY <2>5, <2>6, <2>7, <2>8, <2>9, <2>10, <2>11, <2>12, <2>13, <2>14
        DEF Inv, Outside, Inside
<1>2. CASE ~(DiedInHook /\ EvidenceMatches)
    BY <1>0, <1>2, Stops DEF JudgeInjection
<1> QED BY <1>1, <1>2

LEMMA JudgeRecoveryStep ==
    ASSUME Inv, JudgeRecovery
    PROVE  Inv'
<1>0. /\ Shape /\ Inside /\ Life /\ phase = "recovering"
      /\ wait[matrix] \in {"exited", "failed"}
      /\ UNCHANGED <<lock, synced, litter, child, wait, points, case_, covered, crashed>>
      /\ index \in 1 .. Iterations /\ index \in Dirs
    BY CasesAssumption, MatrixAssumption
    DEF Inv, Outside, JudgeRecovery, Life, Shape, watchdogVars
<1>1. CASE wait[matrix] = "exited" /\ r.code = 0
    <2>1. /\ store' = [store EXCEPT ![index] = EmptyStore]
          /\ evidence' = [evidence EXCEPT ![index] = NoEvidence]
          /\ index' = index + 1 /\ phase' = "next" /\ code' = code /\ UNCHANGED r
        BY <1>0, <1>1 DEF JudgeRecovery, RemoveCase, r
    <2>2. ~Running /\ ~Running'
        BY <1>0, <2>1 DEF Life, Running
    <2>3. Shape'
        <3>1. DOMAIN EmptyStore = {"meta", "manifests", "results", "temps"}
            BY DEF EmptyStore
        <3>2. index' \in 1 .. Iterations + 1
            BY <1>0, <2>1, MatrixAssumption
        <3> QED BY <1>0, <2>1, <3>1, <3>2 DEF Shape
    <2>4. Life'
        BY <1>0, <1>1, <2>1, <2>2 DEF Life, Waiting
    <2>5. Assigned'
        BY <2>1 DEF Assigned
    <2>6. Judged'
        <3>1. index' - 1 = index
            BY <1>0, <2>1
        <3> QED BY <1>0, <2>1, <3>1 DEF Inv, Outside, Judged
    <2>7. InjectionReached' /\ RecoveryExact' /\ EvidenceBeforeDeath' /\ PassMeansCovered'
        BY <1>0, <2>1 DEF Inv, Outside, InjectionReached, RecoveryExact, EvidenceBeforeDeath,
            PassMeansCovered
    <2>8. \A d \in Dirs : store'[d].manifests = {}
        BY <1>0, <2>1 DEF Inside, Log, Shape, EmptyStore
    <2>9. Log'
        BY <2>8 DEF Log
    <2>10. Inside'
        BY <1>0, <2>1, <2>2, <2>9, NobodyRuns DEF Inside, Armed
    <2> QED BY <2>3, <2>4, <2>5, <2>6, <2>7, <2>10 DEF Inv, Outside
<1>2. CASE ~(wait[matrix] = "exited" /\ r.code = 0)
    BY <1>0, <1>2, Stops DEF JudgeRecovery, r
<1> QED BY <1>1, <1>2

\* All cases have been judged when the coverage is looked at.
LEMMA ConcludeStep ==
    ASSUME Inv, Conclude
    PROVE  Inv'
<1>0. /\ Shape /\ Life /\ Judged /\ phase = "next" /\ ~(index <= Iterations)
      /\ UNCHANGED <<childVars, watchdogVars, points, index, case_, covered, crashed>>
      /\ index = Iterations + 1 /\ Iterations \in Nat \ {0}
    BY MatrixAssumption DEF Inv, Outside, Conclude, MoreCases, Shape
<1>1. wait[matrix] \in {"exited", "failed"}
    BY <1>0 DEF Life
<1>2. {v[1] : v \in crashed} = Dirs
    BY <1>0, CasesAssumption DEF Judged
<1>3. CASE covered = points
    BY <1>0, <1>1, <1>2, <1>3, Stops
    DEF Conclude, Judged, PassMeansCovered, childVars, watchdogVars
<1>4. CASE covered # points
    BY <1>0, <1>1, <1>4, Stops DEF Conclude, childVars, watchdogVars
<1> QED BY <1>3, <1>4

-----------------------------------------------------------------------------
(* The theorems *)

LEMMA InitInv == Init => Inv
<1> SUFFICES ASSUME Init PROVE Inv
    OBVIOUS
<1>0. /\ Tools = {matrix} /\ Paths = Dirs
      /\ child = [t \in Tools |-> NoChild] /\ wait = [t \in Tools |-> "idle"]
      /\ store = [d \in Dirs |-> EmptyStore] /\ lock = [d \in Dirs |-> None]
      /\ evidence = [p \in Paths |-> NoEvidence]
      /\ points \in PointSets /\ phase = "next" /\ index = 1
      /\ covered = {} /\ code = None /\ crashed = {}
    BY MatrixAssumption, CasesAssumption DEF Init, ChildInit, WatchdogInit
<1>1. r = NoChild /\ DOMAIN child = {matrix} /\ DOMAIN wait = {matrix} /\ wait[matrix] = "idle"
    BY <1>0 DEF r
<1>2. DOMAIN r = Fields /\ r.state = "none" /\ r.enabled = FALSE /\ r.code = 0
    BY <1>1 DEF NoChild, Fields
<1>3. Shape
    BY <1>0, <1>1, <1>2, PointsAssumption, MatrixAssumption DEF Shape, EmptyStore
<1>4. Life
    BY <1>0, <1>1, <1>2 DEF Life, Waiting, Running
<1>5. Assigned
    BY <1>0 DEF Assigned
<1>6. Judged
    BY <1>0 DEF Judged
<1>7. InjectionReached /\ EvidenceBeforeDeath /\ RecoveryExact
    BY <1>2 DEF InjectionReached, EvidenceBeforeDeath, RecoveryExact, r,
        Returned, RecoveryFailed, Injected
<1>8. PassMeansCovered
    BY <1>0, ApartAssumption DEF PassMeansCovered
<1>9. Armed /\ Linked /\ Ahead /\ Memory /\ Reported /\ Count
    BY <1>2 DEF Armed, Linked, Ahead, Memory, Reported, Count, Running
<1>10. Locked
    BY <1>0 DEF Locked
<1>11. Log
    BY <1>0 DEF Log, EmptyStore
<1> QED BY <1>3, <1>4, <1>5, <1>6, <1>7, <1>8, <1>9, <1>10, <1>11 DEF Inv, Outside, Inside

LEMMA NextInv == Inv /\ [Next]_vars => Inv'
<1> SUFFICES ASSUME Inv, [Next]_vars PROVE Inv'
    OBVIOUS
<1>1. CASE MatrixStep
    BY <1>1, InjectStep, JudgeInjectionStep, JudgeRecoveryStep, ConcludeStep DEF MatrixStep
<1>2. CASE Supervise \/ TimePasses \/ UNCHANGED vars
    BY <1>2, WatchdogSteps
<1>3. CASE RunChild
    BY <1>3, ChildSteps DEF RunChild
<1> QED BY <1>1, <1>2, <1>3 DEF Next

\* The invariants hold in every behaviour of the crash matrix: the child, its
\* watchdog and the judgements of run_crash_matrix keep them at every step.
THEOREM Inductive == Spec => []Inv
BY InitInv, NextInv, PTL DEF Spec

\* No seed of make_case selects a hook that its run would finish without
\* meeting: an injected child never returns from run_parallel_durable.
THEOREM HooksAreReached == Spec => []InjectionReached
<1>1. Inv => InjectionReached
    BY DEF Inv, Outside
<1> QED BY <1>1, Inductive, PTL

\* A child that exits with code 86 has left its own descriptor, linked and
\* fsynced by write_descriptor_atomic, and no temporary beside it.
THEOREM EvidenceIsDurable == Spec => []EvidenceBeforeDeath
<1>1. Inv => EvidenceBeforeDeath
    BY DEF Inv, Outside
<1> QED BY <1>1, Inductive, PTL

\* Whatever hook the first child died in, run_recovery_child finds every block
\* recovered or computed, and the run complete when it opens it again.
THEOREM RecoveryIsExact == Spec => []RecoveryExact
<1>1. Inv => RecoveryExact
    BY DEF Inv, Outside
<1> QED BY <1>1, Inductive, PTL

\* The matrix does not return with a child that wait_for_child has not reaped.
THEOREM ChildrenAreReaped == Spec => []NoChildLeft
<1>1. Inv => NoChildLeft
    BY DEF Inv, Outside, Life, NoChildLeft, r
<1> QED BY <1>1, Inductive, PTL

\* Exit code 0 of the matrix means that a child died in every case, and that
\* the points they died at are all the points.
THEOREM PassingIsCoverage == Spec => []PassMeansCovered
<1>1. Inv => PassMeansCovered
    BY DEF Inv, Outside
<1> QED BY <1>1, Inductive, PTL
=============================================================================
