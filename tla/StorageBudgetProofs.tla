------------------------ MODULE StorageBudgetProofs ------------------------
(***************************************************************************)
(* For any number of blocks, any configurations and sizes, and any number  *)
(* of stopped processes: what preflight_run_completion admits is never     *)
(* refused by a later check, the limits are kept, and restarts cost no     *)
(* more than the headroom that RestartsAdmitted states.                    *)
(***************************************************************************)
EXTENDS StorageBudget, TLAPS

-----------------------------------------------------------------------------
(* The inductive invariants *)

RunPcs == {"run", "result", "checkpoint", "complete", "failed"}
OpenPcs == {"metadata", "scan", "snapshot"}

Typed ==
    /\ config \in [interval : Nat \ {0}, bytes : Nat, files : Nat, free : Nat,
                   manifest : Nat]
    /\ meta \in BOOLEAN
    /\ manifests \in [count : Nat, bytes : Nat]
    /\ results \in Nat /\ snapshot \in 0 .. N /\ received \in 0 .. N
    /\ status \in {"none", "Running", "Complete", "Failed"}
    /\ temp \in Nat /\ foreign \in Nat /\ pending \in Nat /\ stops \in Nat
    /\ pc \in RunPcs \cup OpenPcs \cup {"closed", "cleanup"}
    /\ usage \in [bytes : Nat, files : Nat]
    /\ admitted \in BOOLEAN /\ squeezed \in BOOLEAN /\ changed \in BOOLEAN
    /\ refusal \in {"none", "config", "limit", "completion", "write"}

\* Nothing is in the directory before run_spec.bin.
MetaFirst ==
    /\ ~meta => manifests.count = 0 /\ manifests.bytes = 0 /\ results = 0
                /\ snapshot = 0 /\ status = "none"
    /\ pc \notin {"closed", "metadata"} => meta
    /\ pc = "metadata" => ~meta

\* The temporary file is the one being written.
TempSized ==
    /\ pc \in {"scan", "cleanup", "run"} => temp = 0
    /\ pc \in Writes /\ temp # 0 => temp = Size(pc)

\* What the counters say is what the directory holds.
Tracked == pc \in Writes \cup {"run", "scan"} => usage = storage_usage

\* Every manifest was written within the estimate.
ManifestsSmall == manifests.bytes <= ManifestEstimate * manifests.count

\* Where a running process is between two checkpoints; only a run that has not
\* ended gets a first manifest.
Between ==
    /\ pc = "snapshot" => status \in {"none", "Running"}
    /\ pc \in RunPcs =>
        /\ status = "Running"
        /\ results = received
        /\ received = snapshot + pending
        /\ pc = "result" \/ (pc = "run" /\ received < N) => pending < config.interval
        /\ pc = "checkpoint" => pending = config.interval
        /\ pc = "result" => received < N
        /\ pending <= config.interval

\* The processes that have been admitted and may still write.
Working ==
    \/ pc \in Writes \cup {"run"}
    \/ pc = "scan" /\ admitted
    \/ pc = "cleanup" /\ status = "Running"

\* What such a process may still write.
LeftResults == N - (IF pc \in RunPcs THEN received ELSE snapshot)
SinceManifest == LeftResults + (IF pc \in RunPcs THEN pending ELSE 0)
LeftManifests ==
    SinceManifest \div config.interval + 1 + (IF pc \in OpenPcs THEN 1 ELSE 0)
LeftBytes ==
    ResultEstimate * LeftResults + ManifestEstimate * LeftManifests
    + (IF pc = "metadata" THEN MetadataBytes ELSE 0)
LeftFiles == LeftResults + LeftManifests + (IF pc = "metadata" THEN 1 ELSE 0)

\* It fits, unless other programs have taken the space.
Budget ==
    Working =>
        /\ ManifestEstimate <= config.manifest
        /\ StoredBytes + LeftBytes <= config.bytes
        /\ StoredFiles + LeftFiles <= config.files
        /\ LeftBytes + config.free <= U64Max
        /\ ~squeezed => StoredBytes + LeftBytes + config.free + foreign <= Capacity

\* The hypothesis of RestartsAdmitted.
Ample ==
    /\ Headroom /\ ~changed /\ Valid(config)
    /\ config.manifest >= ManifestEstimate
    /\ FirstBytes + config.free <= U64Max

\* A process that has written its first manifest.
Started == pc \in RunPcs \/ (pc = "cleanup" /\ status = "Running")

\* With ample room nothing has been refused, and each process that was stopped
\* has left at most one manifest beyond the first estimate.
Paid ==
    Ample =>
        /\ refusal = "none"
        /\ results <= snapshot + config.interval
        /\ status \in {"Complete", "Failed"} =>
                manifests.count <= CompletionManifests(N) + stops
        /\ status \notin {"Complete", "Failed"} =>
                manifests.count + CompletionManifests(N - snapshot)
                    <= CompletionManifests(N) + stops + (IF Started THEN 1 ELSE 0)

Local == Typed /\ MetaFirst /\ TempSized /\ Tracked /\ ManifestsSmall /\ Between
Inv == Local /\ Budget /\ NeverRefusedMidway /\ WithinLimits /\ Paid

-----------------------------------------------------------------------------
(* Arithmetic *)

\* Products with a natural number.
LEMMA Product ==
    ASSUME NEW m \in Nat, NEW a \in Nat, NEW b \in Nat
    PROVE  /\ m * a \in Nat /\ a * m = m * a
           /\ m * (a + b) = m * a + m * b
           /\ a <= b => m * a <= m * b
BY SMT

\* A quotient, between the multiples of the divisor.
LEMMA Quotient ==
    ASSUME NEW a \in Nat, NEW i \in Nat \ {0}
    PROVE  /\ a \div i \in Nat
           /\ i * (a \div i) <= a
           /\ a < i * (a \div i) + i
BY SMT

\* Quotients grow with the number divided, and by one with every divisor.
LEMMA QuotientStep ==
    ASSUME NEW a \in Nat, NEW b \in Nat, NEW i \in Nat \ {0}
    PROVE  /\ a <= b => a \div i <= b \div i
           /\ a + i <= b => a \div i + 1 <= b \div i
<1> DEFINE q == a \div i
           r == b \div i
<1>1. /\ q \in Nat /\ i * q <= a /\ a < i * q + i
      /\ r \in Nat /\ i * r <= b /\ b < i * r + i
    BY Quotient
<1> HIDE DEF q, r
<1>2. ASSUME a <= b
      PROVE  q <= r
    <2>1. CASE q >= r + 1
        <3>1. i * (r + 1) <= i * q /\ i * (r + 1) = i * r + i
            BY <1>1, <2>1, SMT
        <3> QED BY <1>1, <1>2, <3>1, SMT
    <2> QED BY <1>1, <2>1, SMT
<1>3. ASSUME a + i <= b
      PROVE  q + 1 <= r
    <2>1. CASE q >= r
        <3>1. i * r <= i * q
            BY <1>1, <2>1, SMT
        <3> QED BY <1>1, <1>3, <3>1, SMT
    <2> QED BY <1>1, <2>1, SMT
<1> QED BY <1>2, <1>3 DEF q, r

\* CompletionManifests for an interval i.
Manifests(m, i) == (IF m = 0 THEN 0 ELSE 1 + (m - 1) \div i) + 2

\* The estimate has room for a first and a last manifest and for a periodic one
\* after every i blocks; it grows with the blocks, and by one with i of them.
LEMMA Estimate ==
    ASSUME NEW m \in Nat, NEW n \in Nat, NEW i \in Nat \ {0}
    PROVE  /\ Manifests(m, i) \in Nat /\ Manifests(m, i) >= 2
           /\ m \div i + 2 <= Manifests(m, i)
           /\ m <= n => Manifests(m, i) <= Manifests(n, i)
           /\ m + i <= n => Manifests(m, i) + 1 <= Manifests(n, i)
<1>0. /\ m # 0 => m - 1 \in Nat
      /\ n # 0 => n - 1 \in Nat
    BY SMT
<1>1. Manifests(m, i) \in Nat /\ Manifests(m, i) >= 2
    BY <1>0, Quotient, SMT DEF Manifests
<1>2. m \div i + 2 <= Manifests(m, i)
    <2> DEFINE q == m \div i
               r == (m - 1) \div i
    <2>1. CASE m = 0
        <3>1. 0 \div i = 0
            BY Quotient, SMT
        <3> QED BY <2>1, <3>1, SMT DEF Manifests
    <2>2. CASE m # 0
        <3>1. /\ q \in Nat /\ i * q <= m
              /\ r \in Nat /\ m - 1 < i * r + i
            BY <1>0, <2>2, Quotient
        <3> HIDE DEF q, r
        <3>2. CASE q >= r + 2
            <4>1. i * (r + 2) <= i * q /\ i * (r + 2) = i * r + i + i
                BY <3>1, <3>2, SMT
            <4> QED BY <3>1, <4>1, SMT
        <3>3. q <= r + 1
            BY <3>1, <3>2, SMT
        <3> QED BY <2>2, <3>1, <3>3, SMT DEF Manifests, q, r
    <2> QED BY <2>1, <2>2
<1>3. ASSUME m <= n
      PROVE  Manifests(m, i) <= Manifests(n, i)
    <2>1. CASE m = 0
        BY <1>0, <2>1, Quotient, SMT DEF Manifests
    <2>2. CASE m # 0
        <3>1. m - 1 \in Nat /\ n - 1 \in Nat /\ m - 1 <= n - 1 /\ n # 0
            BY <1>3, <2>2, SMT
        <3>2. (m - 1) \div i <= (n - 1) \div i
            BY <3>1, QuotientStep
        <3>3. (m - 1) \div i \in Nat /\ (n - 1) \div i \in Nat
            BY <3>1, Quotient
        <3> QED BY <2>2, <3>1, <3>2, <3>3, SMT DEF Manifests
    <2> QED BY <2>1, <2>2
<1>4. ASSUME m + i <= n
      PROVE  Manifests(m, i) + 1 <= Manifests(n, i)
    <2>0. n # 0 /\ n - 1 \in Nat
        BY <1>4, SMT
    <2>1. CASE m = 0
        <3>1. (n - 1) \div i \in Nat
            BY <2>0, Quotient
        <3> QED BY <2>0, <2>1, <3>1, SMT DEF Manifests
    <2>2. CASE m # 0
        <3>1. m - 1 \in Nat /\ (m - 1) + i <= n - 1
            BY <1>4, <2>2, SMT
        <3>2. (m - 1) \div i + 1 <= (n - 1) \div i
            BY <2>0, <3>1, QuotientStep
        <3>3. (m - 1) \div i \in Nat /\ (n - 1) \div i \in Nat
            BY <2>0, <3>1, Quotient
        <3> QED BY <2>0, <2>2, <3>2, <3>3, SMT DEF Manifests
    <2> QED BY <2>1, <2>2
<1> QED BY <1>1, <1>2, <1>3, <1>4

\* The sizes that are written are within the sizes that are estimated.
LEMMA Sizes ==
    /\ N \in Nat \ {0}
    /\ ManifestEstimate \in Nat \ {0}
    /\ ResultBytes = 296 /\ ResultEstimate = 512
    /\ MetadataBytes \in Nat \ {0}
    /\ \A c \in 0 .. N, f \in BOOLEAN :
            /\ ManifestBytes(c, f) \in Nat \ {0}
            /\ ManifestBytes(c, f) <= ManifestEstimate
<1>1. N \in Nat \ {0} /\ MetadataBytes \in Nat \ {0} /\ ReasonBytes \in 0 .. 147
    BY BlocksAssumption, SizesAssumption, ReasonAssumption
<1> QED
    BY <1>1, SMT DEF ManifestEstimate, ResultBytes, ResultEstimate, ManifestBytes,
        FailureBytes, Envelope, Aggregate, Digest

-----------------------------------------------------------------------------
(* The state of a process and of the directory *)

\* What config and the names of the steps say.
LEMMA Names ==
    /\ Writes = (RunPcs \ {"run"}) \cup {"metadata", "snapshot"}
    /\ "closed" \notin RunPcs \cup OpenPcs \cup Writes
    /\ "cleanup" \notin RunPcs \cup OpenPcs \cup Writes
    /\ "scan" \notin RunPcs \cup Writes
BY DEF Writes, RunPcs, OpenPcs

\* What a process writes has a size, and a manifest is within the estimate.
LEMMA Written ==
    ASSUME snapshot \in 0 .. N, received \in 0 .. N, pc \in Writes
    PROVE  /\ Size(pc) \in Nat \ {0}
           /\ pc \notin {"metadata", "result"} => Size(pc) <= ManifestEstimate
           /\ pc = "metadata" => Size(pc) = MetadataBytes
           /\ pc = "result" => Size(pc) = ResultBytes
<1>1. CASE pc = "metadata"
    BY <1>1, Sizes DEF Size
<1>2. CASE pc = "result"
    BY <1>2, Sizes DEF Size
<1>3. CASE pc = "snapshot"
    <2>1. Size(pc) = ManifestBytes(snapshot, FALSE)
        BY <1>3 DEF Size
    <2> QED BY <1>3, <2>1, Sizes
<1>4. CASE pc \in {"checkpoint", "complete", "failed"}
    <2>1. Size(pc) = ManifestBytes(received, pc = "failed")
        BY <1>4 DEF Size
    <2>2. CASE pc = "failed"
        <3>1. Size(pc) = ManifestBytes(received, TRUE)
            BY <2>1, <2>2
        <3> QED BY <2>2, <3>1, Sizes
    <2>3. CASE pc # "failed"
        <3>1. Size(pc) = ManifestBytes(received, FALSE)
            BY <2>1, <2>3
        <3> QED BY <1>4, <3>1, Sizes
    <2> QED BY <2>2, <2>3
<1> QED BY <1>1, <1>2, <1>3, <1>4 DEF Writes

\* A resolved cadence is positive (resolve_checkpoint_cadence).
LEMMA Resolved ==
    ASSUME NEW c \in Configs
    PROVE  resolve_checkpoint_cadence(c)
            \in [interval : Nat \ {0}, bytes : Nat, files : Nat, free : Nat, manifest : Nat]
<1>1. c \in [interval : Nat, bytes : Nat, files : Nat, free : Nat, manifest : Nat]
    BY ConfigsAssumption
<1> DEFINE cap == 1 + (N - 1) \div MaxAutoManifests
           i == IF c.interval # 0 THEN c.interval
                ELSE IF cap > MinAutoInterval THEN cap ELSE MinAutoInterval
<1>2. i \in Nat \ {0}
    <2>1. N - 1 \in Nat /\ MaxAutoManifests \in Nat \ {0} /\ MinAutoInterval \in Nat \ {0}
        BY BlocksAssumption, CadenceAssumption
    <2>2. cap \in Nat \ {0}
        BY <2>1, Quotient
    <2> QED BY <1>1, <2>1, <2>2
<1>3. resolve_checkpoint_cadence(c) = [c EXCEPT !.interval = i]
    BY DEF resolve_checkpoint_cadence
<1> QED BY <1>1, <1>2, <1>3

LEMMA InitInv == Init => Inv
<1> SUFFICES ASSUME Init PROVE Inv
    OBVIOUS
<1>5. config \in [interval : Nat \ {0}, bytes : Nat, files : Nat, free : Nat,
                  manifest : Nat]
    BY Resolved DEF Init
<1>6. Local
    <2> USE <1>5, Sizes DEF Init, Writes, RunPcs, OpenPcs
    <2>1. Typed
        <3>1. /\ manifests \in [count : Nat, bytes : Nat]
              /\ usage \in [bytes : Nat, files : Nat]
            OBVIOUS
        <3>2. /\ results \in Nat /\ snapshot \in 0 .. N /\ received \in 0 .. N
              /\ temp \in Nat /\ foreign \in Nat /\ pending \in Nat /\ stops \in Nat
            OBVIOUS
        <3>3. /\ meta \in BOOLEAN /\ admitted \in BOOLEAN
              /\ squeezed \in BOOLEAN /\ changed \in BOOLEAN
            OBVIOUS
        <3> QED BY <3>1, <3>2, <3>3 DEF Typed
    <2>2. MetaFirst /\ TempSized /\ Tracked /\ Between
        BY DEF MetaFirst, TempSized, Tracked, Between
    <2>3. ManifestsSmall
        BY DEF ManifestsSmall
    <2> QED BY <2>1, <2>2, <2>3 DEF Local
<1>7. Budget /\ NeverRefusedMidway /\ WithinLimits
    BY Names DEF Init, Budget, Working, NeverRefusedMidway, WithinLimits
<1>8. Paid
    <2>1. CompletionManifests(N) \in Nat
        BY <1>5, Sizes, Estimate DEF CompletionManifests, Manifests
    <2>2. N - 0 = N /\ ~Started
        BY Sizes, Names DEF Started, Init
    <2> QED BY <1>5, <2>1, <2>2 DEF Paid, Init
<1> QED BY <1>6, <1>7, <1>8 DEF Inv

\* One case per disjunct of the next-state relation, and per conjunct.
LEMMA LocalStep == Inv /\ [Next]_vars => Local'
<1> SUFFICES ASSUME Inv, [Next]_vars PROVE Local'
    OBVIOUS
<1> USE Sizes DEF Inv, Local, Typed, Writes, RunPcs, OpenPcs, disk, process
<1>1. CASE Open
    <2>1. CASE Refuse("config") \/ Refuse("limit") \/ Refuse("completion")
        <3>0. temp' \in Nat
            BY <1>1 DEF Open
        <3>1. Typed'
            BY <2>1, <3>0 DEF Refuse
        <3>2. MetaFirst'
            BY <2>1, <3>0 DEF Refuse, MetaFirst
        <3>3. TempSized'
            BY <2>1, <3>0 DEF Refuse, TempSized, Size
        <3>4. Tracked'
            BY <2>1, <3>0 DEF Refuse, Tracked, storage_usage, StoredBytes, StoredFiles
        <3>5. ManifestsSmall'
            BY <2>1, <3>0 DEF Refuse, ManifestsSmall
        <3>6. Between'
            BY <2>1, <3>0 DEF Refuse, Between
        <3> QED BY <3>1, <3>2, <3>3, <3>4, <3>5, <3>6
    <2>2. CASE /\ usage' = storage_usage /\ admitted' = ~meta /\ squeezed' = FALSE
               /\ temp' = 0
               /\ Proceed(IF meta THEN "scan" ELSE "metadata")
        <3>0. storage_usage \in [bytes : Nat, files : Nat]
            BY DEF storage_usage, StoredBytes, StoredFiles
        <3>1. Typed'
            BY <2>2, <3>0 DEF Proceed
        <3>2. MetaFirst'
            BY <2>2, <3>0 DEF Proceed, MetaFirst
        <3>3. TempSized'
            BY <2>2, <3>0 DEF Proceed, TempSized, Size
        <3>4. Tracked'
            BY <2>2, <3>0 DEF Proceed, Tracked, storage_usage, StoredBytes, StoredFiles
        <3>5. ManifestsSmall'
            BY <2>2, <3>0 DEF Proceed, ManifestsSmall
        <3>6. Between'
            BY <2>2, <3>0 DEF Proceed, Between
        <3> QED BY <3>1, <3>2, <3>3, <3>4, <3>5, <3>6
    <2> QED BY <1>1, <2>1, <2>2 DEF Open
<1>2. CASE Scan
    <2>1. CASE Refuse("completion") /\ UNCHANGED temp
        <3>1. Typed'
            BY <2>1 DEF Refuse
        <3>2. MetaFirst'
            BY <2>1 DEF Refuse, MetaFirst
        <3>3. TempSized'
            BY <2>1 DEF Refuse, TempSized, Size
        <3>4. Tracked'
            BY <2>1 DEF Refuse, Tracked, storage_usage, StoredBytes, StoredFiles
        <3>5. ManifestsSmall'
            BY <2>1 DEF Refuse, ManifestsSmall
        <3>6. Between'
            BY <2>1 DEF Refuse, Between
        <3> QED BY <3>1, <3>2, <3>3, <3>4, <3>5, <3>6
    <2>2. CASE \E t \in BOOLEAN :
                /\ t <=> status \in {"Complete", "Failed"}
                /\ admitted' = ~t /\ squeezed' = (admitted /\ squeezed)
                /\ Proceed(IF t THEN "cleanup" ELSE "snapshot")
                /\ UNCHANGED <<temp, usage>>
        <3>0. pc = "scan"
            BY <1>2 DEF Scan
        <3>1. Typed'
            BY <2>2, <3>0 DEF Proceed
        <3>2. MetaFirst'
            BY <2>2, <3>0 DEF Proceed, MetaFirst
        <3>3. TempSized'
            BY <2>2, <3>0 DEF Proceed, TempSized, Size
        <3>4. Tracked'
            BY <2>2, <3>0 DEF Proceed, Tracked, storage_usage, StoredBytes, StoredFiles
        <3>5. ManifestsSmall'
            BY <2>2, <3>0 DEF Proceed, ManifestsSmall
        <3>6. Between'
            BY <2>2, <3>0 DEF Proceed, Between
        <3> QED BY <3>1, <3>2, <3>3, <3>4, <3>5, <3>6
    <2> QED BY <1>2, <2>1, <2>2 DEF Scan
<1>3. CASE Cleanup
    <2>0. storage_usage \in [bytes : Nat, files : Nat]
        BY DEF storage_usage, StoredBytes, StoredFiles
    <2>1. Typed'
        BY <1>3, <2>0 DEF Cleanup
    <2>2. MetaFirst'
        BY <1>3, <2>0 DEF Cleanup, MetaFirst
    <2>3. TempSized'
        BY <1>3, <2>0 DEF Cleanup, TempSized, Size
    <2>4. Tracked'
        BY <1>3, <2>0 DEF Cleanup, Tracked, storage_usage, StoredBytes, StoredFiles
    <2>5. ManifestsSmall'
        BY <1>3, <2>0 DEF Cleanup, ManifestsSmall
    <2>6. Between'
        BY <1>3, <2>0 DEF Cleanup, Between
    <2> QED BY <2>1, <2>2, <2>3, <2>4, <2>5, <2>6
<1>4. CASE Run
    <2>1. Typed'
        BY <1>4 DEF Run
    <2>2. MetaFirst'
        BY <1>4 DEF Run, MetaFirst
    <2>3. TempSized'
        BY <1>4 DEF Run, TempSized, Size
    <2>4. Tracked'
        BY <1>4 DEF Run, Tracked, storage_usage, StoredBytes, StoredFiles
    <2>5. ManifestsSmall'
        BY <1>4 DEF Run, ManifestsSmall
    <2>6. Between'
        BY <1>4 DEF Run, Between
    <2> QED BY <2>1, <2>2, <2>3, <2>4, <2>5, <2>6
<1>5. CASE WriteTemp
    <2>0. Size(pc) \in Nat
        BY <1>5, Written DEF WriteTemp
    <2>1. Typed'
        BY <1>5, <2>0 DEF WriteTemp, Refuse
    <2>2. MetaFirst'
        BY <1>5, <2>0 DEF WriteTemp, Refuse, MetaFirst
    <2>3. TempSized'
        BY <1>5, <2>0 DEF WriteTemp, Refuse, TempSized, Size
    <2>4. Tracked'
        BY <1>5, <2>0 DEF WriteTemp, Refuse, Tracked, storage_usage, StoredBytes, StoredFiles
    <2>5. ManifestsSmall'
        BY <1>5, <2>0 DEF WriteTemp, Refuse, ManifestsSmall
    <2>6. Between'
        BY <1>5, <2>0 DEF WriteTemp, Refuse, Between
    <2> QED BY <2>1, <2>2, <2>3, <2>4, <2>5, <2>6
<1>6. CASE Install
    <2>0. /\ temp' = 0 /\ temp \in Nat \ {0}
          /\ usage' = [bytes |-> usage.bytes + temp, files |-> usage.files + 1]
          /\ UNCHANGED <<config, foreign, admitted, refusal, squeezed, stops, changed>>
        BY <1>6 DEF Install, Charge
    <2>1. CASE InstallMetadata
        <3>1. Typed'
            BY <2>0, <2>1 DEF InstallMetadata
        <3>2. MetaFirst'
            BY <2>0, <2>1 DEF InstallMetadata, MetaFirst
        <3>3. TempSized'
            BY <2>0, <2>1 DEF InstallMetadata, TempSized, Size
        <3>4. Tracked'
            <4>1. temp = MetadataBytes /\ ~meta /\ meta'
                BY <2>0, <2>1, Written DEF InstallMetadata, TempSized, MetaFirst
            <4>2. storage_usage' = [bytes |-> storage_usage.bytes + MetadataBytes,
                                    files |-> storage_usage.files + 1]
                BY <2>0, <2>1, <4>1 DEF InstallMetadata, storage_usage, StoredBytes, StoredFiles
            <4>3. usage = storage_usage
                BY <2>1 DEF InstallMetadata, Tracked
            <4> QED BY <2>0, <4>1, <4>2, <4>3 DEF Tracked
        <3>5. ManifestsSmall'
            BY <2>0, <2>1 DEF InstallMetadata, ManifestsSmall, TempSized, Size
        <3>6. Between'
            BY <2>0, <2>1 DEF InstallMetadata, Between, MetaFirst, TempSized
        <3> QED BY <3>1, <3>2, <3>3, <3>4, <3>5, <3>6
    <2>2. CASE InstallSnapshot
        <3>1. Typed'
            BY <2>0, <2>2 DEF InstallSnapshot, InstallManifest
        <3>2. MetaFirst'
            BY <2>0, <2>2 DEF InstallSnapshot, InstallManifest, MetaFirst
        <3>3. TempSized'
            BY <2>0, <2>2 DEF InstallSnapshot, InstallManifest, TempSized, Size
        <3>4. Tracked'
            BY <2>0, <2>2 DEF InstallSnapshot, InstallManifest, Tracked, TempSized, Size, storage_usage, StoredBytes, StoredFiles
        <3>5. ManifestsSmall'
            <4>1. temp <= ManifestEstimate
                BY <2>0, <2>2, Written DEF InstallSnapshot, TempSized
            <4>2. ManifestEstimate * (manifests.count + 1)
                    = ManifestEstimate * manifests.count + ManifestEstimate
                BY Product
            <4>3. manifests' = [count |-> manifests.count + 1,
                                bytes |-> manifests.bytes + temp]
                BY <2>2 DEF InstallSnapshot, InstallManifest
            <4> DEFINE old == ManifestEstimate * manifests.count
            <4>4. old \in Nat
                BY Product
            <4>5. manifests.bytes <= old
                BY DEF ManifestsSmall
            <4>6. manifests'.bytes <= ManifestEstimate * manifests'.count
                <5> HIDE DEF old
                <5>1. manifests.bytes + temp <= old + ManifestEstimate
                    BY <2>0, <4>1, <4>4, <4>5
                <5> QED BY <4>2, <4>3, <5>1 DEF old
            <4> QED BY <4>6 DEF ManifestsSmall
        <3>6. Between'
            BY <2>0, <2>2 DEF InstallSnapshot, InstallManifest, Between, MetaFirst, TempSized
        <3> QED BY <3>1, <3>2, <3>3, <3>4, <3>5, <3>6
    <2>3. CASE InstallResult
        <3>0. pc = "result" /\ received < N
            BY <2>3 DEF InstallResult, Between
        <3>1. Typed'
            <4>1. received + 1 \in 0 .. N /\ results + 1 \in Nat /\ pending + 1 \in Nat
                BY <3>0
            <4>2. usage' \in [bytes : Nat, files : Nat]
                BY <2>0
            <4> QED BY <2>0, <2>3, <4>1, <4>2 DEF InstallResult
        <3>2. MetaFirst'
            BY <2>0, <2>3 DEF InstallResult, CheckpointDue, MetaFirst
        <3>3. TempSized'
            BY <2>0, <2>3 DEF InstallResult, CheckpointDue, TempSized, Size
        <3>4. Tracked'
            BY <2>0, <2>3 DEF InstallResult, CheckpointDue, Tracked, TempSized, Size, storage_usage, StoredBytes, StoredFiles
        <3>5. ManifestsSmall'
            BY <2>0, <2>3 DEF InstallResult, CheckpointDue, ManifestsSmall, TempSized, Size
        <3>6. Between'
            BY <2>0, <2>3 DEF InstallResult, CheckpointDue, Between, MetaFirst, TempSized
        <3> QED BY <3>1, <3>2, <3>3, <3>4, <3>5, <3>6
    <2>4. CASE InstallCheckpoint
        <3>1. Typed'
            BY <2>0, <2>4 DEF InstallCheckpoint, InstallManifest
        <3>2. MetaFirst'
            BY <2>0, <2>4 DEF InstallCheckpoint, InstallManifest, MetaFirst
        <3>3. TempSized'
            BY <2>0, <2>4 DEF InstallCheckpoint, InstallManifest, TempSized, Size
        <3>4. Tracked'
            BY <2>0, <2>4 DEF InstallCheckpoint, InstallManifest, Tracked, TempSized, Size, storage_usage, StoredBytes, StoredFiles
        <3>5. ManifestsSmall'
            <4>1. temp <= ManifestEstimate
                BY <2>0, <2>4, Written DEF InstallCheckpoint, TempSized
            <4>2. ManifestEstimate * (manifests.count + 1)
                    = ManifestEstimate * manifests.count + ManifestEstimate
                BY Product
            <4>3. manifests' = [count |-> manifests.count + 1,
                                bytes |-> manifests.bytes + temp]
                BY <2>4 DEF InstallCheckpoint, InstallManifest
            <4> DEFINE old == ManifestEstimate * manifests.count
            <4>4. old \in Nat
                BY Product
            <4>5. manifests.bytes <= old
                BY DEF ManifestsSmall
            <4>6. manifests'.bytes <= ManifestEstimate * manifests'.count
                <5> HIDE DEF old
                <5>1. manifests.bytes + temp <= old + ManifestEstimate
                    BY <2>0, <4>1, <4>4, <4>5
                <5> QED BY <4>2, <4>3, <5>1 DEF old
            <4> QED BY <4>6 DEF ManifestsSmall
        <3>6. Between'
            BY <2>0, <2>4 DEF InstallCheckpoint, InstallManifest, Between, MetaFirst, TempSized
        <3> QED BY <3>1, <3>2, <3>3, <3>4, <3>5, <3>6
    <2> QED BY <1>6, <2>1, <2>2, <2>3, <2>4 DEF Install
<1>7. CASE Stop
    <2>1. Typed'
        BY <1>7 DEF Stop
    <2>2. MetaFirst'
        BY <1>7 DEF Stop, MetaFirst
    <2>3. TempSized'
        BY <1>7 DEF Stop, TempSized, Size
    <2>4. Tracked'
        BY <1>7 DEF Stop, Tracked, storage_usage, StoredBytes, StoredFiles
    <2>5. ManifestsSmall'
        BY <1>7 DEF Stop, ManifestsSmall
    <2>6. Between'
        BY <1>7 DEF Stop, Between
    <2> QED BY <2>1, <2>2, <2>3, <2>4, <2>5, <2>6
<1>8. CASE Squeeze
    <2>1. Typed'
        BY <1>8, BoundsAssumption DEF Squeeze
    <2>2. MetaFirst'
        BY <1>8, BoundsAssumption DEF Squeeze, MetaFirst
    <2>3. TempSized'
        BY <1>8, BoundsAssumption DEF Squeeze, TempSized, Size
    <2>4. Tracked'
        BY <1>8, BoundsAssumption DEF Squeeze, Tracked, storage_usage, StoredBytes, StoredFiles
    <2>5. ManifestsSmall'
        BY <1>8, BoundsAssumption DEF Squeeze, ManifestsSmall
    <2>6. Between'
        BY <1>8, BoundsAssumption DEF Squeeze, Between
    <2> QED BY <2>1, <2>2, <2>3, <2>4, <2>5, <2>6
<1>9. CASE Reconfigure
    <2>0. PICK c \in Configs : config' = resolve_checkpoint_cadence(c)
        BY <1>9 DEF Reconfigure
    <2>a. config' \in [interval : Nat \ {0}, bytes : Nat, files : Nat, free : Nat,
                       manifest : Nat]
        BY <2>0, Resolved
    <2>1. Typed'
        BY <1>9, <2>a DEF Reconfigure
    <2>2. MetaFirst'
        BY <1>9, <2>a DEF Reconfigure, MetaFirst
    <2>3. TempSized'
        BY <1>9, <2>a DEF Reconfigure, TempSized, Size
    <2>4. Tracked'
        BY <1>9, <2>a DEF Reconfigure, Tracked, storage_usage, StoredBytes, StoredFiles
    <2>5. ManifestsSmall'
        BY <1>9, <2>a DEF Reconfigure, ManifestsSmall
    <2>6. Between'
        BY <1>9, <2>a DEF Reconfigure, Between
    <2> QED BY <2>1, <2>2, <2>3, <2>4, <2>5, <2>6
<1>10. CASE UNCHANGED vars
    <2>1. Typed'
        BY <1>10 DEF vars
    <2>2. MetaFirst'
        BY <1>10 DEF vars, MetaFirst
    <2>3. TempSized'
        BY <1>10 DEF vars, TempSized, Size
    <2>4. Tracked'
        BY <1>10 DEF vars, Tracked, storage_usage, StoredBytes, StoredFiles
    <2>5. ManifestsSmall'
        BY <1>10 DEF vars, ManifestsSmall
    <2>6. Between'
        BY <1>10 DEF vars, Between
    <2> QED BY <2>1, <2>2, <2>3, <2>4, <2>5, <2>6
<1> QED
    BY <1>1, <1>2, <1>3, <1>4, <1>5, <1>6, <1>7, <1>8, <1>9, <1>10 DEF Next

-----------------------------------------------------------------------------
(* The budget of an admitted process *)

\* What is stored and what is left to write are natural numbers.
Amount ==
    /\ LeftResults \in Nat /\ SinceManifest \in Nat /\ LeftManifests \in Nat
    /\ LeftBytes \in Nat /\ LeftFiles \in Nat
    /\ StoredBytes \in Nat /\ StoredFiles \in Nat

LEMMA Amounts == Local => Amount
<1> SUFFICES ASSUME Local PROVE Amount
    OBVIOUS
<1> USE Sizes DEF Local, Typed
<1>1. LeftResults \in Nat
    BY DEF LeftResults
<1>2. SinceManifest \in Nat
    BY <1>1 DEF SinceManifest
<1>3. LeftManifests \in Nat
    <2>1. SinceManifest \div config.interval \in Nat
        BY <1>2, Quotient
    <2> QED BY <2>1 DEF LeftManifests
<1>4. LeftFiles \in Nat
    BY <1>1, <1>3 DEF LeftFiles
<1>5. LeftBytes \in Nat
    <2>1. ManifestEstimate * LeftManifests \in Nat
        BY <1>3, Product
    <2> QED BY <1>1, <2>1 DEF LeftBytes
<1>6. StoredBytes \in Nat /\ StoredFiles \in Nat
    BY DEF StoredBytes, StoredFiles
<1> QED BY <1>1, <1>2, <1>3, <1>4, <1>5, <1>6 DEF Amount

\* A step that adds to the directory no more than it takes from what is left to
\* write.
Spends ==
    /\ Working /\ UNCHANGED <<config, foreign>>
    /\ ~squeezed' => ~squeezed
    /\ StoredBytes' + LeftBytes' <= StoredBytes + LeftBytes
    /\ StoredFiles' + LeftFiles' <= StoredFiles + LeftFiles
    /\ LeftBytes' <= LeftBytes

\* Such a step keeps the budget.
LEMMA Kept == Local /\ Budget /\ Amount' /\ Spends => Budget'
<1> SUFFICES ASSUME Local, Budget, Amount', Spends
             PROVE  Budget'
    OBVIOUS
<1>1. PICK sb \in Nat, lb \in Nat, sf \in Nat, lf \in Nat :
        sb = StoredBytes /\ lb = LeftBytes /\ sf = StoredFiles /\ lf = LeftFiles
    BY Amounts DEF Amount
<1>2. PICK tb \in Nat, mb \in Nat, tf \in Nat, mf \in Nat :
        tb = StoredBytes' /\ mb = LeftBytes' /\ tf = StoredFiles' /\ mf = LeftFiles'
    BY DEF Amount
<1>3. /\ config.bytes \in Nat /\ config.files \in Nat /\ config.free \in Nat
      /\ foreign \in Nat /\ Capacity \in Nat /\ U64Max \in Nat
    BY SizesAssumption DEF Local, Typed
<1>4. /\ ManifestEstimate <= config.manifest
      /\ sb + lb <= config.bytes
      /\ sf + lf <= config.files
      /\ lb + config.free <= U64Max
      /\ ~squeezed => sb + lb + config.free + foreign <= Capacity
    BY <1>1 DEF Budget, Spends
<1>5. /\ tb + mb <= sb + lb /\ tf + mf <= sf + lf /\ mb <= lb
      /\ ~squeezed' => ~squeezed
    BY <1>1, <1>2 DEF Spends
<1>6. config' = config /\ foreign' = foreign
    BY DEF Spends
<1>7. ManifestEstimate' <= config'.manifest
    BY <1>4, <1>6 DEF ManifestEstimate
<1>8. /\ tb + mb <= config.bytes
      /\ tf + mf <= config.files
      /\ mb + config.free <= U64Max
    BY <1>3, <1>4, <1>5
<1>9. ~squeezed' => tb + mb + config.free + foreign <= Capacity
    BY <1>3, <1>4, <1>5
<1> QED BY <1>2, <1>6, <1>7, <1>8, <1>9 DEF Budget

\* run_spec.bin, as long as it is to be written.
LeftMetadata == IF pc = "metadata" THEN MetadataBytes ELSE 0
LeftSpec == IF pc = "metadata" THEN 1 ELSE 0

\* A step that writes r results, m manifests and x bytes in y other files, and
\* has so many fewer to write afterwards.
LEMMA Spending ==
    ASSUME NEW r \in Nat, NEW m \in Nat, NEW x \in Nat, NEW y \in Nat,
           Local, Amount', Working, UNCHANGED <<config, foreign>>,
           ~squeezed' => ~squeezed,
           LeftResults' + r <= LeftResults,
           LeftManifests' + m <= LeftManifests,
           LeftMetadata' + x <= LeftMetadata,
           LeftSpec' + y <= LeftSpec,
           StoredBytes' <= StoredBytes + 512 * r + ManifestEstimate * m + x,
           StoredFiles' <= StoredFiles + r + m + y
    PROVE  Spends
<1> USE Sizes
<1>1. PICK e \in Nat : e = ManifestEstimate
    OBVIOUS
<1>2. PICK sb \in Nat, sf \in Nat, lr \in Nat, lm \in Nat, ld \in Nat, ls \in Nat :
        /\ sb = StoredBytes /\ sf = StoredFiles
        /\ lr = LeftResults /\ lm = LeftManifests
        /\ ld = LeftMetadata /\ ls = LeftSpec
    BY Amounts DEF Amount, LeftMetadata, LeftSpec
<1>3. PICK tb \in Nat, tf \in Nat, mr \in Nat, mm \in Nat, md \in Nat, ms \in Nat :
        /\ tb = StoredBytes' /\ tf = StoredFiles'
        /\ mr = LeftResults' /\ mm = LeftManifests'
        /\ md = LeftMetadata' /\ ms = LeftSpec'
    BY DEF Amount, LeftMetadata, LeftSpec
<1>4. /\ LeftBytes = 512 * lr + e * lm + ld
      /\ LeftFiles = lr + lm + ls
    BY <1>1, <1>2 DEF LeftBytes, LeftFiles, LeftMetadata, LeftSpec
<1>5. /\ LeftBytes' = 512 * mr + e * mm + md
      /\ LeftFiles' = mr + mm + ms
    BY <1>1, <1>3 DEF LeftBytes, LeftFiles, LeftMetadata, LeftSpec, ManifestEstimate, ResultEstimate
<1>6. /\ mr + r <= lr /\ mm + m <= lm /\ md + x <= ld /\ ms + y <= ls
      /\ tb <= sb + 512 * r + e * m + x
      /\ tf <= sf + r + m + y
    BY <1>1, <1>2, <1>3
<1>7. PICK em \in Nat, emm \in Nat, elm \in Nat : em = e * m /\ emm = e * mm /\ elm = e * lm
    BY Product
<1>8. emm + em <= elm
    <2>1. e * (mm + m) = e * mm + e * m
        BY Product
    <2>2. e * (mm + m) <= e * lm
        BY <1>6, Product
    <2> QED BY <1>7, <2>1, <2>2
<1>9. tb + (512 * mr + emm + md) <= sb + (512 * lr + elm + ld)
    BY <1>6, <1>7, <1>8
<1>10. 512 * mr + emm + md <= 512 * lr + elm + ld
    BY <1>6, <1>7, <1>8
<1>11. tf + (mr + mm + ms) <= sf + (lr + lm + ls)
    BY <1>6
<1>12. /\ LeftBytes = 512 * lr + elm + ld
       /\ LeftBytes' = 512 * mr + emm + md
    BY <1>4, <1>5, <1>7
<1>13. StoredBytes' + LeftBytes' <= StoredBytes + LeftBytes
    BY <1>2, <1>3, <1>9, <1>12
<1>14. StoredFiles' + LeftFiles' <= StoredFiles + LeftFiles
    BY <1>2, <1>3, <1>4, <1>5, <1>11
<1>15. LeftBytes' <= LeftBytes
    BY <1>10, <1>12
<1> QED BY <1>13, <1>14, <1>15 DEF Spends

\* An estimate that fits gives a budget (preflight_run_completion), for a process
\* that is about to write run_spec.bin or its first manifest.
LEMMA Granted ==
    ASSUME Local, Amount', UNCHANGED <<config, foreign, disk>>,
           pc' \in OpenPcs,
           preflight_run_completion(storage_usage, N - snapshot, LeftMetadata', LeftSpec',
                                    Capacity - StoredBytes - foreign)
    PROVE  Budget'
<1> USE Sizes DEF disk
<1> DEFINE missing == N - snapshot
<1>1. missing \in Nat /\ config.interval \in Nat \ {0}
    BY DEF Local, Typed
<1>2. PICK e \in Nat, q \in Nat, c \in Nat :
        /\ e = ManifestEstimate /\ q = missing \div config.interval
        /\ c = CompletionManifests(missing) /\ q + 2 <= c
    <2>1. CompletionManifests(missing) = Manifests(missing, config.interval)
        BY DEF CompletionManifests, Manifests
    <2>2. missing \div config.interval \in Nat
        BY <1>1, Quotient
    <2>3. /\ Manifests(missing, config.interval) \in Nat
          /\ missing \div config.interval + 2 <= Manifests(missing, config.interval)
        BY <1>1, Estimate
    <2> QED BY <2>1, <2>2, <2>3
<1>3. PICK sb \in Nat, sf \in Nat, ld \in Nat, ls \in Nat :
        /\ sb = StoredBytes /\ sf = StoredFiles
        /\ ld = LeftMetadata' /\ ls = LeftSpec'
    BY Amounts DEF Amount, LeftMetadata, LeftSpec
<1>4. StoredBytes' = sb /\ StoredFiles' = sf
    BY <1>3 DEF StoredBytes, StoredFiles
<1>5. LeftResults' = missing /\ LeftManifests' = q + 2
    <2>1. LeftResults' = missing
        BY Names DEF LeftResults, OpenPcs, RunPcs
    <2>2. SinceManifest' = missing
        BY <1>1, <2>1, Names DEF SinceManifest, OpenPcs, RunPcs
    <2>3. (SinceManifest \div config.interval)' = q
        BY <1>2, <2>2
    <2> QED BY <1>2, <2>1, <2>3 DEF LeftManifests
<1> HIDE DEF missing
<1>6. LeftBytes' = 512 * missing + e * (q + 2) + ld
    BY <1>2, <1>3, <1>5 DEF LeftBytes, LeftMetadata, ManifestEstimate, ResultEstimate
<1>7. LeftFiles' = missing + (q + 2) + ls
    BY <1>3, <1>5 DEF LeftFiles, LeftSpec
<1>8. PICK f \in Nat, g \in Nat : f = e * (q + 2) /\ g = e * c /\ f <= g
    BY <1>2, Product
<1>9. /\ e <= config.manifest
      /\ sb + (512 * missing + g + ld) <= config.bytes
      /\ sf + (missing + c + ls) <= config.files
      /\ 512 * missing + g + ld + config.free <= U64Max
      /\ 512 * missing + g + ld + config.free <= Capacity - sb - foreign
    BY <1>2, <1>3, <1>8 DEF preflight_run_completion, CompletionBytes, CompletionFiles,
        storage_usage, missing
<1>10. /\ config.bytes \in Nat /\ config.files \in Nat /\ config.free \in Nat
       /\ foreign \in Nat /\ Capacity \in Nat /\ U64Max \in Nat
    BY SizesAssumption DEF Local, Typed
<1>11. PICK lb \in Nat : lb = 512 * missing + f + ld
    BY <1>1
<1>12. /\ sb + lb <= config.bytes
       /\ sf + (missing + (q + 2) + ls) <= config.files
       /\ lb + config.free <= U64Max
       /\ sb + lb + config.free + foreign <= Capacity
    BY <1>1, <1>2, <1>8, <1>9, <1>10, <1>11
<1>13. LeftBytes' = lb
    BY <1>6, <1>8, <1>11
<1> QED BY <1>2, <1>4, <1>7, <1>9, <1>12, <1>13 DEF Budget, ManifestEstimate

\* Steps that leave the directory alone leave what is left to write alone too.
LEMMA Alike ==
    ASSUME Local, Amount', Working, UNCHANGED <<config, foreign, disk, received, pending>>,
           ~squeezed' => ~squeezed,
           pc \in RunPcs <=> pc' \in RunPcs,
           pc \in OpenPcs <=> pc' \in OpenPcs,
           pc = "metadata" <=> pc' = "metadata"
    PROVE  Spends
<1> USE DEF disk
<1>1. LeftResults' = LeftResults
    BY DEF LeftResults
<1>2. SinceManifest' = SinceManifest
    BY <1>1 DEF SinceManifest
<1>3. LeftManifests' = LeftManifests
    BY <1>2 DEF LeftManifests
<1>4. LeftMetadata' = LeftMetadata /\ LeftSpec' = LeftSpec
    BY DEF LeftMetadata, LeftSpec
<1>5. StoredBytes' = StoredBytes /\ StoredFiles' = StoredFiles
    BY DEF StoredBytes, StoredFiles
<1>6. /\ LeftBytes' = LeftBytes /\ LeftFiles' = LeftFiles
    BY <1>1, <1>3, <1>4 DEF LeftBytes, LeftFiles, LeftMetadata, LeftSpec,
        ResultEstimate, ManifestEstimate
<1>7. PICK sb \in Nat, lb \in Nat, sf \in Nat, lf \in Nat :
        sb = StoredBytes /\ lb = LeftBytes /\ sf = StoredFiles /\ lf = LeftFiles
    BY Amounts DEF Amount
<1>8. sb + lb <= sb + lb /\ sf + lf <= sf + lf /\ lb <= lb
    OBVIOUS
<1> QED BY <1>5, <1>6, <1>7, <1>8 DEF Spends

LEMMA BudgetStep == Inv /\ Local' /\ [Next]_vars => Budget'
<1> SUFFICES ASSUME Inv, Local', [Next]_vars PROVE Budget'
    OBVIOUS
<1>0. Local /\ Budget /\ Amount /\ Amount'
    BY Amounts, PTL DEF Inv
<1>a. ~Working' => Budget'
    BY DEF Budget
<1>b. Spends => Budget'
    BY <1>0, Kept
<1>1. CASE Open
    <2>1. CASE Refuse("config") \/ Refuse("limit") \/ Refuse("completion")
        BY <1>a, <2>1, Names DEF Refuse, Working
    <2>2. CASE /\ meta
               /\ admitted' = ~meta /\ squeezed' = FALSE
               /\ Proceed(IF meta THEN "scan" ELSE "metadata")
        BY <1>a, <2>2, Names DEF Proceed, Working
    <2>3. CASE /\ ~meta
               /\ preflight_run_completion(storage_usage, N, MetadataBytes, 1, Available + temp)
               /\ Proceed(IF meta THEN "scan" ELSE "metadata")
        <3>1. pc' = "metadata" /\ UNCHANGED <<config, foreign, disk>>
            BY <2>3 DEF Proceed
        <3>2. LeftMetadata' = MetadataBytes /\ LeftSpec' = 1
            BY <3>1 DEF LeftMetadata, LeftSpec
        <3>3. N - snapshot = N
            BY <1>0, <2>3, Sizes DEF Local, MetaFirst
        <3>4. Available + temp = Capacity - StoredBytes - foreign
            BY <1>0, SizesAssumption DEF Available, Local, Typed, Amount
        <3> QED BY <1>0, <2>3, <3>1, <3>2, <3>3, <3>4, Granted DEF OpenPcs
    <2> QED BY <1>1, <2>1, <2>2, <2>3 DEF Open
<1>2. CASE Scan
    <2>0. pc = "scan" /\ temp = 0 /\ usage = storage_usage
        BY <1>0, <1>2 DEF Scan, Local, TempSized, Tracked
    <2>1. CASE Refuse("completion")
        BY <1>a, <2>1, Names DEF Refuse, Working
    <2>2. CASE /\ status \in {"Complete", "Failed"}
               /\ Proceed("cleanup")
        BY <1>a, <2>2, Names DEF Proceed, Working, disk
    <2>3. CASE /\ admitted /\ squeezed' = (admitted /\ squeezed)
               /\ Proceed("snapshot")
        <3>1. /\ UNCHANGED <<config, foreign, disk, received, pending>>
              /\ pc' = "snapshot" /\ Working
            BY <2>0, <2>3 DEF Proceed, Working
        <3>2. ~squeezed' => ~squeezed
            BY <2>3
        <3> QED BY <1>0, <1>b, <2>0, <3>1, <3>2, Alike DEF RunPcs, OpenPcs
    <2>4. CASE /\ preflight_run_completion(usage, Missing, 0, 0, Available)
               /\ Proceed("snapshot")
        <3>1. pc' = "snapshot" /\ UNCHANGED <<config, foreign, disk>>
            BY <2>4 DEF Proceed
        <3>2. LeftMetadata' = 0 /\ LeftSpec' = 0
            BY <3>1 DEF LeftMetadata, LeftSpec
        <3>3. Available = Capacity - StoredBytes - foreign
            BY <1>0, <2>0, SizesAssumption DEF Available, Local, Typed, Amount
        <3> QED BY <1>0, <2>0, <2>4, <3>1, <3>2, <3>3, Granted DEF OpenPcs, Missing
    <2> QED BY <1>2, <2>1, <2>2, <2>3, <2>4 DEF Scan
<1>3. CASE Cleanup
    <2>1. CASE status # "Running"
        BY <1>3, <1>a, <2>1, Names DEF Cleanup, Working
    <2>2. CASE status = "Running"
        <3>1. /\ UNCHANGED <<config, foreign, squeezed, meta, manifests, snapshot>>
              /\ pc = "cleanup" /\ pc' \in {"cleanup", "run"} /\ Working
              /\ pc' = "run" => received' = snapshot /\ pending' = 0
              /\ results' \in {results, results - 1} /\ results' \in Nat
            BY <1>0, <1>3, <2>2 DEF Cleanup, Working, Local, Typed
        <3>2. PICK lr \in Nat, lm \in Nat : lr = LeftResults /\ lm = LeftManifests
            BY <1>0 DEF Amount
        <3>3. LeftResults' = lr
            BY <3>1, <3>2 DEF LeftResults, RunPcs
        <3>4. LeftManifests' = lm
            <4>1. SinceManifest' = SinceManifest
                BY <3>1, <3>2, <3>3 DEF SinceManifest, RunPcs
            <4> QED BY <3>1, <3>2, <4>1 DEF LeftManifests, OpenPcs
        <3>5. LeftMetadata' = 0 /\ LeftMetadata = 0 /\ LeftSpec' = 0 /\ LeftSpec = 0
            BY <3>1 DEF LeftMetadata, LeftSpec
        <3>6. StoredBytes' <= StoredBytes + 512 * 0 + ManifestEstimate * 0 + 0
            BY <1>0, <3>1, Sizes DEF StoredBytes, Local, Typed
        <3>7. StoredFiles' <= StoredFiles + 0 + 0 + 0
            BY <1>0, <3>1 DEF StoredFiles, Local, Typed
        <3>8. LeftResults' + 0 <= LeftResults /\ LeftManifests' + 0 <= LeftManifests
            BY <3>2, <3>3, <3>4
        <3>9. LeftMetadata' + 0 <= LeftMetadata /\ LeftSpec' + 0 <= LeftSpec
            BY <3>5
        <3> QED BY <1>0, <1>b, <3>1, <3>6, <3>7, <3>8, <3>9, Spending
    <2> QED BY <2>1, <2>2
<1>4. CASE Run
    <2>1. /\ UNCHANGED <<config, foreign, disk, received, pending, squeezed>>
          /\ pc \in RunPcs /\ pc' \in RunPcs /\ Working
        BY <1>4 DEF Run, RunPcs, Working, process
    <2> QED BY <1>0, <1>b, <2>1, Alike DEF RunPcs, OpenPcs
<1>5. CASE WriteTemp
    <2>1. CASE Refuse("write")
        BY <1>a, <2>1, Names DEF Refuse, Working
    <2>2. CASE UNCHANGED <<config, disk, foreign, pc, process, squeezed>>
        <3>1. Working
            BY <1>5 DEF WriteTemp, Working
        <3> QED BY <1>0, <1>b, <2>2, <3>1, Alike DEF process
    <2> QED BY <1>5, <2>1, <2>2 DEF WriteTemp
<1>6. CASE Install
    <2>0. /\ UNCHANGED <<config, foreign, admitted, squeezed>>
          /\ temp \in Nat \ {0}
          /\ pc \in Writes /\ temp = Size(pc) /\ Working
        BY <1>0, <1>6 DEF Install, InstallMetadata, InstallSnapshot, InstallResult,
            InstallCheckpoint, Writes, Working, Local, Typed, TempSized
    <2>a. /\ snapshot \in 0 .. N /\ received \in 0 .. N /\ pending \in Nat
          /\ config.interval \in Nat \ {0} /\ N \in Nat /\ MetadataBytes \in Nat
        BY <1>0, Sizes DEF Local, Typed
    <2>1. CASE InstallMetadata
        <3>1. /\ pc = "metadata" /\ pc' = "scan" /\ ~meta /\ meta'
              /\ UNCHANGED <<manifests, results, snapshot, received, pending>>
            BY <1>0, <2>1 DEF InstallMetadata, Local, MetaFirst
        <3>2. LeftResults' + 0 <= LeftResults
            BY <2>a, <3>1 DEF LeftResults, RunPcs
        <3>3. LeftManifests' + 0 <= LeftManifests
            <4>1. LeftManifests' = LeftManifests
                BY <2>0, <3>1 DEF LeftManifests, SinceManifest, LeftResults, RunPcs, OpenPcs
            <4> QED BY <1>0, <4>1 DEF Amount
        <3>4. LeftMetadata' + MetadataBytes <= LeftMetadata /\ LeftSpec' + 1 <= LeftSpec
            BY <2>a, <3>1 DEF LeftMetadata, LeftSpec
        <3>5. StoredBytes' <= StoredBytes + 512 * 0 + ManifestEstimate * 0 + MetadataBytes
            BY <1>0, <2>a, <3>1, Sizes DEF StoredBytes, Local, Typed
        <3>6. StoredFiles' <= StoredFiles + 0 + 0 + 1
            BY <1>0, <3>1 DEF StoredFiles, Local, Typed
        <3> QED BY <1>0, <1>b, <2>0, <2>a, <3>2, <3>3, <3>4, <3>5, <3>6, Spending
    <2>2. CASE InstallSnapshot
        <3>1. /\ pc = "snapshot" /\ pc' = "cleanup"
              /\ manifests' = [count |-> manifests.count + 1, bytes |-> manifests.bytes + temp]
              /\ UNCHANGED <<meta, results, snapshot, received, pending>>
            BY <2>2 DEF InstallSnapshot, InstallManifest
        <3>2. temp <= ManifestEstimate
            BY <2>0, <2>a, <3>1, Written
        <3>3. LeftResults' + 0 <= LeftResults
            BY <2>a, <3>1 DEF LeftResults, RunPcs
        <3>4. LeftManifests' + 1 <= LeftManifests
            <4>1. PICK q : /\ q = SinceManifest \div config.interval
                           /\ q = (SinceManifest \div config.interval)'
                BY <2>0, <3>1 DEF SinceManifest, LeftResults, RunPcs, OpenPcs
            <4>2. q \in Nat
                BY <1>0, <2>a, <4>1, Quotient DEF Amount
            <4>3. LeftManifests = q + 1 + 1 /\ LeftManifests' = q + 1 + 0
                BY <3>1, <4>1 DEF LeftManifests, OpenPcs
            <4> QED BY <4>2, <4>3
        <3>5. LeftMetadata' + 0 <= LeftMetadata /\ LeftSpec' + 0 <= LeftSpec
            BY <3>1 DEF LeftMetadata, LeftSpec
        <3>6. StoredBytes' <= StoredBytes + 512 * 0 + ManifestEstimate * 1 + 0
            BY <1>0, <2>0, <3>1, <3>2, Sizes DEF StoredBytes, Local, Typed
        <3>7. StoredFiles' <= StoredFiles + 0 + 1 + 0
            BY <1>0, <3>1 DEF StoredFiles, Local, Typed
        <3> QED BY <1>0, <1>b, <2>0, <3>3, <3>4, <3>5, <3>6, <3>7, Spending
    <2>3. CASE InstallResult
        <3>1. /\ pc = "result" /\ pc' \in {"checkpoint", "run"} /\ received < N
              /\ results' = results + 1 /\ received' = received + 1 /\ pending' = pending + 1
              /\ UNCHANGED <<meta, manifests, snapshot>>
            BY <1>0, <2>3 DEF InstallResult, Local, Between, RunPcs
        <3>2. LeftResults = N - received /\ LeftResults' = N - (received + 1)
            BY <3>1 DEF LeftResults, RunPcs
        <3>3. LeftManifests' + 0 <= LeftManifests
            <4>1. SinceManifest' = SinceManifest
                <5>1. SinceManifest = N - received + pending
                    BY <3>1, <3>2 DEF SinceManifest, RunPcs
                <5>2. SinceManifest' = N - (received + 1) + (pending + 1)
                    BY <3>1, <3>2 DEF SinceManifest, RunPcs
                <5> QED BY <2>a, <5>1, <5>2
            <4>2. LeftManifests' = LeftManifests
                BY <2>0, <3>1, <4>1 DEF LeftManifests, OpenPcs
            <4> QED BY <1>0, <4>2 DEF Amount
        <3>4. LeftMetadata' + 0 <= LeftMetadata /\ LeftSpec' + 0 <= LeftSpec
            BY <3>1 DEF LeftMetadata, LeftSpec
        <3>5. StoredBytes' <= StoredBytes + 512 * 1 + ManifestEstimate * 0 + 0
            BY <1>0, <2>0, <3>1, Sizes DEF StoredBytes, Local, Typed
        <3>6. StoredFiles' <= StoredFiles + 1 + 0 + 0
            BY <1>0, <3>1 DEF StoredFiles, Local, Typed
        <3>7. LeftResults' + 1 <= LeftResults
            BY <2>a, <3>1, <3>2
        <3> QED BY <1>0, <1>b, <2>0, <3>3, <3>4, <3>5, <3>6, <3>7, Spending
    <2>4. CASE InstallCheckpoint
        <3>0. CASE pc # "checkpoint"
            BY <1>a, <2>4, <3>0, Names DEF InstallCheckpoint, Working
        <3>1. CASE pc = "checkpoint"
            <4>1. /\ pc' = "run" /\ pending = config.interval /\ pending' = 0
                  /\ manifests' = [count |-> manifests.count + 1,
                                   bytes |-> manifests.bytes + temp]
                  /\ UNCHANGED <<meta, results, received>>
                BY <1>0, <2>4, <3>1
                DEF InstallCheckpoint, InstallManifest, Local, Between, RunPcs
            <4>2. temp <= ManifestEstimate
                BY <2>0, <2>a, <3>1, Written
            <4>3. LeftResults = N - received /\ LeftResults' = N - received
                BY <3>1, <4>1 DEF LeftResults, RunPcs
            <4>4. LeftManifests' + 1 <= LeftManifests
                <5>1. PICK a \in Nat : a = N - received
                    BY <2>a
                <5>2. SinceManifest = a + config.interval /\ SinceManifest' = a + 0
                    BY <2>a, <3>1, <4>1, <4>3, <5>1 DEF SinceManifest, RunPcs
                <5>3. a \div config.interval + 1 <= (a + config.interval) \div config.interval
                    BY <2>a, QuotientStep
                <5>4. PICK q \in Nat, r \in Nat :
                        /\ q = a \div config.interval
                        /\ r = (a + config.interval) \div config.interval
                    BY <2>a, Quotient
                <5>5. LeftManifests = r + 1 + 0
                    BY <3>1, <5>2, <5>4 DEF LeftManifests, OpenPcs
                <5>6. LeftManifests' = q + 1 + 0
                    BY <2>0, <4>1, <5>2, <5>4 DEF LeftManifests, OpenPcs
                <5> QED BY <5>3, <5>4, <5>5, <5>6
            <4>5. LeftMetadata' + 0 <= LeftMetadata /\ LeftSpec' + 0 <= LeftSpec
                BY <3>1, <4>1 DEF LeftMetadata, LeftSpec
            <4>6. StoredBytes' <= StoredBytes + 512 * 0 + ManifestEstimate * 1 + 0
                BY <1>0, <2>0, <4>1, <4>2, Sizes DEF StoredBytes, Local, Typed
            <4>7. StoredFiles' <= StoredFiles + 0 + 1 + 0
                BY <1>0, <4>1 DEF StoredFiles, Local, Typed
            <4>8. LeftResults' + 0 <= LeftResults
                BY <2>a, <4>3
            <4> QED BY <1>0, <1>b, <2>0, <4>4, <4>5, <4>6, <4>7, <4>8, Spending
        <3> QED BY <3>0, <3>1
    <2> QED BY <1>6, <2>1, <2>2, <2>3, <2>4 DEF Install
<1>7. CASE Stop
    BY <1>a, <1>7, Names DEF Stop, Working
<1>8. CASE Squeeze
    <2>1. squeezed' /\ UNCHANGED <<config, disk, pc, process>>
        BY <1>8 DEF Squeeze
    <2>2. Working' <=> Working
        BY <2>1 DEF Working, disk, process
    <2>3. StoredBytes' = StoredBytes /\ StoredFiles' = StoredFiles
        BY <2>1 DEF StoredBytes, StoredFiles, disk
    <2>4. LeftResults' = LeftResults /\ LeftManifests' = LeftManifests
        BY <2>1 DEF LeftResults, SinceManifest, LeftManifests, disk, process
    <2>5. LeftBytes' = LeftBytes /\ LeftFiles' = LeftFiles
        BY <2>1, <2>4 DEF LeftBytes, LeftFiles, ManifestEstimate, ResultEstimate
    <2> QED BY <1>0, <2>1, <2>2, <2>3, <2>5 DEF Budget, ManifestEstimate
<1>9. CASE Reconfigure
    BY <1>a, <1>9, Names DEF Reconfigure, Working
<1>10. CASE UNCHANGED vars
    <2>1. CASE Working
        BY <1>0, <1>b, <1>10, <2>1, Alike DEF vars, process
    <2>2. CASE ~Working
        BY <1>a, <1>10, <2>2 DEF vars, Working, disk, process
    <2> QED BY <2>1, <2>2
<1> QED
    BY <1>1, <1>2, <1>3, <1>4, <1>5, <1>6, <1>7, <1>8, <1>9, <1>10 DEF Next

-----------------------------------------------------------------------------
(* The checks of an admitted process, and the limits *)

\* What is about to be written is part of what is left to write.
LEMMA Covered ==
    ASSUME Local, pc \in Writes
    PROVE  Size(pc) \in Nat /\ Size(pc) <= LeftBytes /\ 1 <= LeftFiles
<1> USE Sizes
<1>0. snapshot \in 0 .. N /\ received \in 0 .. N /\ config.interval \in Nat \ {0}
    BY DEF Local, Typed
<1>1. PICK lr \in Nat, sm \in Nat, lm \in Nat :
        lr = LeftResults /\ sm = SinceManifest /\ lm = LeftManifests
    BY Amounts DEF Amount
<1>2. PICK e \in Nat, f \in Nat : e = ManifestEstimate /\ f = e * lm
    BY <1>1, Product
<1>3. 1 <= lm
    <2>1. sm \div config.interval \in Nat
        BY <1>0, Quotient
    <2> QED BY <1>1, <2>1 DEF LeftManifests
<1>4. e <= f
    <2>1. e * 1 <= e * lm
        BY <1>3, Product
    <2> QED BY <1>2, <2>1
<1>5. LeftBytes = 512 * lr + f + LeftMetadata /\ LeftFiles = lr + lm + LeftSpec
    BY <1>1, <1>2 DEF LeftBytes, LeftFiles, LeftMetadata, LeftSpec
<1>6. PICK ld \in Nat, ls \in Nat : ld = LeftMetadata /\ ls = LeftSpec
    BY DEF LeftMetadata, LeftSpec
<1>7. PICK z \in Nat : z = Size(pc)
    BY <1>0, Written
<1>8. CASE pc = "metadata"
    <2>1. z = ld
        BY <1>0, <1>6, <1>7, <1>8, Written DEF LeftMetadata
    <2> QED BY <1>3, <1>5, <1>6, <1>7, <2>1
<1>9. CASE pc = "result"
    <2>1. z = 296
        BY <1>0, <1>7, <1>9, Written
    <2>2. 1 <= lr
        BY <1>0, <1>1, <1>9 DEF LeftResults, RunPcs, Local, Between
    <2> QED BY <1>3, <1>5, <1>6, <1>7, <2>1, <2>2
<1>10. CASE pc \notin {"metadata", "result"}
    <2>1. z <= e
        BY <1>0, <1>2, <1>7, <1>10, Written
    <2> QED BY <1>3, <1>4, <1>5, <1>6, <1>7, <2>1
<1> QED BY <1>8, <1>9, <1>10

\* An admitted process that nothing has squeezed passes the check of each write.
LEMMA Passes ==
    ASSUME Local, Budget, pc \in Writes, temp = 0, ~squeezed
    PROVE  Fits(pc)
<1>1. PICK z \in Nat, sb \in Nat, sf \in Nat, lb \in Nat, lf \in Nat :
        /\ z = Size(pc) /\ z <= lb /\ 1 <= lf
        /\ sb = StoredBytes /\ sf = StoredFiles /\ lb = LeftBytes /\ lf = LeftFiles
    BY Covered, Amounts DEF Amount
<1>2. /\ config.bytes \in Nat /\ config.files \in Nat /\ config.free \in Nat
      /\ config.manifest \in Nat /\ foreign \in Nat /\ Capacity \in Nat /\ U64Max \in Nat
    BY SizesAssumption DEF Local, Typed
<1>3. /\ ManifestEstimate <= config.manifest
      /\ sb + lb <= config.bytes /\ sf + lf <= config.files
      /\ lb + config.free <= U64Max
      /\ sb + lb + config.free + foreign <= Capacity
    BY <1>1 DEF Budget, Working
<1>4. usage = [bytes |-> sb, files |-> sf]
    BY <1>1 DEF Local, Tracked, storage_usage
<1>5. Available = Capacity - sb - 0 - foreign
    BY <1>1 DEF Available
<1>6. preflight_write(z)
    <2>1. sb + z <= config.bytes /\ sf < config.files /\ z + config.free <= U64Max
        BY <1>1, <1>2, <1>3
    <2>2. z + config.free <= Capacity - sb - 0 - foreign
        BY <1>1, <1>2, <1>3
    <2> QED BY <1>4, <1>5, <2>1, <2>2 DEF preflight_write
<1>7. pc \in {"checkpoint", "complete", "failed"} => z <= config.manifest
    <2>1. pc \in {"checkpoint", "complete", "failed"} => z <= ManifestEstimate
        BY <1>1, Written DEF Local, Typed
    <2> QED BY <1>1, <1>2, <1>3, <2>1, Sizes
<1> QED BY <1>1, <1>6, <1>7 DEF Fits

LEMMA MidwayStep == Inv /\ [Next]_vars => NeverRefusedMidway'
<1> SUFFICES ASSUME Inv, [Next]_vars PROVE NeverRefusedMidway'
    OBVIOUS
<1>0. Local /\ Budget /\ NeverRefusedMidway
    BY DEF Inv
<1> USE <1>0 DEF NeverRefusedMidway
<1>1. CASE Open
    BY <1>1 DEF Open, Refuse, Proceed
<1>2. CASE Scan
    BY <1>2 DEF Scan, Refuse, Proceed
<1>3. CASE Cleanup \/ Run \/ Install
    BY <1>3 DEF Cleanup, Run, Install
<1>4. CASE WriteTemp
    <2>1. CASE ~Fits(pc) /\ Refuse("write")
        <3>1. squeezed
            BY <1>4, <2>1, Passes DEF WriteTemp
        <3> QED BY <2>1, <3>1 DEF Refuse
    <2>2. CASE UNCHANGED <<refusal, squeezed>>
        BY <2>2
    <2> QED BY <1>4, <2>1, <2>2 DEF WriteTemp
<1>5. CASE Stop \/ Squeeze \/ Reconfigure
    BY <1>5 DEF Stop, Squeeze, Reconfigure
<1>6. CASE UNCHANGED vars
    BY <1>6 DEF vars
<1> QED BY <1>1, <1>2, <1>3, <1>4, <1>5, <1>6 DEF Next

\* An installed file is the temporary file under its name (atomic_write).
LEMMA Installed ==
    ASSUME Local, Install
    PROVE  StoredBytes' = StoredBytes + temp /\ StoredFiles' = StoredFiles + 1
<1> USE Sizes DEF Local, Typed
<1>1. CASE InstallMetadata
    <2>1. /\ ~meta /\ meta' /\ temp = MetadataBytes
          /\ UNCHANGED <<manifests, results>>
        BY <1>1, Written DEF Install, InstallMetadata, MetaFirst, TempSized, Writes
    <2> QED BY <2>1 DEF StoredBytes, StoredFiles
<1>2. CASE InstallSnapshot \/ InstallCheckpoint
    <2>1. /\ manifests' = [count |-> manifests.count + 1, bytes |-> manifests.bytes + temp]
          /\ UNCHANGED <<meta, results>>
        BY <1>2 DEF InstallSnapshot, InstallCheckpoint, InstallManifest
    <2> QED BY <2>1 DEF StoredBytes, StoredFiles
<1>3. CASE InstallResult
    <2>1. /\ results' = results + 1 /\ temp = 296
          /\ UNCHANGED <<meta, manifests>>
        BY <1>3, Written DEF Install, InstallResult, TempSized, Writes
    <2> QED BY <2>1 DEF StoredBytes, StoredFiles
<1> QED BY <1>1, <1>2, <1>3 DEF Install

LEMMA LimitsStep == Inv /\ [Next]_vars => WithinLimits'
<1> SUFFICES ASSUME Inv, [Next]_vars PROVE WithinLimits'
    OBVIOUS
<1>0. Local /\ WithinLimits /\ Amount
    BY Amounts DEF Inv
<1>a. pc' = "closed" => WithinLimits'
    BY DEF WithinLimits
<1>b. /\ UNCHANGED <<config, disk, temp>> /\ (pc' # "closed" => pc # "closed")
        => WithinLimits'
    BY <1>0 DEF WithinLimits, StoredBytes, StoredFiles, disk
<1>1. CASE Open
    <2>1. CASE Refuse("config") \/ Refuse("limit") \/ Refuse("completion")
        BY <1>a, <2>1 DEF Refuse
    <2>2. CASE /\ UsageWithin(storage_usage) /\ temp' = 0
               /\ Proceed(IF meta THEN "scan" ELSE "metadata")
        <3>1. UNCHANGED <<config, disk>>
            BY <2>2 DEF Proceed
        <3>2. StoredBytes' = StoredBytes /\ StoredFiles' = StoredFiles
            BY <3>1 DEF StoredBytes, StoredFiles, disk
        <3>3. StoredBytes + 0 <= config.bytes /\ StoredFiles + 0 <= config.files
            BY <1>0, <2>2 DEF UsageWithin, storage_usage, Amount
        <3> QED BY <2>2, <3>1, <3>2, <3>3 DEF WithinLimits
    <2> QED BY <1>1, <2>1, <2>2 DEF Open
<1>2. CASE Scan
    BY <1>a, <1>b, <1>2 DEF Scan, Refuse, Proceed
<1>3. CASE Cleanup
    <2>1. PICK sb \in Nat, sf \in Nat : sb = StoredBytes /\ sf = StoredFiles
        BY <1>0 DEF Amount
    <2>2. /\ UNCHANGED <<config, temp, meta, manifests>>
          /\ results' \in {results, results - 1} /\ results' \in Nat /\ temp = 0
          /\ pc = "cleanup"
        BY <1>0, <1>3 DEF Cleanup, Local, Typed, TempSized
    <2>3. PICK tb \in Nat, tf \in Nat :
            /\ tb = StoredBytes' /\ tf = StoredFiles' /\ tb <= sb /\ tf <= sf
        BY <1>0, <2>1, <2>2, Sizes DEF StoredBytes, StoredFiles, Local, Typed
    <2>4. sb + 0 <= config.bytes /\ sf + 0 <= config.files
        BY <1>0, <2>1, <2>2 DEF WithinLimits
    <2>5. tb + 0 <= config.bytes /\ tf + 0 <= config.files
        BY <1>0, <2>3, <2>4 DEF Local, Typed
    <2> QED BY <2>2, <2>3, <2>5 DEF WithinLimits
<1>4. CASE Run
    BY <1>b, <1>4 DEF Run
<1>5. CASE WriteTemp
    <2>1. CASE Refuse("write")
        BY <1>a, <2>1 DEF Refuse
    <2>2. CASE /\ Fits(pc) /\ temp' = Size(pc)
               /\ UNCHANGED <<config, disk, pc>>
        <3>1. usage.bytes = StoredBytes /\ usage.files = StoredFiles
            BY <1>0, <1>5 DEF WriteTemp, Local, Tracked, storage_usage
        <3>2. StoredBytes + Size(pc) <= config.bytes /\ StoredFiles < config.files
            BY <2>2, <3>1 DEF Fits, preflight_write
        <3>3. StoredFiles + 1 <= config.files /\ StoredFiles + 0 <= config.files
            BY <1>0, <3>2 DEF Amount, Local, Typed
        <3>4. StoredBytes' = StoredBytes /\ StoredFiles' = StoredFiles
            BY <2>2 DEF StoredBytes, StoredFiles, disk
        <3> QED BY <2>2, <3>2, <3>3, <3>4 DEF WithinLimits
    <2> QED BY <1>5, <2>1, <2>2 DEF WriteTemp
<1>6. CASE Install
    <2>1. temp \in Nat /\ temp # 0 /\ temp' = 0 /\ config' = config /\ pc # "closed"
        BY <1>0, <1>6 DEF Install, Local, Typed, InstallMetadata, InstallSnapshot,
            InstallResult, InstallCheckpoint
    <2>2. StoredBytes' = StoredBytes + temp /\ StoredFiles' = StoredFiles + 1
        BY <1>0, <1>6, Installed
    <2>3. StoredBytes + temp <= config.bytes /\ StoredFiles + 1 <= config.files
        BY <1>0, <2>1 DEF WithinLimits
    <2>4. StoredBytes' + 0 <= config.bytes /\ StoredFiles' + 0 <= config.files
        BY <1>0, <2>1, <2>2, <2>3 DEF Amount
    <2> QED BY <2>1, <2>4 DEF WithinLimits
<1>7. CASE Stop
    BY <1>a, <1>7 DEF Stop
<1>8. CASE Squeeze
    BY <1>b, <1>8 DEF Squeeze
<1>9. CASE Reconfigure
    BY <1>a, <1>9 DEF Reconfigure
<1>10. CASE UNCHANGED vars
    BY <1>b, <1>10 DEF vars
<1> QED
    BY <1>1, <1>2, <1>3, <1>4, <1>5, <1>6, <1>7, <1>8, <1>9, <1>10 DEF Next

-----------------------------------------------------------------------------
(* What restarts cost *)

\* run_spec.bin, once it has been written.
SpecBytes == IF meta THEN MetadataBytes ELSE 0
SpecFiles == IF meta THEN 1 ELSE 0

\* With ample room, x more manifests, y more results and the z bytes of w other
\* files fit, if they are within what the first estimate and the headroom allow.
LEMMA Room ==
    ASSUME Local, Ample,
           NEW x \in Nat, NEW y \in Nat, NEW z \in Nat, NEW w \in Nat,
           manifests.count + x <= CompletionManifests(N) + stops,
           results + y <= N + config.interval,
           SpecBytes + z <= MetadataBytes, SpecFiles + w <= 1
    PROVE  /\ StoredBytes + (512 * y + ManifestEstimate * x + z) <= config.bytes
           /\ StoredFiles + (y + x + w) <= config.files
           /\ 512 * y + ManifestEstimate * x + z + config.free
                <= Capacity - StoredBytes - foreign
<1> USE Sizes
<1>1. PICK c \in Nat, i \in Nat, s \in Nat, mc \in Nat, mb \in Nat, r \in Nat,
           e \in Nat, f \in Nat :
        /\ c = CompletionManifests(N) /\ i = config.interval /\ s = stops
        /\ mc = manifests.count /\ mb = manifests.bytes /\ r = results
        /\ e = ManifestEstimate /\ f = config.free
    <2>1. CompletionManifests(N) = Manifests(N, config.interval)
        BY DEF CompletionManifests, Manifests
    <2>2. config.interval \in Nat \ {0}
        BY DEF Local, Typed
    <2>3. CompletionManifests(N) \in Nat
        BY <2>1, <2>2, Estimate
    <2> QED BY <2>3 DEF Local, Typed
<1>2. PICK md \in Nat, mf \in Nat :
        md = SpecBytes /\ mf = SpecFiles
    BY DEF SpecBytes, SpecFiles
<1>3. mc + x <= c + s /\ r + y <= N + i /\ md + z <= MetadataBytes /\ mf + w <= 1
    BY <1>1, <1>2
<1>4. PICK ex \in Nat, em \in Nat, ec \in Nat, es \in Nat :
        /\ ex = e * x /\ em = e * mc /\ ec = e * c /\ es = e * s /\ es = s * e
    BY Product
<1>5. em + ex <= ec + es
    <2>1. e * (mc + x) = e * mc + e * x /\ e * (c + s) = e * c + e * s
        BY Product
    <2>2. e * (mc + x) <= e * (c + s)
        <3>1. mc + x \in Nat /\ c + s \in Nat
            OBVIOUS
        <3> QED BY <1>3, <3>1, Product
    <2> QED BY <1>4, <2>1, <2>2
<1>6. mb <= em
    BY <1>1, <1>4 DEF Local, ManifestsSmall
<1>7. PICK sb \in Nat, sf \in Nat :
        /\ sb = md + mb + 296 * r /\ sb = StoredBytes
        /\ sf = 1 + mf + mc + r /\ sf = StoredFiles
    BY <1>1, <1>2 DEF StoredBytes, StoredFiles, SpecBytes, SpecFiles
<1>8. FirstBytes = 512 * N + ec + MetadataBytes /\ FirstFiles = 2 + N + c
    BY <1>1, <1>4 DEF FirstBytes, FirstFiles, CompletionBytes
<1>9. /\ config.files >= (2 + N + c) + s + i
      /\ config.bytes >= (512 * N + ec + MetadataBytes) + es + i * 512
      /\ Capacity - foreign >= (512 * N + ec + MetadataBytes) + es + i * 512 + f
    BY <1>1, <1>4, <1>8 DEF Ample, Headroom
<1>10. /\ config.bytes \in Nat /\ config.files \in Nat /\ Capacity \in Nat
       /\ foreign \in Nat
    BY SizesAssumption DEF Local, Typed
<1>11. sb + (512 * y + ex + z) <= (512 * N + ec + MetadataBytes) + es + i * 512
    BY <1>3, <1>5, <1>6, <1>7
<1>12. sf + (y + x + w) <= (2 + N + c) + s + i
    BY <1>3, <1>7
<1>13. sb + (512 * y + ex + z) <= config.bytes
    BY <1>9, <1>10, <1>11
<1>14. sf + (y + x + w) <= config.files
    BY <1>9, <1>10, <1>12
<1>15. 512 * y + ex + z + f <= Capacity - sb - foreign
    BY <1>9, <1>10, <1>11
<1> QED BY <1>1, <1>4, <1>7, <1>13, <1>14, <1>15

\* The estimates are natural numbers that grow with the missing blocks.
LEMMA Estimates ==
    ASSUME Local, NEW m \in 0 .. N
    PROVE  /\ CompletionManifests(m) \in Nat /\ CompletionManifests(m) >= 2
           /\ CompletionManifests(N) \in Nat
           /\ CompletionManifests(m) <= CompletionManifests(N)
<1>1. config.interval \in Nat \ {0} /\ N \in Nat /\ m \in Nat /\ m <= N
    BY Sizes DEF Local, Typed
<1>2. \A k \in Nat : CompletionManifests(k) = Manifests(k, config.interval)
    BY DEF CompletionManifests, Manifests
<1> QED BY <1>1, <1>2, Estimate

\* Ample room now was ample room before: room is only ever taken.
LEMMA AmpleBefore ==
    ASSUME Local, Local', Ample', config' = config, stops' \in {stops, stops + 1},
           foreign' >= foreign, changed => changed'
    PROVE  Ample
<1> USE Sizes
<1>1. CompletionManifests(N)' = CompletionManifests(N)
    BY DEF CompletionManifests
<1>2. FirstBytes' = FirstBytes /\ FirstFiles' = FirstFiles
    BY <1>1 DEF FirstBytes, FirstFiles, CompletionBytes, ResultEstimate, ManifestEstimate
<1>3. PICK e \in Nat, c \in Nat, fb \in Nat, ff \in Nat :
        /\ e = ManifestEstimate /\ c = CompletionManifests(N)
        /\ fb = FirstBytes /\ ff = FirstFiles
    <2>1. N \in 0 .. N
        OBVIOUS
    <2>2. CompletionManifests(N) \in Nat
        BY <2>1, Estimates
    <2>3. ManifestEstimate * CompletionManifests(N) \in Nat
        BY <2>2, Product
    <2>4. PICK ec \in Nat : ec = ManifestEstimate * CompletionManifests(N)
        BY <2>3
    <2>5. FirstBytes = 512 * N + ec + MetadataBytes
        BY <2>4 DEF FirstBytes, CompletionBytes
    <2>6. FirstBytes \in Nat /\ FirstFiles \in Nat
        BY <2>2, <2>5 DEF FirstFiles
    <2> QED BY <2>2, <2>6
<1>4. PICK s \in Nat, t \in Nat, i \in Nat, f \in Nat, g \in Nat, h \in Nat :
        /\ s = stops /\ t = stops' /\ i = config.interval /\ f = foreign
        /\ g = foreign' /\ h = config.free
    BY DEF Local, Typed
<1>5. PICK es \in Nat, et \in Nat : es = s * e /\ et = t * e
    BY Product
<1>6. s <= t /\ f <= g
    BY <1>4
<1>7. es <= et
    <2>1. e * s <= e * t
        BY <1>6, Product
    <2>2. s * e = e * s /\ t * e = e * t
        BY Product
    <2> QED BY <1>5, <2>1, <2>2
<1>8. /\ config.files >= ff + t + i
      /\ config.bytes >= fb + et + i * 512
      /\ Capacity - g >= fb + et + i * 512 + h
    BY <1>2, <1>3, <1>4, <1>5 DEF Ample, Headroom, ManifestEstimate, ResultEstimate
<1>9. config.bytes \in Nat /\ config.files \in Nat /\ Capacity \in Nat
    BY SizesAssumption DEF Local, Typed
<1>10. /\ config.files >= ff + s + i
       /\ config.bytes >= fb + es + i * 512
       /\ Capacity - f >= fb + es + i * 512 + h
    BY <1>6, <1>7, <1>8, <1>9
<1>11. Headroom
    BY <1>3, <1>4, <1>5, <1>10 DEF Headroom
<1>12. /\ ~changed /\ Valid(config) /\ config.manifest >= ManifestEstimate
       /\ FirstBytes + config.free <= U64Max
    BY <1>2 DEF Ample, Valid, ManifestEstimate
<1> QED BY <1>11, <1>12 DEF Ample

\* What Paid says of the manifests and results in the directory.
LEMMA Counted ==
    ASSUME Local, Ample, Paid
    PROVE  /\ refusal = "none"
           /\ results <= N + config.interval
           /\ results + (N - snapshot) <= N + config.interval
           /\ ~Started => manifests.count <= CompletionManifests(N) + stops
           /\ Started \/ (pc = "snapshot")
                => manifests.count + 1 <= CompletionManifests(N) + stops
           /\ ~Started /\ status \notin {"Complete", "Failed"}
                => manifests.count + CompletionManifests(N - snapshot)
                    <= CompletionManifests(N) + stops
<1>1. PICK k \in 0 .. N : k = N - snapshot
    BY Sizes DEF Local, Typed
<1>2. PICK c \in Nat, d \in Nat, mc \in Nat, s \in Nat, r \in Nat, i \in Nat, t \in 0 .. N :
        /\ c = CompletionManifests(N) /\ d = CompletionManifests(N - snapshot)
        /\ d >= 2 /\ mc = manifests.count /\ s = stops /\ r = results
        /\ i = config.interval /\ t = snapshot
    <2>1. /\ CompletionManifests(k) \in Nat /\ CompletionManifests(k) >= 2
          /\ CompletionManifests(N) \in Nat
        BY Estimates
    <2> QED BY <1>1, <2>1 DEF Local, Typed
<1>3. /\ refusal = "none"
      /\ r <= t + i
      /\ status \in {"Complete", "Failed"} => mc <= c + s
      /\ status \notin {"Complete", "Failed"} /\ ~Started => mc + d <= c + s + 0
      /\ status \notin {"Complete", "Failed"} /\ Started => mc + d <= c + s + 1
    BY <1>2 DEF Paid
<1>4. Started => status \notin {"Complete", "Failed"}
    BY DEF Started, Local, Between
<1>5. pc = "snapshot" => ~Started /\ status \notin {"Complete", "Failed"}
    BY DEF Started, Local, Between, RunPcs
<1>6. r <= N + i /\ r + (N - t) <= N + i
    BY <1>2, <1>3, Sizes
<1>7. ~Started => mc <= c + s
    BY <1>2, <1>3
<1>8. Started \/ (pc = "snapshot") => mc + 1 <= c + s
    BY <1>2, <1>3, <1>4, <1>5
<1>9. ~Started /\ status \notin {"Complete", "Failed"} => mc + d <= c + s
    BY <1>2, <1>3
<1> QED BY <1>2, <1>3, <1>6, <1>7, <1>8, <1>9

\* With ample room open() finds the directory within the limits, and its first
\* estimate fits.
LEMMA OpenAdmits ==
    ASSUME Local, Ample, Paid, pc = "closed"
    PROVE  /\ UsageWithin(storage_usage)
           /\ ~meta => preflight_run_completion(storage_usage, N, MetadataBytes, 1,
                                                Available + temp)
<1> USE Sizes
<1>0. ~Started
    BY Names DEF Started
<1>1. PICK sb \in Nat, sf \in Nat, e \in Nat, c \in Nat :
        /\ sb = StoredBytes /\ sf = StoredFiles /\ e = ManifestEstimate
        /\ c = CompletionManifests(N)
    <2>1. N \in 0 .. N
        OBVIOUS
    <2> QED BY <2>1, Amounts, Estimates DEF Amount
<1>2. UsageWithin(storage_usage)
    <2>1. manifests.count + 0 <= c + stops /\ results + 0 <= N + config.interval
        BY <1>0, <1>1, Counted DEF Local, Typed
    <2>2. /\ StoredBytes + (512 * 0 + ManifestEstimate * 0 + 0) <= config.bytes
          /\ StoredFiles + (0 + 0 + 0) <= config.files
        <3>1. SpecBytes + 0 <= MetadataBytes /\ SpecFiles + 0 <= 1
            BY DEF SpecBytes, SpecFiles
        <3> QED BY <1>1, <2>1, <3>1, Room
    <2>3. StoredBytes <= config.bytes /\ StoredFiles <= config.files
        BY <1>1, <2>2
    <2> QED BY <2>3 DEF UsageWithin, storage_usage
<1>3. ASSUME ~meta
      PROVE  preflight_run_completion(storage_usage, N, MetadataBytes, 1, Available + temp)
    <2>1. manifests.count + c <= c + stops /\ results + N <= N + config.interval
        BY <1>1, <1>3 DEF Local, Typed, MetaFirst
    <2>2. /\ StoredBytes + (512 * N + ManifestEstimate * c + MetadataBytes) <= config.bytes
          /\ StoredFiles + (N + c + 1) <= config.files
          /\ 512 * N + ManifestEstimate * c + MetadataBytes + config.free
                <= Capacity - StoredBytes - foreign
        <3>1. SpecBytes + MetadataBytes <= MetadataBytes /\ SpecFiles + 1 <= 1
            BY <1>3 DEF SpecBytes, SpecFiles
        <3> QED BY <1>1, <2>1, <3>1, Room
    <2>3. CompletionBytes(N, MetadataBytes) = 512 * N + ManifestEstimate * c + MetadataBytes
        BY <1>1 DEF CompletionBytes
    <2>4. CompletionFiles(N, 1) = N + c + 1
        BY <1>1 DEF CompletionFiles
    <2>5. Available + temp = Capacity - StoredBytes - foreign
        BY <1>1, SizesAssumption DEF Available, Local, Typed
    <2>6. /\ ManifestEstimate <= config.manifest
          /\ CompletionBytes(N, MetadataBytes) + config.free <= U64Max
        BY DEF Ample, FirstBytes, Local, Typed
    <2> QED BY <2>2, <2>3, <2>4, <2>5, <2>6 DEF preflight_run_completion, storage_usage
<1> QED BY <1>2, <1>3

\* The estimate for what a stopped run misses fits as well.
LEMMA ScanAdmits ==
    ASSUME Local, Ample, Paid, pc = "scan", status \notin {"Complete", "Failed"}
    PROVE  preflight_run_completion(usage, Missing, 0, 0, Available)
<1> USE Sizes
<1>0. ~Started /\ meta /\ temp = 0 /\ usage = storage_usage
    BY Names DEF Started, Local, MetaFirst, TempSized, Tracked
<1>1. PICK k \in 0 .. N : k = N - snapshot
    BY DEF Local, Typed
<1>2. PICK c \in Nat, d \in Nat :
        c = CompletionManifests(N) /\ d = CompletionManifests(k) /\ d <= c
    BY Estimates
<1>3. manifests.count + d <= c + stops /\ results + k <= N + config.interval
    BY <1>0, <1>1, <1>2, Counted
<1>4. /\ StoredBytes + (512 * k + ManifestEstimate * d + 0) <= config.bytes
      /\ StoredFiles + (k + d + 0) <= config.files
      /\ 512 * k + ManifestEstimate * d + 0 + config.free <= Capacity - StoredBytes - foreign
    <2>1. SpecBytes + 0 <= MetadataBytes /\ SpecFiles + 0 <= 1
        BY <1>0 DEF SpecBytes, SpecFiles
    <2> QED BY <1>2, <1>3, <2>1, Room
<1>5. /\ CompletionBytes(k, 0) = 512 * k + ManifestEstimate * d + 0
      /\ CompletionFiles(k, 0) = k + d + 0
    BY <1>2 DEF CompletionBytes, CompletionFiles
<1>6. Available = Capacity - StoredBytes - foreign
    BY <1>0, Amounts, SizesAssumption DEF Available, Amount, Local, Typed
<1>7. 512 * k + ManifestEstimate * d + 0 + config.free <= U64Max
    <2>1. PICK ec \in Nat, ed \in Nat :
            ec = ManifestEstimate * c /\ ed = ManifestEstimate * d /\ ed <= ec
        BY <1>2, Product
    <2>2. 512 * N + ec + MetadataBytes + config.free <= U64Max
        BY <1>2, <2>1 DEF Ample, FirstBytes, CompletionBytes
    <2>3. 512 * k + ed + 0 + config.free <= U64Max
        BY <2>1, <2>2, SizesAssumption DEF Local, Typed
    <2> QED BY <2>1, <2>3
<1>8. ManifestEstimate <= config.manifest
    BY DEF Ample, Local, Typed
<1>9. Missing = k
    BY <1>1 DEF Missing
<1> QED BY <1>0, <1>4, <1>5, <1>6, <1>7, <1>8, <1>9
    DEF preflight_run_completion, storage_usage

\* And every write passes, even if others have taken space.
LEMMA AmpleFits ==
    ASSUME Local, Ample, Paid, pc \in Writes, temp = 0
    PROVE  Fits(pc)
<1> USE Sizes
<1>1. PICK z \in Nat, sb \in Nat, sf \in Nat, e \in Nat, c \in Nat :
        /\ z = Size(pc) /\ sb = StoredBytes /\ sf = StoredFiles /\ e = ManifestEstimate
        /\ c = CompletionManifests(N) /\ c >= 2
    <2>1. N \in 0 .. N
        OBVIOUS
    <2> QED BY <2>1, Amounts, Estimates, Covered DEF Amount
<1>2. /\ config.bytes \in Nat /\ config.files \in Nat /\ config.free \in Nat
      /\ config.manifest \in Nat /\ foreign \in Nat /\ Capacity \in Nat /\ U64Max \in Nat
      /\ snapshot \in 0 .. N /\ received \in 0 .. N /\ results \in Nat /\ stops \in Nat
      /\ manifests.count \in Nat /\ config.interval \in Nat
    BY SizesAssumption DEF Local, Typed
<1>3. /\ sb + z <= config.bytes /\ sf + 1 <= config.files
      /\ z + config.free <= Capacity - sb - foreign
    <2>1. CASE pc = "metadata"
        <3>1. z = MetadataBytes /\ ~meta /\ manifests.count = 0 /\ results = 0
            BY <1>1, <1>2, <2>1, Written DEF Local, MetaFirst
        <3>2. /\ StoredBytes + (512 * 0 + ManifestEstimate * 0 + MetadataBytes) <= config.bytes
              /\ StoredFiles + (0 + 0 + 1) <= config.files
              /\ 512 * 0 + ManifestEstimate * 0 + MetadataBytes + config.free
                    <= Capacity - StoredBytes - foreign
            <4>1. /\ manifests.count + 0 <= c + stops /\ results + 0 <= N + config.interval
                  /\ SpecBytes + MetadataBytes <= MetadataBytes /\ SpecFiles + 1 <= 1
                BY <1>2, <3>1 DEF SpecBytes, SpecFiles
            <4> QED BY <1>1, <4>1, Room
        <3> QED BY <1>1, <1>2, <3>1, <3>2
    <2>2. CASE pc = "result"
        <3>1. z = 296 /\ Started /\ results + 1 <= N + config.interval /\ meta
            BY <1>1, <1>2, <2>2, Written DEF Local, MetaFirst, Between, Started, RunPcs
        <3>2. manifests.count + 0 <= c + stops
            BY <1>1, <1>2, <3>1, Counted
        <3>3. /\ StoredBytes + (512 * 1 + ManifestEstimate * 0 + 0) <= config.bytes
              /\ StoredFiles + (1 + 0 + 0) <= config.files
              /\ 512 * 1 + ManifestEstimate * 0 + 0 + config.free
                    <= Capacity - StoredBytes - foreign
            <4>1. SpecBytes + 0 <= MetadataBytes /\ SpecFiles + 0 <= 1
                BY <3>1 DEF SpecBytes, SpecFiles
            <4> QED BY <1>1, <3>1, <3>2, <4>1, Room
        <3> QED BY <1>1, <1>2, <3>1, <3>3
    <2>3. CASE pc \notin {"metadata", "result"}
        <3>1. z <= e /\ meta /\ (Started \/ pc = "snapshot")
            BY <1>1, <1>2, <2>3, Written
            DEF Local, MetaFirst, Started, RunPcs, Writes
        <3>2. manifests.count + 1 <= c + stops /\ results + 0 <= N + config.interval
            BY <1>1, <1>2, <3>1, Counted
        <3>3. /\ StoredBytes + (512 * 0 + ManifestEstimate * 1 + 0) <= config.bytes
              /\ StoredFiles + (0 + 1 + 0) <= config.files
              /\ 512 * 0 + ManifestEstimate * 1 + 0 + config.free
                    <= Capacity - StoredBytes - foreign
            <4>1. SpecBytes + 0 <= MetadataBytes /\ SpecFiles + 0 <= 1
                BY <3>1 DEF SpecBytes, SpecFiles
            <4> QED BY <1>1, <3>1, <3>2, <4>1, Room
        <3> QED BY <1>1, <1>2, <3>1, <3>3
    <2> QED BY <2>1, <2>2, <2>3
<1>4. z + config.free <= U64Max
    <2>1. PICK ec \in Nat : ec = e * c /\ e <= ec
        <3>1. e * 1 <= e * c
            BY <1>1, Product
        <3> QED BY <3>1, Product
    <2>2. 512 * N + ec + MetadataBytes + config.free <= U64Max
        BY <1>1, <2>1 DEF Ample, FirstBytes, CompletionBytes
    <2>3. z = MetadataBytes \/ z = 296 \/ z <= e
        BY <1>1, <1>2, Written
    <2> QED BY <1>1, <1>2, <2>1, <2>2, <2>3
<1>5. usage = [bytes |-> sb, files |-> sf] /\ Available = Capacity - sb - 0 - foreign
    BY <1>1 DEF Local, Tracked, storage_usage, Available
<1>6. preflight_write(z)
    <2>1. sf < config.files /\ z + config.free <= Capacity - sb - 0 - foreign
        BY <1>1, <1>2, <1>3
    <2> QED BY <1>3, <1>4, <1>5, <2>1 DEF preflight_write
<1>7. pc \in {"checkpoint", "complete", "failed"} => z <= config.manifest
    <2>1. pc \in {"checkpoint", "complete", "failed"} => z <= e
        BY <1>1, <1>2, Written
    <2>2. e <= config.manifest
        BY <1>1, <1>2 DEF Ample
    <2> QED BY <1>1, <1>2, <2>1, <2>2
<1> QED BY <1>1, <1>6, <1>7 DEF Fits

LEMMA PaidStep == Inv /\ Local' /\ [Next]_vars => Paid'
<1> SUFFICES ASSUME Inv, Local', [Next]_vars, Ample' PROVE Paid'
    BY DEF Paid
<1>0. Local /\ Paid
    BY DEF Inv
<1>1. ~Reconfigure
    BY DEF Reconfigure, Ample
<1>2. Ample
    <2>1. stops \in Nat /\ foreign \in Nat /\ foreign' \in Nat
        BY <1>0 DEF Local, Typed
    <2>2. config' = config
        BY <1>1 DEF Next, Open, Scan, Cleanup, Run, WriteTemp, Install, Stop, Squeeze,
            Refuse, Proceed, vars
    <2>3. stops' \in {stops, stops + 1}
        BY <1>1 DEF Next, Open, Scan, Cleanup, Run, WriteTemp, Install, Stop, Squeeze,
            Refuse, Proceed, vars
    <2>4. changed => changed'
        BY <1>1 DEF Next, Open, Scan, Cleanup, Run, WriteTemp, Install, Stop, Squeeze,
            Refuse, Proceed, vars
    <2>5. foreign' >= foreign
        <3>1. CASE Squeeze
            BY <2>1, <3>1 DEF Squeeze
        <3>2. CASE foreign' = foreign
            BY <2>1, <3>2
        <3> QED
            BY <1>1, <3>1, <3>2 DEF Next, Open, Scan, Cleanup, Run, WriteTemp, Install,
                Stop, Refuse, Proceed, vars
    <2> QED BY <1>0, <2>2, <2>3, <2>4, <2>5, AmpleBefore
<1>3. PICK c \in Nat, d \in Nat, mc \in Nat, s \in Nat, i \in Nat \ {0} :
        /\ c = CompletionManifests(N) /\ d = CompletionManifests(N - snapshot) /\ d >= 2
        /\ mc = manifests.count /\ s = stops /\ i = config.interval
    <2>1. N - snapshot \in 0 .. N
        BY <1>0, Sizes DEF Local, Typed
    <2>2. /\ CompletionManifests(N - snapshot) \in Nat /\ CompletionManifests(N - snapshot) >= 2
          /\ CompletionManifests(N) \in Nat
        BY <1>0, <2>1, Estimates
    <2> QED BY <1>0, <2>2 DEF Local, Typed
<1>4. /\ refusal = "none"
      /\ results <= snapshot + i
      /\ status \in {"Complete", "Failed"} => mc <= c + s
      /\ status \notin {"Complete", "Failed"} /\ ~Started => mc + d <= c + s + 0
      /\ status \notin {"Complete", "Failed"} /\ Started => mc + d <= c + s + 1
    BY <1>0, <1>2, <1>3 DEF Paid
\* Steps that change none of the counts, and neither begin nor end a process's work.
<1>5. ASSUME /\ UNCHANGED <<config, stops, manifests, snapshot, status>>
             /\ Started <=> Started'
             /\ refusal' = "none" /\ results' <= snapshot + i
      PROVE  Paid'
    <2>1. /\ CompletionManifests(N)' = c
          /\ CompletionManifests(N - snapshot)' = d
        BY <1>3, <1>5 DEF CompletionManifests
    <2> QED BY <1>3, <1>4, <1>5, <2>1 DEF Paid
<1>6. CASE Open
    <2>0. pc = "closed" /\ Valid(config)
        BY <1>2, <1>6 DEF Open, Ample
    <2>1. /\ UsageWithin(storage_usage)
          /\ ~meta => preflight_run_completion(storage_usage, N, MetadataBytes, 1,
                                               Available + temp)
        BY <1>0, <1>2, <2>0, OpenAdmits
    <2>2. Proceed(IF meta THEN "scan" ELSE "metadata")
        BY <1>6, <2>0, <2>1 DEF Open
    <2>3. /\ UNCHANGED <<config, stops, manifests, snapshot, status, results>>
          /\ refusal' = "none" /\ ~Started /\ ~Started'
        BY <2>0, <2>2, Names DEF Proceed, Started, disk, RunPcs
    <2> QED BY <1>4, <1>5, <2>3
<1>7. CASE Scan
    <2>1. pc = "scan" /\ (status \in {"Complete", "Failed"} \/
            preflight_run_completion(usage, Missing, 0, 0, Available))
        BY <1>0, <1>2, <1>7, ScanAdmits DEF Scan
    <2>2. Proceed(IF status \in {"Complete", "Failed"} THEN "cleanup" ELSE "snapshot")
        BY <1>7, <2>1 DEF Scan
    <2>3. ~Started /\ ~Started' /\ UNCHANGED <<config, stops, manifests, snapshot, status, results>>
        BY <2>1, <2>2, Names DEF Proceed, Started, disk, RunPcs
    <2> QED BY <1>4, <1>5, <2>2, <2>3 DEF Proceed
<1>8. CASE Cleanup
    <2>1. Started <=> Started'
        BY <1>8, Names DEF Cleanup, Started, RunPcs
    <2>2. results' <= snapshot + i
        BY <1>0, <1>3, <1>4, <1>8 DEF Cleanup, Local, Typed
    <2> QED BY <1>4, <1>5, <1>8, <2>1, <2>2 DEF Cleanup
<1>9. CASE Run
    <2>1. Started /\ Started'
        BY <1>9 DEF Run, Started, RunPcs
    <2> QED BY <1>4, <1>5, <1>9, <2>1 DEF Run, disk
<1>10. CASE WriteTemp
    <2>1. Fits(pc)
        BY <1>0, <1>2, <1>10, AmpleFits DEF WriteTemp
    <2>2. UNCHANGED <<config, disk, pc, refusal, stops>>
        BY <1>10, <2>1 DEF WriteTemp
    <2>3. Started <=> Started'
        BY <2>2 DEF Started, disk
    <2> QED BY <1>4, <1>5, <2>2, <2>3 DEF disk
<1>11. CASE Install
    <2>0. UNCHANGED <<config, refusal, stops>>
        BY <1>11 DEF Install
    <2>1. CASE InstallMetadata
        <3>1. /\ UNCHANGED <<manifests, snapshot, status, results>>
              /\ ~Started /\ ~Started'
            BY <2>1, Names DEF InstallMetadata, Started, RunPcs
        <3> QED BY <1>4, <1>5, <2>0, <3>1
    <2>2. CASE InstallSnapshot
        <3>1. /\ pc = "snapshot" /\ pc' = "cleanup" /\ status' = "Running"
              /\ manifests'.count = mc + 1
              /\ UNCHANGED <<results, snapshot>>
            BY <1>3, <2>2 DEF InstallSnapshot, InstallManifest
        <3>2. ~Started /\ Started' /\ status \notin {"Complete", "Failed"}
            BY <1>0, <3>1 DEF Started, RunPcs, Local, Between
        <3>3. /\ CompletionManifests(N)' = c
              /\ CompletionManifests(N - snapshot)' = d
            BY <1>3, <2>0, <3>1 DEF CompletionManifests
        <3>4. (mc + 1) + d <= c + s + 1
            BY <1>3, <1>4, <3>2
        <3> QED BY <1>3, <1>4, <2>0, <3>1, <3>2, <3>3, <3>4 DEF Paid
    <2>3. CASE InstallResult
        <3>1. /\ pc = "result" /\ pc' \in {"checkpoint", "run"}
              /\ UNCHANGED <<manifests, snapshot, status>>
            BY <2>3 DEF InstallResult
        <3>2. Started /\ Started'
            BY <3>1 DEF Started, RunPcs
        <3>3. results' <= snapshot + i
            <4>1. /\ results' = received' /\ received' = snapshot' + pending'
                  /\ pending' <= config'.interval /\ pending' \in Nat
                BY <3>1 DEF Local, Typed, Between, RunPcs
            <4>2. PICK k \in Nat, t \in Nat : k = pending' /\ t = snapshot
                BY <1>0, <4>1 DEF Local, Typed
            <4>3. results' = t + k /\ k <= i
                BY <1>3, <2>0, <3>1, <4>1, <4>2
            <4> QED BY <1>3, <4>2, <4>3
        <3> QED BY <1>4, <1>5, <2>0, <3>1, <3>2, <3>3
    <2>4. CASE InstallCheckpoint
        <3>1. /\ pc \in {"checkpoint", "complete", "failed"}
              /\ manifests'.count = mc + 1
              /\ snapshot' = received /\ results' = results
            BY <1>3, <2>4 DEF InstallCheckpoint, InstallManifest
        <3>2. /\ status = "Running" /\ results = received /\ Started
              /\ received \in 0 .. N /\ snapshot \in 0 .. N
              /\ pc = "checkpoint" => received = snapshot + i
            BY <1>0, <1>3, <3>1 DEF Local, Typed, Between, Started, RunPcs
        <3>3. mc + d <= c + s + 1
            BY <1>4, <3>2
        <3>4. results' <= snapshot' + config'.interval
            BY <1>3, <2>0, <3>1, <3>2
        <3>5. CASE pc # "checkpoint"
            <4>1. status' \in {"Complete", "Failed"}
                BY <2>4, <3>1, <3>5 DEF InstallCheckpoint
            <4>2. CompletionManifests(N)' = c
                BY <1>3, <2>0 DEF CompletionManifests
            <4>3. mc + 1 <= c + s
                BY <1>3, <3>3
            <4> QED BY <1>3, <1>4, <2>0, <3>1, <3>4, <4>1, <4>2, <4>3 DEF Paid
        <3>6. CASE pc = "checkpoint"
            <4>1. pc' = "run" /\ status' = "Running" /\ Started'
                BY <2>4, <3>2, <3>6 DEF InstallCheckpoint, Started, RunPcs
            <4>2. PICK k \in Nat, l \in Nat : k = N - received /\ l = N - snapshot /\ k + i = l
                BY <1>3, <3>2, <3>6, Sizes
            <4>3. PICK g \in Nat : g = Manifests(k, i) /\ g + 1 <= Manifests(l, i)
                <5>1. k + i <= l
                    BY <1>3, <4>2
                <5>2. /\ Manifests(k, i) \in Nat
                      /\ Manifests(k, i) + 1 <= Manifests(l, i)
                    BY <5>1, Estimate
                <5> QED BY <5>2
            <4>4. Manifests(l, i) = d
                BY <1>3, <4>2 DEF CompletionManifests, Manifests
            <4>5. CompletionManifests(N)' = c /\ CompletionManifests(N - snapshot)' = g
                BY <1>3, <2>0, <3>1, <4>2, <4>3 DEF CompletionManifests, Manifests
            <4>6. (mc + 1) + g <= c + s + 1
                BY <1>3, <3>3, <4>3, <4>4
            <4> QED BY <1>3, <1>4, <2>0, <3>1, <3>4, <4>1, <4>5, <4>6 DEF Paid
        <3> QED BY <3>5, <3>6
    <2> QED BY <1>11, <2>1, <2>2, <2>3, <2>4 DEF Install
<1>12. CASE Stop
    <2>1. /\ pc' = "closed" /\ ~Started' /\ stops' = s + 1 /\ refusal' = "none"
          /\ UNCHANGED <<config, manifests, snapshot, status, results>>
        BY <1>3, <1>12, Names DEF Stop, Started, disk
    <2>2. /\ CompletionManifests(N)' = c
          /\ CompletionManifests(N - snapshot)' = d
        BY <1>3, <2>1 DEF CompletionManifests
    <2>3. /\ status \in {"Complete", "Failed"} => mc <= c + (s + 1)
          /\ status \notin {"Complete", "Failed"} => mc + d <= c + (s + 1) + 0
        BY <1>3, <1>4
    <2> QED BY <1>3, <1>4, <2>1, <2>2, <2>3 DEF Paid
<1>13. CASE Squeeze
    <2>1. UNCHANGED <<config, disk, pc, refusal, stops>>
        BY <1>13 DEF Squeeze
    <2>2. Started <=> Started'
        BY <2>1 DEF Started, disk
    <2> QED BY <1>4, <1>5, <2>1, <2>2 DEF disk
<1>14. CASE UNCHANGED vars
    <2>1. Started <=> Started'
        BY <1>14 DEF vars, Started, disk
    <2> QED BY <1>4, <1>5, <1>14, <2>1 DEF vars, disk
<1> QED
    BY <1>1, <1>6, <1>7, <1>8, <1>9, <1>10, <1>11, <1>12, <1>13, <1>14 DEF Next

-----------------------------------------------------------------------------
(* The theorems *)

\* Inv is inductive.
THEOREM Inductive == Spec => []Inv
<1>1. Inv /\ [Next]_vars => Inv'
    BY LocalStep, BudgetStep, MidwayStep, LimitsStep, PaidStep DEF Inv
<1> QED BY InitInv, <1>1, PTL DEF Spec

\* A process that preflight_run_completion has admitted is refused by none of the
\* checks of atomic_write and checkpoint, unless other programs took the space
\* meanwhile: whatever the blocks, the cadence, the limits and what stopped
\* processes left behind.
THEOREM AdmittedRunsFinish == Spec => []NeverRefusedMidway
<1>1. Inv => NeverRefusedMidway
    BY DEF Inv
<1> QED BY Inductive, <1>1, PTL

\* While a process works, the run directory and its temporary file are within
\* maximum_run_bytes and maximum_run_files.
THEOREM LimitsKept == Spec => []WithinLimits
<1>1. Inv => WithinLimits
    BY DEF Inv
<1> QED BY Inductive, <1>1, PTL

\* A restart costs one manifest and the results of one interval: with that
\* headroom open() never refuses a run that it admitted once, however often the
\* run is stopped and wherever.
THEOREM RestartsAreAdmitted == Spec => []RestartsAdmitted
<1>1. Inv => RestartsAdmitted
    BY DEF Inv, Paid, Ample, RestartsAdmitted
<1> QED BY Inductive, <1>1, PTL
=============================================================================
