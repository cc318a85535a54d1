------------------------------ MODULE History -------------------------------
(***************************************************************************)
(* history.Store: the runs of one cluster, in memory and in a directory of *)
(* one JSON file per run, with the failures a file system has and a        *)
(* process that may die at any time, also while it writes a file.  Scans   *)
(* of a fleet overlap, so a report may be recorded after a newer one, and  *)
(* two reports may be of the same millisecond, which names their file.     *)
(***************************************************************************)
EXTENDS RunLog, FiniteSets, SequencesExt

CONSTANTS
    Scanners,   \* the scans that may be under way at a time
    MaxInstant  \* BOUND: milliseconds at which a report can be generated

ASSUME HistoryAssumption == MaxInstant \in Nat

Instants == 1..MaxInstant

\* A report.Report: when it was generated, to the millisecond, and its findings.
Run == [at : Instants, found : Reports]

\* A pointer to a run, the name of a file ("" or the instant in it) and the
\* content of a file (torn, or a report) are each {} or a singleton.
Maybe(S) == {{}} \cup {{x} : x \in S}

VARIABLES
    now,        \* the instant of the newest report generated so far
    scan,       \* scan[p]: the report scan p has generated and not recorded
    up,         \* a process has the store open
    dir,        \* s.dir # "": the directory could be opened
    disk,       \* disk[t]: content of the file named for instant t
    entries,    \* s.entries
    files,      \* s.files, parallel to entries
    prev,       \* s.prev
    last,       \* s.last
    past        \* AUXILIARY: every run recorded, in order

memory == <<entries, files, prev, last>>
vars == <<now, scan, up, dir, disk, memory, past>>

TypeOK ==
    /\ now \in 0..MaxInstant
    /\ scan \in [Scanners -> Maybe(Run)]
    /\ up \in BOOLEAN /\ dir \in BOOLEAN
    /\ DOMAIN disk \subseteq Instants
    /\ disk \in [DOMAIN disk -> Maybe(Run)]
    /\ entries \in Seq(Run) /\ Len(entries) <= Limit
    /\ files \in Seq(Maybe(Instants)) /\ Len(files) = Len(entries)
    /\ prev \in Maybe(Run) /\ last \in Maybe(Run)
    /\ past \in Seq(Run)

Init ==
    /\ now = 0 /\ up = FALSE /\ dir = FALSE /\ scan = [p \in Scanners |-> {}]
    /\ disk = <<>> /\ past = <<>>
    /\ entries = <<>> /\ files = <<>> /\ prev = {} /\ last = {}
-----------------------------------------------------------------------------
\* disk with content c in the file of instant t, and without the files ts.
Written(d, t, c) == [u \in DOMAIN d \cup {t} |-> IF u = t THEN c ELSE d[u]]

Removed(d, ts) == [t \in DOMAIN d \ ts |-> d[t]]

\* Files whose JSON does not parse are passed over.
Readable(d) == {t \in DOMAIN d : d[t] # {}}

\* Wrong: the directory's own order.
InAnyOrder(S) == SetToSeqs(S)

\* sort.Strings: a file's name begins with its timestamp.
InOrder(S) == {s \in SetToSeqs(S) : \A i, j \in DOMAIN s : i < j => s[i] < s[j]}

\* The newest Limit runs.
KeptOf(runs) ==
    SubSeq(runs, IF Len(runs) > Limit THEN Len(runs) - Limit + 1 ELSE 1, Len(runs))

\* What New finds in the directory: the runs, in the order of their files.
Found(d) == {[i \in DOMAIN ts |-> CHOOSE r \in Run : d[ts[i]] = {r}] :
                ts \in InOrder(Readable(d))}

\* One file each; json.Marshal of a report does not fail.
FileOf(r) == {r.at}

\* The run `back` places before the newest one of a log, if there is one.
FromEnd(log, back) ==
    IF Len(log) > back THEN {log[Len(log) - back]} ELSE {}
-----------------------------------------------------------------------------
\* New pushes every run it finds, which prunes the oldest files for good
\* (or leaves them, when they cannot be removed).
Open ==
    /\ ~up
    /\ up' = TRUE /\ dir' = TRUE
    /\ \E runs \in Found(disk) :
        LET kept == KeptOf(runs)
            gone == {runs[i].at : i \in 1..(Len(runs) - Len(kept))}
        IN
        /\ entries' = kept
        /\ files' = [i \in DOMAIN kept |-> FileOf(kept[i])]
        /\ prev' = FromEnd(runs, 1)
        /\ last' = FromEnd(runs, 0)
        /\ \E removed \in SUBSET gone : disk' = Removed(disk, removed)
    /\ UNCHANGED <<now, scan, past>>

\* The directory cannot be opened: Manager falls back to memory.
OpenInMemory ==
    /\ ~up
    /\ up' = TRUE /\ dir' = FALSE
    /\ UNCHANGED <<now, scan, disk, memory, past>>

\* Wrong: an index that is one off.
SecondOldest(names) == names[2]

\* The file of the run that push drops from a full store.
Oldest(names) == names[1]

\* push: record r, kept in `file`, over the disk d its writing left.
push(r, file, d) ==
    /\ entries' = Push(entries, r)
    /\ files' = Push(files, file)
    /\ prev' = last
    /\ last' = {r}
    /\ \/ disk' = d
       \/ Len(entries) = Limit /\ disk' = Removed(d, Oldest(files))

\* A scan of the cluster generates its report.  The clock moves on between
\* two scans, but not always while one is under way; only the order of the
\* instants matters.
Generate(p) ==
    /\ up /\ scan[p] = {}
    /\ \E r \in Run :
        /\ \/ r.at = now + 1
           \/ r.at = now /\ \E q \in Scanners : \E s \in scan[q] : s.at = now
        /\ scan' = [scan EXCEPT ![p] = {r}]
        /\ now' = r.at
    /\ UNCHANGED <<up, dir, disk, memory, past>>

\* The scan's goroutine enters Append with its report.
Recorded(p, r) ==
    /\ scan[p] = {r}
    /\ scan' = [scan EXCEPT ![p] = {}]
    /\ past' = Append(past, r)

\* Append, when the file is written.
AppendRun(p) ==
    /\ up /\ dir
    /\ \E r \in scan[p] :
        /\ Recorded(p, r)
        /\ push(r, FileOf(r), Written(disk, r.at, {r}))
    /\ UNCHANGED <<now, up, dir>>

\* Append, when there is no directory or nothing can be written.
AppendUnwritten(p) ==
    /\ up
    /\ \E r \in scan[p] :
        /\ Recorded(p, r)
        /\ push(r, {}, disk)
    /\ UNCHANGED <<now, up, dir>>

\* Append, when the write fails half-way and leaves a torn file behind.
AppendTorn(p) ==
    /\ up /\ dir
    /\ \E r \in scan[p] :
        /\ Recorded(p, r)
        /\ push(r, {}, Written(disk, r.at, {}))
    /\ UNCHANGED <<now, up, dir>>

Dead ==
    /\ up /\ up' = FALSE /\ dir' = FALSE
    /\ scan' = [p \in Scanners |-> {}]
    /\ entries' = <<>> /\ files' = <<>> /\ prev' = {} /\ last' = {}

\* The process dies between two calls,
Crash == Dead /\ UNCHANGED <<now, disk, past>>

\* or inside Append: with the file torn or whole, and before push prunes.
CrashWhileAppending(p) ==
    /\ dir /\ Dead
    /\ \E r \in scan[p] :
        /\ past' = Append(past, r)
        /\ \E c \in {{}, {r}} : disk' = Written(disk, r.at, c)
    /\ UNCHANGED now

\* or inside New, with some files of pruned runs removed.
CrashWhileOpening ==
    /\ ~up
    /\ \E runs \in Found(disk) :
        \E k \in 1..(Len(runs) - Limit) :
            disk' = Removed(disk, {runs[i].at : i \in 1..k})
    /\ UNCHANGED <<now, scan, up, dir, memory, past>>
-----------------------------------------------------------------------------
Next ==
    \/ Open
    \/ OpenInMemory
    \/ Crash
    \/ CrashWhileOpening
    \/ \E p \in Scanners :
        \/ Generate(p)
        \/ AppendRun(p)
        \/ AppendUnwritten(p)
        \/ AppendTorn(p)
        \/ CrashWhileAppending(p)

Spec == Init /\ [][Next]_vars
-----------------------------------------------------------------------------
\* LastDiff compares prev and last, the index is entries: both speak of the
\* same two newest runs, after any restart and at any limit.
DiffIsOfNewestRuns ==
    up => prev = FromEnd(entries, 1) /\ last = FromEnd(entries, 0)

\* Two of the runs are of the same instant, hence in the same file.
Shared(runs, t) ==
    \E i, j \in DOMAIN runs : i # j /\ runs[i].at = t /\ runs[j].at = t

\* A run the store counts as persisted is on disk, whole, under its name, as
\* long as it shares its millisecond with no other run.
RetainedRunsAreOnDisk ==
    \A i \in DOMAIN entries : \A t \in files[i] :
        Shared(past, t) \/ (t \in DOMAIN disk /\ disk[t] = {entries[i]})

\* Run r was recorded after a run that is not older.
Overtaken(runs, r) ==
    \E i, j \in DOMAIN runs : i < j /\ runs[j] = r /\ runs[i].at >= r.at

\* When every run shown could be written and was recorded in its turn, a restart
\* shows the same runs: the trend is whole and a finding alerted before is not
\* new again.  Torn files, files that could not be removed and the late runs of
\* earlier overlaps do not matter.
RestartIsLossless ==
    (/\ up /\ dir
     /\ \A i \in DOMAIN entries : files[i] # {} /\ ~Overtaken(past, entries[i]))
        => \A runs \in Found(disk) : KeptOf(runs) = entries

\* The store implements the log Fleet keeps per cluster; while no process
\* has it open, the log is what the directory holds.
Restored(d) == CHOOSE l \in {KeptOf(runs) : runs \in Found(d)} : TRUE

Shown == IF up THEN entries ELSE Restored(disk)

Log == INSTANCE HistorySpec WITH log <- Shown

ImplementsLog == Log!Spec
=============================================================================
