------------------------------ MODULE AuditLog ------------------------------
(***************************************************************************)
(* AuditLog (auditLog.ts): the hash-chained log in memory, the active file *)
(* it is appended to, and the archived segments the active file is renamed *)
(* into once it has MaxLines lines.  The process may be killed anywhere in *)
(* record(), the disk may refuse the rename or the append, and the next    *)
(* process rebuilds the log from the files.                                *)
(*                                                                         *)
(* The n-th call of record() since the beginning makes the entry n.  The   *)
(* hashes are collision free, so an entry's previousHash is the number of  *)
(* the entry it was computed from, 0 for null.  Nobody but the program     *)
(* touches the files.                                                      *)
(***************************************************************************)
EXTENDS Naturals, JsonlFile

CONSTANTS
    MaxLines,       \* maxLinesPerSegment
    MaxRecords      \* bound on the calls of record()

ASSUME BoundsAssumption == MaxLines \in Nat \ {0} /\ MaxRecords \in Nat

VARIABLES
    running,        \* a process is up
    entries,        \* its #entries
    disk,           \* the archived segments, the active file, and
                    \* #currentSegmentLines
    count,          \* calls of record() so far
    acked           \* the entries whose record() returned

vars == <<running, entries, disk, count, acked>>

EmptyDisk == [archive |-> <<>>, active |-> NoFile, counter |-> 0]

Entry == [n |-> count + 1,
          previous |-> IF entries = <<>> THEN 0 ELSE Last(entries).n]

\* verifyAuditChain: the entries that do not link to the one before them.
Before(log, i) == IF i = 1 THEN 0 ELSE log[i - 1].n

Breaks(log) == {i \in DOMAIN log : log[i].previous # Before(log, i)}

-----------------------------------------------------------------------------
(* A definition named Buggy... is a plausible mistake in the definition    *)
(* that follows it; no specification uses it.                              *)

\* #rotateIfNeeded.  A counter that has reached MaxLines means that the
\* active file is there; the next free index is above all those in use.
Full(d) == d.counter >= MaxLines

BuggyRotatedOverSegment(d) ==
    IF Full(d)
    THEN [archive |-> <<d.active>>, active |-> NoFile, counter |-> 0]
    ELSE d

Rotated(d) ==
    IF Full(d)
    THEN [archive |-> Append(d.archive, d.active), active |-> NoFile, counter |-> 0]
    ELSE d

\* The append that follows, done and counted ...
Appended(d) == [d EXCEPT !.active = AppendLine(@, Entry), !.counter = @ + 1]

\* ... or interrupted.
Interrupted(d) == {[d EXCEPT !.active = f] : f \in PartlyAppended(d.active, Entry)}

Attempt == running /\ count < MaxRecords /\ count' = count + 1

Record ==
    /\ Attempt
    /\ entries' = Append(entries, Entry)
    /\ disk' = Appended(Rotated(disk))
    /\ acked' = acked \cup {count + 1}
    /\ UNCHANGED running

\* The rename or the append throws.  The entry is in #entries already and
\* stays there; the caller sees the error.
RecordFails ==
    /\ Attempt
    /\ entries' = Append(entries, Entry)
    /\ disk' \in Interrupted(Rotated(disk)) \cup {d \in {disk} : Full(d)}
    /\ UNCHANGED <<running, acked>>

Stop == running' = FALSE /\ entries' = <<>> /\ UNCHANGED acked

\* Killed before the rename, after it, in the append or just after it.
CrashInRecord ==
    /\ Attempt
    /\ disk' \in {disk, Appended(Rotated(disk))} \cup Interrupted(Rotated(disk))
    /\ Stop

Crash == running /\ Stop /\ UNCHANGED <<disk, count>>

\* The constructor: the archived segments, oldest first, then the active file.
BuggyRehydratedActiveOnly(d) == Rehydrate(d.active)

BuggyRehydratedActiveFirst(d) ==
    Rehydrate(d.active) \o FlattenSeq([i \in DOMAIN d.archive |-> Rehydrate(d.archive[i])])

Rehydrated(d) ==
    FlattenSeq([i \in DOMAIN d.archive |-> Rehydrate(d.archive[i])]) \o Rehydrate(d.active)

\* Its counter counts the lines of the active file that do not parse, too.
BuggyCounter(d) == Len(Rehydrate(d.active))

Counter(d) == PhysicalLines(d.active)

Restart ==
    /\ ~running
    /\ running' = TRUE
    /\ entries' = Rehydrated(disk)
    /\ disk' = [disk EXCEPT !.counter = Counter(disk)]
    /\ UNCHANGED <<count, acked>>

Init ==
    /\ running = TRUE /\ entries = <<>> /\ disk = EmptyDisk
    /\ count = 0 /\ acked = {}

Next == Record \/ RecordFails \/ CrashInRecord \/ Crash \/ Restart

Spec == Init /\ [][Next]_vars

-----------------------------------------------------------------------------
(* Properties.                                                             *)

\* Every variable stays in its type.
TypeOK ==
    /\ running \in BOOLEAN
    /\ ToSet(entries) \subseteq [n : 1..count, previous : 0..count]
    /\ disk.counter \in 0..MaxLines
    /\ count \in 0..MaxRecords
    /\ acked \subseteq 1..count

\* The log in memory is in the order in which it was recorded, across every
\* rotation and restart (auditLog.ts 199-203).
Chronological ==
    \A i, j \in DOMAIN entries : i < j => entries[i].n < entries[j].n

\* No file grows beyond MaxLines lines, torn ones and restarts included
\* (auditLog.ts 174-177, 216-218).
SegmentsBounded ==
    /\ PhysicalLines(disk.active) <= MaxLines
    /\ \A i \in DOMAIN disk.archive : PhysicalLines(disk.archive[i]) <= MaxLines

\* verify() blames an entry only where a write went wrong: the first entry
\* missing in front of it is one whose record() never returned.
BreaksOnlyAtUnfinishedWrite ==
    \A i \in Breaks(entries) : Before(entries, i) + 1 \notin acked

\* An entry whose record() returned is missing from the running log only when
\* the attempt right before it did not return; no rotation loses one.
LossFollowsTear ==
    running => \A n \in acked :
        (\A e \in ToSet(entries) : e.n # n) => n - 1 \notin acked
=============================================================================
