------------------------------ MODULE LedgerLog ------------------------------
(***************************************************************************)
(* The accounting ledger on disk: internal/ledger log.go (open, append,    *)
(* close), seal.go (Roll, Compact) and segment.go (the manifest and the    *)
(* repair of an interrupted roll), with the chain checkpoint that          *)
(* app/runtime.go keeps of it in the metadata store.                       *)
(*                                                                         *)
(* A directory maps names to files.  Every rename, create and remove adds  *)
(* a directory state to dirs; a directory sync forgets all but the last;   *)
(* a crash keeps any one of them.  A file keeps its synced records over a  *)
(* crash and any prefix of the others, perhaps with a torn frame behind.   *)
(* A step below ends where the code makes the directory change that a      *)
(* crash can tell from the one before, so a roll is five steps.            *)
(***************************************************************************)
EXTENDS Naturals, Sequences, FiniteSets, Functions, SequencesExt

CONSTANTS
    MaxRecords,   \* bound on the records ever written
    MaxBatch,     \* Options.MaxBatch
    MaxCrashes,   \* bound on crashes and kills
    MaxFaults,    \* bound on failing I/O calls
    Faults,       \* the places where an I/O call may fail
    CompactsWhen, \* the statuses in which a compaction switches the manifest;
                  \* the code asks for none, so its value there is Statuses
    NamesSynced,  \* does syncing a file make its own name durable too?
    DirtyKills    \* may the process be killed, and the machine stay up,
                  \* while the disk lacks something the page cache has?

\* AccountingStatus; nothing reports "degraded".
Statuses == {"healthy", "unavailable", "recovery"}

FaultPoints ==
    {"append", "sync", "intent", "renamed", "created", "committed",
     "copied", "switched", "removed"}

ASSUME BoundsAssumption ==
    /\ MaxRecords \in Nat
    /\ MaxBatch \in Nat \ {0}
    /\ MaxCrashes \in Nat
    /\ MaxFaults \in Nat
    /\ Faults \subseteq FaultPoints
    /\ CompactsWhen \subseteq Statuses
    /\ NamesSynced \in BOOLEAN
    /\ DirtyKills \in BOOLEAN

\* A frame: who it is, and the chain hash it links to (0 at the start).
Record == [id : Nat, prev : Nat]

VARIABLES
    dirs,       \* directory states a crash may leave, the last one current
    files,      \* inode -> [recs, synced, torn]
    phase,      \* down, repairing, open or closed
    status,     \* ledger.Status
    file,       \* Log.file: the open inode, 0 when closed or not running
    segments,   \* Log.segments
    offset,     \* Log.offset: committed records of the active generation
    roll,       \* how far rollLocked is
    compact,    \* how far Compact is: [at, gen]
    checkpoint, \* LedgerChainCheckpoint in the metadata store
    written,    \* records ever written
    acked,      \* records that a caller or a finished open relies on
    crashes,
    faults

disk == <<dirs, files>>
mem == <<phase, status, file, segments, offset>>
counters == <<written, crashes, faults>>
vars == <<disk, mem, roll, compact, checkpoint, acked, counters>>
-----------------------------------------------------------------------------
(* The directory.                                                          *)

dir == Last(dirs)

\* A name in the directory changes.
Named(d) == Append(dirs, d)

\* durable.SyncDirectory.
Synced == <<dir>>

\* File.Sync also makes the file's own name durable, where the file system
\* does that: earlier directories without the name are then impossible.
NameDurable(i) ==
    IF NamesSynced
    THEN LET has == {k \in 1..Len(dirs) : dirs[k].active = i}
         IN  IF has = {} THEN dirs
             ELSE SubSeq(dirs, CHOOSE k \in has : \A m \in has : k <= m, Len(dirs))
    ELSE dirs

Without(f, g) == Restrict(f, DOMAIN f \ {g})
With(f, g, v) == [x \in DOMAIN f \cup {g} |-> IF x = g THEN v ELSE f[x]]

NoManifest == [segs |-> <<>>, pending |-> <<>>]
Manifest(segs, pending) == [segs |-> segs, pending |-> pending]
Segment(recs, compressed) == [recs |-> recs, compressed |-> compressed]

Concat(segs) == FlattenSeq([g \in DOMAIN segs |-> segs[g].recs])

Linked(recs) == \A k \in DOMAIN recs :
                    recs[k].prev = IF k = 1 THEN 0 ELSE recs[k - 1].id

\* resolveSegments: which side of an interrupted roll the directory is on.
Rolled(d) == /\ d.manifest.pending # <<>>
             /\ Len(d.manifest.segs) + 1 \in DOMAIN d.wal

RollReadable(d) ==
    Rolled(d) => LET f == files[d.wal[Len(d.manifest.segs) + 1]]
                 IN  f.recs = d.manifest.pending /\ ~f.torn

resolveSegments(d) ==
    IF Rolled(d)
    THEN Append(d.manifest.segs, Segment(d.manifest.pending, FALSE))
    ELSE d.manifest.segs

\* checkSegmentsPresent when the log is opened, and the replay's comparison of
\* what it reads with the manifest.
SegmentsPresent(d, segs) ==
    \A g \in DOMAIN segs :
        IF segs[g].compressed
        THEN g \in DOMAIN d.gz /\ d.gz[g] = segs[g].recs
        ELSE g \in DOMAIN d.wal /\ files[d.wal[g]].recs = segs[g].recs

\* What the active file holds; opening creates it where it is missing.
ActiveRecs(d) == IF d.active = 0 THEN <<>> ELSE files[d.active].recs

\* What a replay of directory d visits, torn tail cut.
Replayed(d) == Concat(resolveSegments(d)) \o ActiveRecs(d)

\* reconcileLedgerChainCheckpoint.
HeadMatches(log, gen) ==
    /\ checkpoint.count <= Len(log)
    /\ checkpoint.gen <= gen
    /\ (checkpoint.count = Len(log) /\ log # <<>>) => checkpoint.id = Last(log).id

\* Does OpenWithOptions accept directory d, and the startup its chain head?
Opens(d) ==
    LET segs == resolveSegments(d)
    IN  /\ RollReadable(d)
        /\ SegmentsPresent(d, segs)
        /\ Linked(Replayed(d))
        /\ HeadMatches(Replayed(d), Len(segs) + 1)
-----------------------------------------------------------------------------
Idle == [at |-> "idle", gen |-> 0]

TypeOK ==
    /\ dirs # <<>>
    /\ \A k \in 1..Len(dirs) :
        /\ dirs[k].active \in 0..Len(files)
        /\ Range(dirs[k].wal) \subseteq 1..Len(files)
    /\ \A i \in 1..Len(files) :
        /\ files[i].recs \in Seq(Record)
        /\ files[i].synced \in 0..Len(files[i].recs)
        /\ files[i].torn \in BOOLEAN
    /\ phase \in {"down", "repairing", "open", "closed"}
    /\ status \in Statuses
    /\ file \in 0..Len(files)
    /\ file # 0 => offset \in 0..files[file].synced
    /\ roll \in {"idle", "intent", "renamed", "created", "committed"}
    /\ compact.at \in {"idle", "copied", "switched", "removed"}
    /\ checkpoint.count <= written
    /\ acked <= written

\* An empty data directory, and a process that has not opened it yet.
Init ==
    /\ dirs = <<[active |-> 0, wal |-> <<>>, gz |-> <<>>, manifest |-> NoManifest]>>
    /\ files = <<>>
    /\ phase = "down"
    /\ status = "healthy"
    /\ file = 0
    /\ segments = <<>>
    /\ offset = 0
    /\ roll = "idle"
    /\ compact = Idle
    /\ checkpoint = [gen |-> 0, count |-> 0, id |-> 0]
    /\ written = 0
    /\ acked = 0
    /\ crashes = 0
    /\ faults = 0
-----------------------------------------------------------------------------
\* One I/O call of the bounded number fails at this place.
Fails(place) ==
    /\ place \in Faults
    /\ faults < MaxFaults
    /\ faults' = faults + 1
    /\ UNCHANGED <<written, crashes>>

\* Status.advance: the status only ever gets worse.
MarkUnavailable == status' = IF status = "recovery" THEN status ELSE "unavailable"

\* Log.mu: a roll holds it throughout, a compaction from its manifest switch on.
Unlocked == roll = "idle" /\ compact.at \in {"idle", "copied"}

Generation == Len(segments) + 1
Committed == IF file = 0 THEN <<>> ELSE SubSeq(files[file].recs, 1, offset)
ChainHead == Concat(segments) \o Committed

\* n frames that continue the chain.
Frames(n) ==
    [k \in 1..n |->
        [id   |-> written + k,
         prev |-> IF k > 1 THEN written + k - 1
                  ELSE IF ChainHead = <<>> THEN 0 ELSE Last(ChainHead).id]]

CanWrite(n) ==
    /\ phase = "open" /\ Unlocked
    /\ status = "healthy"
    /\ n \in 1..MaxBatch
    /\ written + n <= MaxRecords

\* Mutant: the callers are told before the fsync barrier.
MutWriteBatch(n) ==
    /\ CanWrite(n)
    /\ files' = [files EXCEPT ![file].recs = Committed \o Frames(n)]
    /\ offset' = offset + n
    /\ written' = written + n
    /\ acked' = Len(ChainHead) + n
    /\ UNCHANGED <<dirs, phase, status, file, segments, roll, compact, checkpoint,
                   crashes, faults>>

\* Log.writeBatch: frames, then the fsync barrier, then the callers.
WriteBatch(n) ==
    /\ CanWrite(n)
    /\ LET recs == Committed \o Frames(n)
       IN  files' = [files EXCEPT ![file] =
                         [recs |-> recs, synced |-> Len(recs), torn |-> FALSE]]
    /\ dirs' = NameDurable(file)
    /\ offset' = offset + n
    /\ written' = written + n
    /\ acked' = Len(ChainHead) + n
    /\ UNCHANGED <<phase, status, file, segments, roll, compact, checkpoint,
                   crashes, faults>>

\* The write or its fsync failed with k frames, and perhaps part of the next,
\* in the file.
WriteFails(n, k, torn) ==
    /\ CanWrite(n)
    /\ "append" \in Faults /\ faults < MaxFaults
    /\ k \in 0..n /\ (torn => k < n)
    /\ files' = [files EXCEPT ![file] =
                     [recs   |-> Committed \o SubSeq(Frames(n), 1, k),
                      synced |-> offset, torn |-> torn]]
    /\ MarkUnavailable
    /\ written' = written + n
    /\ faults' = faults + 1
    /\ UNCHANGED <<dirs, phase, file, segments, offset, roll, compact,
                   checkpoint, acked, crashes>>

\* The frames are durable, but the replication hook could not record them: the
\* callers are told of a failure.
AfterDurableFails(n) ==
    /\ CanWrite(n)
    /\ "append" \in Faults /\ faults < MaxFaults
    /\ LET recs == Committed \o Frames(n)
       IN  files' = [files EXCEPT ![file] =
                         [recs |-> recs, synced |-> Len(recs), torn |-> FALSE]]
    /\ dirs' = NameDurable(file)
    /\ offset' = offset + n
    /\ MarkUnavailable
    /\ written' = written + n
    /\ faults' = faults + 1
    /\ UNCHANGED <<phase, file, segments, roll, compact, checkpoint, acked, crashes>>
-----------------------------------------------------------------------------
(* Log.Roll.                                                               *)

CanRoll ==
    /\ phase = "open" /\ Unlocked
    /\ status = "healthy"
    /\ offset > 0

\* A clean tail, and the rolled name still free.
Sealable ==
    /\ dir.active # 0
    /\ files[dir.active].recs = Committed /\ ~files[dir.active].torn
    /\ Generation \notin DOMAIN dir.wal

\* Mutant: the manifest is written without the intent.
MutRollIntent ==
    /\ CanRoll /\ Sealable
    /\ dirs' = Append(NameDurable(file), [dir EXCEPT !.manifest = Manifest(segments, <<>>)])
    /\ roll' = "intent"
    /\ UNCHANGED <<files, mem, compact, checkpoint, acked, counters>>

\* The active file is synced and the intent goes into the manifest.
RollIntent ==
    /\ CanRoll /\ Sealable
    /\ dirs' = Append(NameDurable(file),
                   [dir EXCEPT !.manifest = Manifest(segments, Committed)])
    /\ roll' = "intent"
    /\ UNCHANGED <<files, mem, compact, checkpoint, acked, counters>>

RollSyncFails ==
    /\ CanRoll
    /\ Fails("sync")
    /\ MarkUnavailable
    /\ UNCHANGED <<disk, phase, file, segments, offset, roll, compact,
                   checkpoint, acked>>

\* The intent is durable: the active file moves aside.
RollRename ==
    /\ roll = "intent"
    /\ dirs' = Append(Synced,
                   [dir EXCEPT !.wal = With(@, Generation, dir.active), !.active = 0])
    /\ roll' = "renamed"
    /\ UNCHANGED <<files, mem, compact, checkpoint, acked, counters>>

\* The rename is durable: the successor is created.
RollCreate ==
    /\ roll = "renamed"
    /\ dir.active = 0
    /\ files' = Append(files, [recs |-> <<>>, synced |-> 0, torn |-> FALSE])
    /\ dirs' = Append(Synced, [dir EXCEPT !.active = Len(files) + 1])
    /\ roll' = "created"
    /\ UNCHANGED <<mem, compact, checkpoint, acked, counters>>

\* The successor is durable: the manifest names the sealed generation.
RollCommit ==
    /\ roll = "created"
    /\ dirs' = Append(Synced,
                   [dir EXCEPT !.manifest =
                       Manifest(Append(segments, Segment(Committed, FALSE)), <<>>)])
    /\ roll' = "committed"
    /\ UNCHANGED <<files, mem, compact, checkpoint, acked, counters>>

\* The manifest is durable: the log writes into the successor from now on.
RollDone ==
    /\ roll = "committed"
    /\ dirs' = Synced
    /\ segments' = Append(segments, Segment(Committed, FALSE))
    /\ file' = dir.active
    /\ offset' = 0
    /\ roll' = "idle"
    /\ UNCHANGED <<files, phase, status, compact, checkpoint, acked, counters>>

\* Mutant: a roll that fails past its rename leaves the log writable.
MutRollFails(synced) ==
    /\ roll # "idle"
    /\ Fails(roll)
    /\ synced => roll # "committed"
    /\ dirs' = IF synced THEN Synced ELSE dirs
    /\ roll' = "idle"
    /\ UNCHANGED <<files, mem, compact, checkpoint, acked>>

\* The sync that ends a step failed, or the change after it did.  Past the
\* rename the log is not writable any more.
RollFails(synced) ==
    /\ roll # "idle"
    /\ Fails(roll)
    /\ synced => roll # "committed"
    /\ dirs' = IF synced THEN Synced ELSE dirs
    /\ roll' = "idle"
    /\ IF roll = "intent" THEN UNCHANGED status ELSE MarkUnavailable
    /\ UNCHANGED <<files, phase, file, segments, offset, compact, checkpoint, acked>>
-----------------------------------------------------------------------------
(* Log.Compact: compressed with the mutex released, switched under it.     *)

\* Mutant: the plain file goes as soon as its copy is there.
MutCompactCopy(g) ==
    /\ phase = "open" /\ Unlocked
    /\ compact = Idle
    /\ g \in DOMAIN segments /\ ~segments[g].compressed
    /\ g \in DOMAIN dir.wal
    /\ dirs' = Named([dir EXCEPT !.gz = With(@, g, files[dir.wal[g]].recs),
                                !.wal = Without(@, g)])
    /\ compact' = [at |-> "copied", gen |-> g]
    /\ UNCHANGED <<files, mem, roll, checkpoint, acked, counters>>

CompactCopy(g) ==
    /\ phase = "open" /\ Unlocked
    /\ compact = Idle
    /\ g \in DOMAIN segments /\ ~segments[g].compressed
    /\ g \in DOMAIN dir.wal
    /\ dirs' = Named([dir EXCEPT !.gz = With(@, g, files[dir.wal[g]].recs)])
    /\ compact' = [at |-> "copied", gen |-> g]
    /\ UNCHANGED <<files, mem, roll, checkpoint, acked, counters>>

Compressed(g) == [segments EXCEPT ![g].compressed = TRUE]

\* The manifest switch is the commit point.  It carries no roll intent.
CompactSwitch ==
    /\ phase = "open" /\ roll = "idle"
    /\ compact.at = "copied"
    /\ status \in CompactsWhen
    /\ dirs' = Append(Synced,
                   [dir EXCEPT !.manifest = Manifest(Compressed(compact.gen), <<>>)])
    /\ compact' = [compact EXCEPT !.at = "switched"]
    /\ UNCHANGED <<files, mem, roll, checkpoint, acked, counters>>

\* The switch is durable: the plain file goes.
CompactRemove ==
    /\ compact.at = "switched"
    /\ dirs' = Append(Synced, [dir EXCEPT !.wal = Without(@, compact.gen)])
    /\ segments' = Compressed(compact.gen)
    /\ compact' = [compact EXCEPT !.at = "removed"]
    /\ UNCHANGED <<files, phase, status, file, offset, roll, checkpoint, acked,
                   counters>>

CompactDone ==
    /\ compact.at = "removed"
    /\ dirs' = Synced
    /\ compact' = Idle
    /\ UNCHANGED <<files, mem, roll, checkpoint, acked, counters>>

WithoutCopy == [dir EXCEPT !.gz = Without(@, compact.gen)]

\* The log was closed meanwhile: the copy is an orphan.
CompactClosed ==
    /\ phase = "closed"
    /\ compact.at = "copied"
    /\ dirs' = Named(WithoutCopy)
    /\ compact' = Idle
    /\ UNCHANGED <<files, mem, roll, checkpoint, acked, counters>>

\* The copy's directory sync failed and leaves the copy, or the manifest could
\* not be saved and the copy is removed.  A save whose last sync failed has
\* already put the new manifest in place.
CompactFails ==
    /\ phase = "open" /\ roll = "idle"
    /\ compact.at \in {"copied", "switched"}
    /\ Fails(compact.at)
    /\ dirs' \in IF compact.at = "copied" THEN {dirs, Append(Synced, WithoutCopy)}
                ELSE {Named(WithoutCopy)}
    /\ compact' = Idle
    /\ UNCHANGED <<files, mem, roll, checkpoint, acked>>

\* The plain file could not be removed, or its removal not be synced.
CompactRemoveFails ==
    /\ Fails("removed")
    /\ \/ /\ compact.at = "switched"
          /\ dirs' = Synced
          /\ segments' = Compressed(compact.gen)
       \/ /\ compact.at = "removed"
          /\ UNCHANGED <<dirs, segments>>
    /\ compact' = Idle
    /\ UNCHANGED <<files, phase, status, file, offset, roll, checkpoint, acked>>
-----------------------------------------------------------------------------
(* The checkpoint of the chain head in the metadata store, at the startup  *)
(* and on its ticker.                                                      *)

AdvanceCheckpoint ==
    /\ phase = "open" /\ Unlocked
    /\ ChainHead # <<>>
    /\ checkpoint.count <= Len(ChainHead)
    /\ checkpoint.count < Len(ChainHead) \/ checkpoint.gen < Generation
    /\ checkpoint' = [gen |-> Generation, count |-> Len(ChainHead),
                      id |-> Last(ChainHead).id]
    /\ UNCHANGED <<disk, mem, roll, compact, acked, counters>>
-----------------------------------------------------------------------------
(* Open, close, crash.                                                     *)

\* repairSegments: an interrupted roll is finished or abandoned.
Repair ==
    /\ phase = "down"
    /\ dir.manifest.pending # <<>>
    /\ RollReadable(dir)
    /\ dirs' = Named([dir EXCEPT !.manifest = Manifest(resolveSegments(dir), <<>>)])
    /\ phase' = "repairing"
    /\ UNCHANGED <<files, status, file, segments, offset, roll, compact,
                   checkpoint, acked, counters>>

\* The repaired manifest is durable.
RepairedDirs == IF phase = "repairing" THEN Synced ELSE dirs

\* OpenWithOptions and the startup's look at the checkpoint.  A torn tail is
\* cut and the cut synced; a whole tail is taken as it is.
Open ==
    /\ phase = "repairing" \/ (phase = "down" /\ dir.manifest.pending = <<>>)
    /\ Opens(dir)
    /\ LET missing == dir.active = 0
           i == IF missing THEN Len(files) + 1 ELSE dir.active
       IN  /\ IF missing
              THEN /\ files' = Append(files, [recs |-> <<>>, synced |-> 0, torn |-> FALSE])
                   /\ dirs' = Append(RepairedDirs, [dir EXCEPT !.active = i])
              ELSE /\ files' = IF files[i].torn
                               THEN [files EXCEPT ![i].torn = FALSE,
                                                  ![i].synced = Len(files[i].recs)]
                               ELSE files
                   /\ dirs' = IF files[i].torn /\ phase = "down"
                              THEN NameDurable(i) ELSE RepairedDirs
           /\ file' = i
           /\ offset' = Len(ActiveRecs(dir))
    /\ segments' = dir.manifest.segs
    /\ acked' = Len(Replayed(dir))
    /\ phase' = "open"
    /\ status' = "healthy"
    /\ UNCHANGED <<roll, compact, checkpoint, counters>>

Close ==
    /\ phase = "open" /\ Unlocked
    /\ phase' = "closed"
    /\ file' = 0
    /\ UNCHANGED <<disk, status, segments, offset, roll, compact, checkpoint,
                   acked, counters>>

\* The memory of the process is gone.
Exit ==
    /\ crashes < MaxCrashes
    /\ crashes' = crashes + 1
    /\ phase' = "down"
    /\ status' = "healthy"
    /\ file' = 0
    /\ segments' = <<>>
    /\ offset' = 0
    /\ roll' = "idle"
    /\ compact' = Idle
    /\ UNCHANGED <<checkpoint, acked, written, faults>>

AllSynced ==
    /\ dirs = Synced
    /\ \A i \in DOMAIN files : files[i].synced = Len(files[i].recs)

\* The process is gone, the page cache is not.
Kill ==
    /\ phase # "down"
    /\ DirtyKills \/ AllSynced
    /\ Exit
    /\ UNCHANGED disk

\* The machine goes down: k is the directory that survives, n the records that
\* were not synced and are lost.
Crash(k, n, torn) ==
    /\ Exit
    /\ dirs' = <<dirs[k]>>
    /\ files' = [i \in DOMAIN files |->
            LET f == files[i]
                kept == IF f.synced + n > Len(f.recs) THEN f.synced
                        ELSE Len(f.recs) - n
            IN  [recs |-> SubSeq(f.recs, 1, kept), synced |-> kept,
                 torn |-> torn /\ (f.torn \/ kept < Len(f.recs))]]

\* A closed log may stay closed.
Terminated == phase = "closed" /\ compact = Idle /\ UNCHANGED vars

Next ==
    \/ \E n \in 1..MaxBatch : WriteBatch(n) \/ AfterDurableFails(n)
    \/ \E n \in 1..MaxBatch, k \in 0..MaxBatch, torn \in BOOLEAN : WriteFails(n, k, torn)
    \/ RollIntent \/ RollSyncFails \/ RollRename \/ RollCreate \/ RollCommit \/ RollDone
    \/ \E synced \in BOOLEAN : RollFails(synced)
    \/ \E g \in DOMAIN segments : CompactCopy(g)
    \/ CompactSwitch \/ CompactRemove \/ CompactDone \/ CompactClosed
    \/ CompactFails \/ CompactRemoveFails
    \/ AdvanceCheckpoint
    \/ Repair \/ Open \/ Close
    \/ Kill
    \/ \E k \in DOMAIN dirs, n \in 0..MaxBatch, torn \in BOOLEAN : Crash(k, n, torn)
    \/ Terminated

Spec == Init /\ [][Next]_vars
-----------------------------------------------------------------------------
(* Properties.                                                             *)

\* Whatever directory a crash leaves, in the middle of a roll, a compaction or
\* a repair, the next open accepts it: no intent without its file, no sealed
\* generation without its bytes, no break in the chain, and no head behind the
\* checkpoint (seal.go, segment.go, reconcileLedgerChainCheckpoint).
Openable == \A k \in DOMAIN dirs : Opens(dirs[k])

\* A running log finds every generation it believes sealed on disk, also while
\* a compaction swaps one file for the other, and while it is writable its
\* memory and the disk agree on the history (Log.Replay, Log.Segments).
MemoryAgrees ==
    phase = "open" =>
        /\ SegmentsPresent(dir, segments)
        /\ status = "healthy" => Replayed(dir) = ChainHead

\* Rolling, sealing, compressing and repairing are invisible: to its callers
\* the directory of files is one durable log.
Abstract == INSTANCE DurableLog WITH log <- Replayed(dir)
Implements == Abstract!Spec
=============================================================================
