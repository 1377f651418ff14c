---------------------------- MODULE PartitionFile ----------------------------
(***************************************************************************)
(* One partition file and everybody who rewrites it: merge_into_file and   *)
(* stamp_floor over write_atomic, step by step on a file system, with      *)
(* failing writes, killed processes and power losses in between.           *)
(*                                                                         *)
(* SeriesWalk merges into a file in one step.  This module says when it    *)
(* may: which of the writers there can be at a time, and what the disk     *)
(* must not do.                                                            *)
(***************************************************************************)
EXTENDS Integers

CONSTANTS
    Writer,      \* tasks that rewrite this partition, one operation after another
    Process,     \* processes they run in
    ProcessOf,   \* writer -> its process, whose id is part of the tmp name
    Inode,       \* bound on the files that exist at a time
    Bar,         \* bars of the partition
    Value,       \* what the exchange may say about a bar
    Floor,       \* history floors
    SyncMayFail, \* whether an fsync may fail; write_atomic ignores it
    Absent       \* Option::None, and no such directory entry

ASSUME FileAssumption ==
    /\ ProcessOf \in [Writer -> Process]
    /\ Floor \subseteq Int
    /\ SyncMayFail \in BOOLEAN
    /\ Absent \notin Floor /\ Absent \notin Inode

Rows == UNION {[S -> Value] : S \in SUBSET Bar}
NoRows == [b \in {} |-> Absent]

\* What an inode holds; a file that is not whole cannot be parsed.
Content == [rows : Rows, floor : Floor \cup {Absent}, whole : BOOLEAN]
Torn == [rows |-> NoRows, floor |-> Absent, whole |-> FALSE]

VARIABLES
    path,    \* inode under the partition's name
    tmp,     \* process -> inode under `{name}.{pid}.tmp`
    content, \* inode -> what a reader finds in it
    synced,  \* inodes whose content is on the platter
    onDisk,  \* what the partition's directory entry was when last synced
    op,      \* writer -> the operation it is in
    acked    \* history: bars of merges that rewrote the file and returned Ok

fileVars == <<path, tmp, content, synced, onDisk, op, acked>>

-----------------------------------------------------------------------------
(* Values *)

DeeperOrZero(a, b) ==
    LET z(x) == IF x = Absent THEN 0 ELSE x IN IF z(a) <= z(b) THEN z(a) ELSE z(b)

\* The older of two recorded floors, None being no claim.
Deeper(a, b) == CASE a = Absent -> b
                  [] b = Absent -> a
                  [] OTHER    -> IF a <= b THEN a ELSE b

\* merge_sorted: the union of both, the fresh bar winning a tie.
Merged(old, fresh) ==
    [b \in DOMAIN old \cup DOMAIN fresh |->
        IF b \in DOMAIN fresh THEN fresh[b] ELSE old[b]]

Idle == [pc |-> "idle", stamp |-> FALSE, fresh |-> NoRows, floor |-> Absent,
         rows |-> NoRows, inode |-> Absent, alone |-> TRUE]

FileInit ==
    /\ path = Absent
    /\ tmp = [p \in Process |-> Absent]
    /\ content = [i \in Inode |-> Torn]
    /\ synced = {}
    /\ onDisk = Absent
    /\ op = [w \in Writer |-> Idle]
    /\ acked = {}

\* What somebody opening the partition finds; no file reads as no rows.
Visible == IF path = Absent
             THEN [rows |-> NoRows, floor |-> Absent, whole |-> TRUE]
             ELSE content[path]

At(w, pc) == op[w].pc = pc
Goes(w, pc) == op' = [op EXCEPT ![w].pc = pc]
Fails(w) == op' = [op EXCEPT ![w] = Idle]
Tmp(w) == tmp[ProcessOf[w]]

-----------------------------------------------------------------------------
(* merge_into_file and stamp_floor: reading *)

\* read_candles, and the comparison that leaves an unchanged file alone.
BeginMerge(w, fresh, floor) ==
    /\ At(w, "idle")
    /\ Visible.whole
    /\ LET rows == Merged(Visible.rows, fresh)
       IN IF rows = Visible.rows
            THEN UNCHANGED op
            ELSE op' = [op EXCEPT ![w] =
                           [Idle EXCEPT !.pc = "read", !.fresh = fresh,
                                        !.floor = floor, !.rows = rows]]
    /\ UNCHANGED <<path, tmp, content, synced, onDisk, acked>>

ReadFloorForgotten(w) ==
    /\ At(w, "read") /\ ~op[w].stamp
    /\ Goes(w, "ready")
    /\ UNCHANGED <<path, tmp, content, synced, onDisk, acked>>

\* existing_floor opens the file a second time.
ReadFloor(w) ==
    /\ At(w, "read") /\ ~op[w].stamp
    /\ Visible.whole
    /\ op' = [op EXCEPT ![w].pc = "ready",
                        ![w].floor = Deeper(Visible.floor, op[w].floor)]
    /\ UNCHANGED <<path, tmp, content, synced, onDisk, acked>>

\* stamp_floor: scan the footer, and only then read the rows.
BeginStamp(w, floor) ==
    /\ At(w, "idle")
    /\ path # Absent /\ Visible.whole
    /\ Visible.floor # floor
    /\ op' = [op EXCEPT ![w] =
                 [Idle EXCEPT !.pc = "read", !.stamp = TRUE, !.floor = floor]]
    /\ UNCHANGED <<path, tmp, content, synced, onDisk, acked>>

ReadRows(w) ==
    /\ At(w, "read") /\ op[w].stamp
    /\ Visible.whole
    /\ op' = [op EXCEPT ![w].pc = "ready", ![w].rows = Visible.rows]
    /\ UNCHANGED <<path, tmp, content, synced, onDisk, acked>>

\* The partition cannot be opened or parsed.
ReadFails(w) ==
    /\ At(w, "read")
    /\ Fails(w)
    /\ UNCHANGED <<path, tmp, content, synced, onDisk, acked>>

-----------------------------------------------------------------------------
(* write_atomic *)

Used == {path, onDisk} \cup {tmp[p] : p \in Process}
            \cup {op[w].inode : w \in Writer}

\* The system drops an inode that no name and no open file leads to.
Collected(c) == content' = [i \in Inode |-> IF i \in Used' THEN c[i] ELSE Torn]


\* File::create truncates a tmp file that is already there.  Whoever else has
\* it open goes on writing into the same inode.
Open(w) ==
    /\ At(w, "ready")
    /\ \E i \in Inode :
         /\ IF Tmp(w) = Absent THEN i \notin Used ELSE i = Tmp(w)
         /\ content' = [content EXCEPT ![i] = Torn]
         /\ synced' = synced \ {i}
         /\ tmp' = [tmp EXCEPT ![ProcessOf[w]] = i]
         /\ LET others == {v \in Writer \ {w} : op[v].inode = i}
            IN op' = [v \in Writer |->
                  CASE v = w        -> [op[w] EXCEPT !.pc = "open", !.inode = i,
                                                     !.alone = (others = {})]
                    [] v \in others -> [op[v] EXCEPT !.alone = FALSE]
                    [] OTHER        -> op[v]]
    /\ UNCHANGED <<path, onDisk, acked>>

\* ArrowWriter::close; two writers in one inode may leave anything there.
Write(w) ==
    /\ At(w, "open")
    /\ \E whole \in IF op[w].alone THEN {TRUE} ELSE BOOLEAN :
         content' = [content EXCEPT ![op[w].inode] =
                       IF whole THEN [rows |-> op[w].rows, floor |-> op[w].floor,
                                      whole |-> TRUE]
                       ELSE Torn]
    /\ synced' = synced \ {op[w].inode}
    /\ op' = [op EXCEPT ![w].pc = "written", ![w].inode = Absent,
                        ![w].rows = NoRows]
    /\ UNCHANGED <<path, tmp, onDisk, acked>>

\* No tmp file, or a full disk: then it stays behind, half written.
WriteFails(w) ==
    /\ At(w, "ready") \/ At(w, "open")
    /\ Fails(w)
    /\ UNCHANGED <<path, tmp, content, synced, onDisk, acked>>

SyncNothing(w) ==
    /\ At(w, "written")
    /\ Goes(w, "synced")
    /\ UNCHANGED <<path, tmp, content, synced, onDisk, acked>>

\* The tmp file is opened by its name, and errors are dropped.
Sync(w) ==
    /\ At(w, "written")
    /\ \E ok \in IF SyncMayFail THEN BOOLEAN ELSE {TRUE} :
         synced' = IF ok /\ Tmp(w) # Absent THEN synced \cup {Tmp(w)} ELSE synced
    /\ Goes(w, "synced")
    /\ UNCHANGED <<path, tmp, content, onDisk, acked>>

Rename(w) ==
    /\ At(w, "synced")
    /\ Tmp(w) # Absent
    /\ path' = Tmp(w)
    /\ tmp' = [tmp EXCEPT ![ProcessOf[w]] = Absent]
    /\ Goes(w, "renamed")
    /\ UNCHANGED <<content, synced, onDisk, acked>>

\* An I/O error, or no tmp file any more.  What is there under its name goes.
RenameFails(w) ==
    /\ At(w, "synced")
    /\ tmp' = [tmp EXCEPT ![ProcessOf[w]] = Absent]
    /\ Fails(w)
    /\ UNCHANGED <<path, synced, onDisk, acked>>
    /\ Collected(content)

AckUnsynced(w) ==
    /\ At(w, "renamed")
    /\ acked' = acked \cup DOMAIN op[w].fresh
    /\ Fails(w)
    /\ UNCHANGED <<path, tmp, content, synced, onDisk>>

\* sync_dir, the errors of which are dropped as well, and the return of Ok.
SyncDir(w) ==
    /\ At(w, "renamed")
    /\ \E ok \in IF SyncMayFail THEN BOOLEAN ELSE {TRUE} :
         onDisk' = IF ok THEN path ELSE onDisk
    /\ acked' = acked \cup DOMAIN op[w].fresh
    /\ Fails(w)
    /\ UNCHANGED <<path, tmp, synced>>
    /\ Collected(content)

-----------------------------------------------------------------------------
(* Crashes *)

\* A killed process leaves its tmp file to whoever gets its id next.
Kill(p) ==
    /\ \E w \in Writer : ProcessOf[w] = p /\ ~At(w, "idle")
    /\ op' = [w \in Writer |-> IF ProcessOf[w] = p THEN Idle ELSE op[w]]
    /\ UNCHANGED <<path, tmp, content, synced, onDisk, acked>>

\* Of what was not synced, anything may be gone.  (A tmp file that survives
\* makes no difference: Open truncates it.)
PowerLoss ==
    /\ op' = [w \in Writer |-> Idle]
    /\ path' \in {path, onDisk}
    /\ onDisk' = path'
    /\ tmp' = [p \in Process |-> Absent]
    /\ \E lost \in SUBSET (Inode \ synced) :
         Collected([i \in Inode |-> IF i \in lost THEN Torn ELSE content[i]])
    /\ synced' = Inode
    /\ UNCHANGED acked

WriterStep(w) ==
    \/ \E fresh \in Rows \ {NoRows}, floor \in Floor \cup {Absent} :
          BeginMerge(w, fresh, floor)
    \/ \E floor \in Floor : BeginStamp(w, floor)
    \/ ReadFloor(w) \/ ReadRows(w) \/ ReadFails(w)
    \/ Open(w) \/ Write(w) \/ WriteFails(w) \/ Sync(w)
    \/ Rename(w) \/ RenameFails(w) \/ SyncDir(w)

FileNext ==
    \/ \E w \in Writer : WriterStep(w)
    \/ \E p \in Process : Kill(p)
    \/ PowerLoss

FileSpec == FileInit /\ [][FileNext]_fileVars

-----------------------------------------------------------------------------
(* Properties *)

Op == [pc : {"idle", "read", "ready", "open", "written", "synced", "renamed"},
        stamp : BOOLEAN, fresh : Rows, floor : Floor \cup {Absent}, rows : Rows,
        inode : Inode \cup {Absent}, alone : BOOLEAN]

\* The type invariant: the names, the inodes and the locals of the writers.
FileTypeOK ==
    /\ path \in Inode \cup {Absent}
    /\ tmp \in [Process -> Inode \cup {Absent}]
    /\ content \in [Inode -> Content]
    /\ synced \subseteq Inode
    /\ onDisk \in Inode \cup {Absent}
    /\ op \in [Writer -> Op]
    /\ acked \subseteq Bar

\* No reader ever finds half a file under the partition's name, however many
\* writers there are, where they stop, and what a power loss takes.
WholeFile == path # Absent => content[path].whole

\* What a merge that rewrote the file and returned Ok brought in stays in the
\* file, through kills and power losses and later rewrites.
AckedIsStored == Visible.whole => acked \subseteq DOMAIN Visible.rows

\* What becomes visible is the operation applied to what was visible just
\* before, not to what was visible when the writer read it.
Applied(j, old) ==
    IF j.stamp THEN [old EXCEPT !.floor = j.floor]
    ELSE [rows  |-> [b \in DOMAIN old.rows \cup DOMAIN j.fresh |->
                       IF b \in DOMAIN j.fresh THEN j.fresh[b] ELSE old.rows[b]],
          floor |-> IF old.floor # Absent /\ (j.floor = Absent \/ old.floor < j.floor)
                      THEN old.floor ELSE j.floor,
          whole |-> TRUE]
RewritesWhatIsThere ==
    [][\A w \in Writer : Rename(w) => Visible' = Applied(op[w], Visible)]_fileVars

-----------------------------------------------------------------------------
(* Why they hold *)

\* Every writer has a tmp name of its own, and the disk does what it is told.
OwnTmp == \A v, w \in Writer : ProcessOf[v] = ProcessOf[w] => v = w
SafeDisk == ~SyncMayFail

\* What is under the name, or comes back under it after a power loss, is safe.
Safe(i) == i # Absent => i \in synced /\ content[i].whole

\* A tmp file is nobody else's, and not the partition file.
TmpApart ==
    \A p \in Process : tmp[p] # Absent =>
        /\ tmp[p] \notin {path, onDisk}
        /\ \A q \in Process : tmp[q] = tmp[p] => q = p

\* A writer has its own tmp file open, and brings it to the disk by stages.
Stage(w) ==
    /\ IF At(w, "open") THEN op[w].inode = Tmp(w) /\ Tmp(w) # Absent /\ op[w].alone
                        ELSE op[w].inode = Absent
    /\ op[w].pc \in {"written", "synced"} => Tmp(w) # Absent /\ content[Tmp(w)].whole
    /\ At(w, "synced") => Tmp(w) \in synced
Stages == \A w \in Writer : Stage(w)

FileInv == Safe(path) /\ Safe(onDisk) /\ TmpApart /\ Stages

\* A single writer's next file is its operation applied to the current one, and
\* what it was told is written is also where a power loss goes back to.
OnlyWriter == \A v, w \in Writer : v = w
Carry(w) ==
    /\ At(w, "read") /\ ~op[w].stamp =>
           op[w].rows = Merged(Visible.rows, op[w].fresh)
    /\ op[w].pc \in {"ready", "open"} =>
           [rows |-> op[w].rows, floor |-> op[w].floor, whole |-> TRUE]
               = Applied(op[w], Visible)
    /\ op[w].pc \in {"written", "synced"} =>
           content[Tmp(w)] = Applied(op[w], Visible)
    /\ At(w, "renamed") => DOMAIN op[w].fresh \subseteq DOMAIN Visible.rows
    /\ op[w].stamp => op[w].fresh = NoRows
Carries == \A w \in Writer : Carry(w)

AckedOnDisk ==
    /\ acked \subseteq DOMAIN Visible.rows
    /\ acked # {} => onDisk # Absent /\ acked \subseteq DOMAIN content[onDisk].rows

MergeInv == Carries /\ AckedOnDisk
=============================================================================
