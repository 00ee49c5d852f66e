---------------------------- MODULE JournalStore ----------------------------
(***************************************************************************)
(* The storage actor of storage/actor.rs below its commands: the mailbox,  *)
(* JsonStore::commit with its journal segments, checkpoint and manifest,   *)
(* pruning, JsonStore::open with replay, the shutdown checkpoint, command  *)
(* timeouts, a crash between any two writes, and failing writes.           *)
(*                                                                         *)
(* The stored state is abstracted to the sequence of the mutations it has  *)
(* absorbed, so its revision is its length.  A checksum covers its record  *)
(* and the previous checksum, so it is the sequence of the mutations up to *)
(* the record; Zero is the hash of no record.                              *)
(***************************************************************************)
EXTENDS Naturals, SequencesExt

CONSTANTS
    Client,         \* tasks that hold a StorageHandle
    MaxCommand,     \* mutations submitted
    SegmentEvents,  \* JOURNAL_SEGMENT_EVENTS
    MaxSegments,    \* MAX_JOURNAL_SEGMENTS
    Capacity,       \* capacity of the command channel
    MaxCrashes,     \* crashes, shutdowns and failed starts
    MaxIoErrors,    \* failing writes
    AppendLeaves,   \* what a failing append may leave in the file
    None

ASSUME JournalAssumption ==
    /\ {MaxCommand, SegmentEvents, MaxSegments, Capacity} \subseteq Nat \ {0}
    /\ {MaxCrashes, MaxIoErrors} \subseteq Nat
    /\ AppendLeaves \subseteq {"none", "part", "whole"}
    /\ None \notin 1..MaxCommand

Command == 1..MaxCommand

VARIABLES
    mem,        \* JsonStore.state
    head,       \* JsonStore.journal_head_hash
    point,      \* JsonStore.checkpoint_revision and checkpoint_head_hash
    pc,         \* what the storage thread does next
    job,        \* the envelope in hand
    mailbox,    \* the bounded command channel
    waiting,    \* per client, the request whose reply it awaits, or None
    next,       \* next command number
    ckpt,       \* state.json, or None
    manifest,   \* manifest.json, or None
    segs,       \* the journal directory: first sequence -> lines
    durable,    \* lines of the last segment that have reached the disk
    entered,    \* its directory entry has
    acked,      \* mutations answered with Ok
    mine,       \* per client, the mutations it has submitted
    settled,    \* mutations that a later read of their client did not show
    crashes, errors

memory == <<mem, head, point>>
history == <<mine, settled>>
queue == <<mailbox, waiting, next, history>>
files == <<ckpt, manifest, segs, durable, entered>>
faults == <<crashes, errors>>
vars == <<memory, pc, job, queue, files, acked, faults>>

-----------------------------------------------------------------------------
(* Records, segments and replay                                            *)

Zero == <<>>

\* A journal line: a record, a line without its newline, or a line made of an
\* unfinished record and its successor.
Record(hash, c) == [previous |-> hash, sequence |-> Len(hash) + 1, patch |-> c]
Checksum(r) == Append(r.previous, r.patch)
Torn == [torn |-> TRUE]
Garbage == [torn |-> FALSE]
IsRecord(l) == "patch" \in DOMAIN l

SegmentOf(sequence) == ((sequence - 1) \div SegmentEvents) * SegmentEvents + 1

\* append(true) writes behind whatever the file ends with.
Behind(lines, l) ==
    IF lines # <<>> /\ Last(lines) = Torn THEN Append(Front(lines), Garbage)
    ELSE Append(lines, l)

\* read_journal_segment drops a last line that has no newline.
Complete(lines) ==
    IF lines # <<>> /\ Last(lines) = Torn THEN Front(lines) ELSE lines

\* The segments in the order of their first sequence number.
JournalLines(s) ==
    LET upTo[n \in 0..MaxCommand] ==
            IF n = 0 THEN <<>>
            ELSE upTo[n - 1] \o IF n \in DOMAIN s THEN Complete(s[n]) ELSE <<>>
    IN  upTo[MaxCommand]

\* Bug: the record of the checkpoint itself is skipped like the older ones.
ReplayWithoutHead(ck, acc, r) ==
    IF ~acc.ok \/ ~IsRecord(r) THEN [acc EXCEPT !.ok = FALSE]
    ELSE IF r.sequence <= Len(acc.state) THEN acc
    ELSE IF r.sequence # Len(acc.state) + 1 \/ r.previous # acc.head
         THEN [acc EXCEPT !.ok = FALSE]
    ELSE [state |-> Append(acc.state, r.patch), head |-> Checksum(r), ok |-> TRUE]

\* One iteration of replay_journal, for a checkpoint of revision ck.
ReplayRecord(ck, acc, r) ==
    IF ~acc.ok \/ ~IsRecord(r) THEN [acc EXCEPT !.ok = FALSE]
    ELSE IF r.sequence < ck THEN acc
    ELSE IF r.sequence = ck THEN [acc EXCEPT !.head = Checksum(r)]
    ELSE IF r.sequence <= Len(acc.state) THEN acc
    ELSE IF r.sequence # Len(acc.state) + 1 \/ r.previous # acc.head
         THEN [acc EXCEPT !.ok = FALSE]
    ELSE [state |-> Append(acc.state, r.patch), head |-> Checksum(r), ok |-> TRUE]

\* JsonStore::open up to its first write: the state, the head hash, the
\* checkpoint it starts from and whether every check passes.
Opened ==
    LET base == IF ckpt = None THEN <<>> ELSE ckpt
        hash == IF manifest # None /\ manifest.point.revision = Len(base)
                THEN manifest.point.hash ELSE Zero
        lines == JournalLines(segs)
        replay[n \in 0..Len(lines)] ==
            IF n = 0 THEN [state |-> base, head |-> hash, ok |-> TRUE]
            ELSE ReplayRecord(Len(base), replay[n - 1], lines[n])
        r == replay[Len(lines)]
    IN  [state |-> r.state, head |-> r.head,
         point |-> [revision |-> Len(base), hash |-> hash],
         ok |-> /\ r.ok
                /\ Cardinality(DOMAIN segs) <= MaxSegments
                /\ manifest # None =>
                      /\ manifest.revision <= Len(r.state)
                      /\ manifest.revision = Len(r.state) => manifest.head = r.head]

-----------------------------------------------------------------------------
(* Clients                                                                 *)

Init ==
    /\ mem = <<>> /\ head = Zero /\ point = [revision |-> 0, hash |-> Zero]
    /\ pc = "down" /\ job = None
    /\ mailbox = <<>> /\ waiting = [c \in Client |-> None] /\ next = 1
    /\ ckpt = None /\ manifest = None /\ segs = << >>
    /\ durable = 0 /\ entered = TRUE
    /\ acked = {} /\ mine = [c \in Client |-> {}] /\ settled = {}
    /\ crashes = 0 /\ errors = 0

Serving == pc \notin {"down", "openCheckpoint", "openManifest", "refused"}

\* Bug: a command that overtakes the queue.
SubmitFirst(c) ==
    /\ Serving /\ waiting[c] = None /\ Len(mailbox) < Capacity
    /\ \E kind \in {"mutate", "read"} :
        /\ kind = "mutate" => next <= MaxCommand
        /\ LET e == [by |-> c, kind |-> kind, id |-> IF kind = "mutate" THEN next ELSE 0]
           IN  mailbox' = <<e>> \o mailbox /\ waiting' = [waiting EXCEPT ![c] = e]
        /\ IF kind = "mutate"
           THEN next' = next + 1 /\ mine' = [mine EXCEPT ![c] = @ \cup {next}]
           ELSE UNCHANGED <<next, mine>>
    /\ UNCHANGED <<memory, pc, job, files, acked, settled, faults>>

\* StorageHandle::request: reserve a slot, send, then await the reply.
Submit(c) ==
    /\ Serving /\ waiting[c] = None /\ Len(mailbox) < Capacity
    /\ \E kind \in {"mutate", "read"} :
        /\ kind = "mutate" => next <= MaxCommand
        /\ LET e == [by |-> c, kind |-> kind, id |-> IF kind = "mutate" THEN next ELSE 0]
           IN  mailbox' = Append(mailbox, e) /\ waiting' = [waiting EXCEPT ![c] = e]
        /\ IF kind = "mutate"
           THEN next' = next + 1 /\ mine' = [mine EXCEPT ![c] = @ \cup {next}]
           ELSE UNCHANGED <<next, mine>>
    /\ UNCHANGED <<memory, pc, job, files, acked, settled, faults>>

\* STORAGE_COMMAND_TIMEOUT fires while the command is queued or running; the
\* command is not withdrawn.
Timeout(c) ==
    /\ waiting[c] # None
    /\ waiting' = [waiting EXCEPT ![c] = None]
    /\ UNCHANGED <<memory, pc, job, mailbox, next, files, acked, history, faults>>

\* StorageService::shutdown.
Shutdown ==
    /\ Serving /\ crashes < MaxCrashes /\ Len(mailbox) < Capacity
    /\ \A i \in DOMAIN mailbox : mailbox[i].kind # "shutdown"
    /\ mailbox' = Append(mailbox, [by |-> None, kind |-> "shutdown", id |-> 0])
    /\ UNCHANGED <<memory, pc, job, waiting, next, files, acked, history, faults>>

-----------------------------------------------------------------------------
(* The storage thread                                                      *)

\* The reply channel is gone once its client has timed out.
Heard(e) == e.by # None /\ waiting[e.by] = e

Answered(e) == IF Heard(e) THEN [waiting EXCEPT ![e.by] = None] ELSE waiting

\* The command ends with Ok or Err and the thread takes the next one.
ReplyOk ==
    /\ acked' = IF job.kind = "mutate" THEN acked \cup {job.id} ELSE acked
    /\ waiting' = Answered(job) /\ pc' = "idle" /\ job' = None

ReplyErr ==
    /\ waiting' = Answered(job) /\ pc' = "idle" /\ job' = None
    /\ UNCHANGED acked

\* blocking_recv: a mutation starts its commit, the shutdown its checkpoint.
Receive ==
    /\ pc = "idle" /\ mailbox # <<>> /\ Head(mailbox).kind # "read"
    /\ job' = Head(mailbox) /\ mailbox' = Tail(mailbox)
    /\ pc' = IF job'.kind = "mutate" THEN "append" ELSE "checkpoint"
    /\ UNCHANGED <<memory, waiting, next, history, files, acked, faults>>

\* A command that only reads answers at once.
Read ==
    /\ pc = "idle" /\ mailbox # <<>> /\ Head(mailbox).kind = "read"
    /\ LET e == Head(mailbox)
       IN  /\ waiting' = Answered(e)
           /\ settled' = IF Heard(e) THEN settled \cup (mine[e.by] \ Range(mem))
                         ELSE settled
    /\ mailbox' = Tail(mailbox)
    /\ UNCHANGED <<memory, pc, job, next, mine, files, acked, faults>>

\* The mutation returns an error on its copy: nothing has changed.
Refuse ==
    /\ pc = "append" /\ ReplyErr
    /\ UNCHANGED <<memory, mailbox, next, history, files, faults>>

\* append_journal up to write_all.
WriteRecord ==
    /\ pc = "append"
    /\ LET first == SegmentOf(Len(mem) + 1)
           created == first \notin DOMAIN segs
           lines == IF created THEN <<>> ELSE segs[first]
       IN  /\ segs' = (first :> Behind(lines, Record(head, job.id))) @@ segs
           /\ job' = [job EXCEPT !.kind = IF created THEN "create" ELSE "mutate"]
           /\ durable' = IF created THEN 0 ELSE durable
           /\ entered' = IF created THEN FALSE ELSE entered
    /\ pc' = "sync"
    /\ UNCHANGED <<memory, mailbox, waiting, next, ckpt, manifest, acked, history, faults>>

\* Bug: no sync_all.
AdvanceUnsynced ==
    /\ pc = "sync"
    /\ mem' = Append(mem, job.id)
    /\ head' = Checksum(Record(head, job.id))
    /\ job' = [job EXCEPT !.kind = "mutate"]
    /\ pc' = IF Len(mem') % SegmentEvents = 0 THEN "checkpoint" ELSE "manifest"
    /\ UNCHANGED <<point, queue, ckpt, manifest, segs, durable, entered, acked, faults>>

\* sync_all of the file, and of the directory when the segment is new; then
\* the commit point: memory advances.
SyncRecord ==
    /\ pc = "sync"
    /\ durable' = Len(segs[SegmentOf(Len(mem) + 1)])
    /\ entered' = (entered \/ job.kind = "create")
    /\ mem' = Append(mem, job.id)
    /\ head' = Checksum(Record(head, job.id))
    /\ job' = [job EXCEPT !.kind = "mutate"]
    /\ pc' = IF Len(mem') % SegmentEvents = 0 THEN "checkpoint" ELSE "manifest"
    /\ UNCHANGED <<point, queue, ckpt, manifest, segs, acked, faults>>

\* persist: temporary file, rename, directory sync.  A crash before the last
\* step leaves the old file, so one step covers them.
Checkpoint ==
    /\ pc \in {"checkpoint", "openCheckpoint"}
    /\ ckpt' = mem
    /\ IF job # None /\ job.kind = "shutdown"
       THEN /\ pc' = "down" /\ job' = None /\ mailbox' = <<>>
            /\ waiting' = [c \in Client |-> None] /\ mine' = [c \in Client |-> {}]
            /\ settled' = {} /\ crashes' = crashes + 1
            /\ UNCHANGED point
       ELSE /\ point' = [revision |-> Len(mem), hash |-> head]
            /\ pc' = IF pc = "checkpoint" THEN "manifest" ELSE "openManifest"
            /\ UNCHANGED <<job, mailbox, waiting, history, crashes>>
    /\ UNCHANGED <<mem, head, next, manifest, segs, durable, entered, acked, errors>>

\* persist_manifest, after which open and a commit without a checkpoint end.
Manifest ==
    /\ pc \in {"manifest", "openManifest"}
    /\ manifest' = [point |-> point, revision |-> Len(mem), head |-> head]
    /\ \/ /\ pc = "openManifest" /\ pc' = "idle"
          /\ UNCHANGED <<job, waiting, acked>>
       \/ /\ pc = "manifest" /\ Len(mem) % SegmentEvents # 0
          /\ ReplyOk
       \/ /\ pc = "manifest" /\ Len(mem) % SegmentEvents = 0 /\ pc' = "prune"
          /\ UNCHANGED <<job, waiting, acked>>
    /\ UNCHANGED <<memory, mailbox, next, history, ckpt, segs, durable, entered, faults>>

\* prune_checkpointed_segments removes one file after the other.
Prunable ==
    {f \in DOMAIN segs : f + SegmentEvents < point.revision + 1}

\* Bug: the thread goes on looking for files.
PruneForever ==
    /\ pc = "prune" /\ Prunable # {}
    /\ segs' = Restrict(segs, DOMAIN segs \ {Min(Prunable)})
    /\ UNCHANGED <<memory, pc, job, queue, ckpt, manifest, durable, entered, acked, faults>>

Prune ==
    /\ pc = "prune"
    /\ IF Prunable # {} /\ Cardinality(DOMAIN segs) <= MaxSegments
       THEN /\ segs' = Restrict(segs, DOMAIN segs \ {Min(Prunable)})
            /\ UNCHANGED <<pc, job, waiting, acked>>
       ELSE /\ IF Cardinality(DOMAIN segs) <= MaxSegments THEN ReplyOk ELSE ReplyErr
            /\ UNCHANGED segs
    /\ UNCHANGED <<memory, mailbox, next, history, ckpt, manifest, durable, entered, faults>>

-----------------------------------------------------------------------------
(* Failures                                                                *)

\* A failing write of a derived file: the temporary is left behind and the
\* command ends with Err after the commit point; open gives up.
DerivedFails ==
    /\ errors < MaxIoErrors /\ errors' = errors + 1
    /\ \/ /\ pc \in {"checkpoint", "manifest", "prune"} /\ job.kind = "mutate"
          /\ ReplyErr
          /\ UNCHANGED crashes
       \/ /\ pc \in {"openCheckpoint", "openManifest"} /\ crashes < MaxCrashes
          /\ pc' = "down" /\ crashes' = crashes + 1
          /\ UNCHANGED <<job, waiting, acked>>
    /\ UNCHANGED <<memory, mailbox, next, history, files>>

\* open, write_all or a sync fails: none of the record, a part of it or the
\* whole is in the file, and memory does not advance.  A failing open leaves no
\* new segment either.
Left(how, first) ==
    IF how = "none" /\ job.kind = "create" THEN Restrict(segs, DOMAIN segs \ {first})
    ELSE IF how = "none" /\ Last(segs[first]) # Garbage
         THEN [segs EXCEPT ![first] = Front(@)]
    ELSE IF how = "whole" THEN segs
    ELSE [segs EXCEPT ![first] = Append(Front(@), Torn)]

LinesOfLast(s) == IF DOMAIN s = {} THEN 0 ELSE Len(s[Max(DOMAIN s)])

AppendFails ==
    /\ errors < MaxIoErrors /\ errors' = errors + 1
    /\ pc = "sync"
    /\ \E how \in AppendLeaves :
        /\ segs' = Left(how, SegmentOf(Len(mem) + 1))
        /\ IF DOMAIN segs' # DOMAIN segs
           THEN durable' = LinesOfLast(segs') /\ entered' = TRUE
           ELSE UNCHANGED <<durable, entered>>
    /\ ReplyErr
    /\ UNCHANGED <<memory, mailbox, next, history, ckpt, manifest, crashes>>

\* What the last segment may look like after a power failure: its durable
\* lines, any of the others, and a torn one; a segment whose directory entry
\* is not on disk may be gone.
Survivors ==
    IF DOMAIN segs = {} THEN {segs}
    ELSE LET last == Max(DOMAIN segs)
             lines == segs[last]
         IN  {[segs EXCEPT ![last] = SubSeq(lines, 1, n)] : n \in durable..Len(lines)}
             \cup {[segs EXCEPT ![last] = Append(SubSeq(lines, 1, n), Torn)] :
                      n \in durable..(Len(lines) - 1)}
             \cup IF entered THEN {} ELSE {Restrict(segs, DOMAIN segs \ {last})}

Crash ==
    /\ pc \notin {"down", "refused"} /\ crashes < MaxCrashes
    /\ crashes' = crashes + 1
    /\ segs' \in Survivors
    /\ pc' = "down" /\ job' = None /\ mailbox' = <<>>
    /\ waiting' = [c \in Client |-> None] /\ mine' = [c \in Client |-> {}]
    /\ settled' = {}
    /\ UNCHANGED <<memory, next, ckpt, manifest, durable, entered, acked, errors>>

\* Bug: the torn line stays in the file.
OpenKeepsTorn ==
    /\ pc = "down"
    /\ LET o == Opened IN
       IF o.ok
       THEN /\ mem' = o.state /\ head' = o.head /\ point' = o.point
            /\ durable' = LinesOfLast(segs)
            /\ entered' = TRUE
            /\ pc' = IF ckpt = None THEN "openCheckpoint" ELSE "openManifest"
       ELSE pc' = "refused" /\ UNCHANGED <<memory, durable, entered>>
    /\ UNCHANGED <<job, segs, queue, ckpt, manifest, acked, faults>>

\* StorageService::start: replay, and the torn line cut off for good.
Open ==
    /\ pc = "down"
    /\ LET o == Opened IN
       IF o.ok
       THEN /\ mem' = o.state /\ head' = o.head /\ point' = o.point
            /\ segs' = [f \in DOMAIN segs |-> Complete(segs[f])]
            /\ durable' = LinesOfLast(segs')
            /\ entered' = TRUE
            /\ pc' = IF ckpt = None THEN "openCheckpoint" ELSE "openManifest"
       ELSE pc' = "refused" /\ UNCHANGED <<memory, segs, durable, entered>>
    /\ UNCHANGED <<job, queue, ckpt, manifest, acked, faults>>

-----------------------------------------------------------------------------
Thread ==
    \/ Receive \/ Read \/ Refuse \/ WriteRecord \/ SyncRecord
    \/ Checkpoint \/ Manifest \/ Prune \/ Open

Next ==
    \/ \E c \in Client : Submit(c) \/ Timeout(c)
    \/ Thread \/ Shutdown \/ DerivedFails \/ AppendFails \/ Crash

Spec == Init /\ [][Next]_vars /\ WF_vars(Thread)

-----------------------------------------------------------------------------
(* Properties                                                              *)

\* What the store holds: memory while the thread runs, the result of the next
\* open while it does not.
Log == IF pc \in {"down", "refused"} THEN Opened.state ELSE mem

\* A mutation answered with Ok is in the state that every later open yields,
\* whatever the crash left of the journal (commit, append_journal, open).
AckedDurable == acked \subseteq Range(Log)

\* The store opens again after every crash, shutdown and failed write: the
\* hash chain is continuous, the manifest is not ahead of the records and the
\* pruned segments are not missed.  Between two commands the journal on disk
\* replays to exactly the state in memory, failed checkpoints, manifests and
\* prunings included: commit advances the memory at the append and not after
\* the maintenance.
Reopens ==
    /\ pc # "refused"
    /\ pc \in {"idle", "checkpoint", "manifest", "prune"} =>
          LET o == Opened IN o.ok /\ o.state = mem /\ o.head = head

\* A read settles the fate of what its client submitted before, also of the
\* commands that had timed out: what it does not show never happens later.
ReadSettles == settled \cap Range(Log) = {}

Abstract == INSTANCE AtomicStore WITH
    log <- Log,
    pend <- IF pc \in {"append", "sync"} THEN job.id ELSE None

\* Mailbox, journal, checkpoint, manifest, pruning and replay together
\* implement an atomic log: a crash decides the fate of the mutation in hand.
Atomic == Abstract!Spec

\* Every mutation that got a slot in the channel leaves it: the thread, which
\* blocks on nothing but the disk, takes it, or the process ends.
Served ==
    \A id \in Command :
        (\E i \in DOMAIN mailbox : mailbox[i].id = id)
            ~> (\A i \in DOMAIN mailbox : mailbox[i].id # id)
=============================================================================
