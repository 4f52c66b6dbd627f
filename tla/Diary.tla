--------------------------------- MODULE Diary ---------------------------------
(***************************************************************************)
(* The world's diary on disk (kernel/ledger.py), the rolling checkpoint it  *)
(* names (runtime/sidecar.py), the head that caches its authentication, and *)
(* the witness files where a kill is recorded outside it                    *)
(* (runtime/witness.py), through writes that fail or are torn, crashes,     *)
(* resumes, kills, and a backup put back in the diary's place.              *)
(*                                                                          *)
(* A line is what one append wrote: the hash of an item is its identity     *)
(* `id`, and `seq` and `prev` are the chain metadata the scan checks.       *)
(* LedgerLock admits one process at a time: `pc` is what its holder does    *)
(* next, and "down" when nobody holds it; a refused process changes nothing.*)
(***************************************************************************)
EXTENDS Integers, Sequences

CONSTANTS
    MaxWrites,      \* bound: items and checkpoints ever written
    MaxFaults,      \* bound: writes that fail, to the diary or to a witness file
    MaxBackups      \* bound: copies of the diary's directory ever taken

ASSUME DiaryAssumption == MaxWrites \in Nat /\ MaxFaults \in Nat /\ MaxBackups \in Nat

(* The witness file named from the diary's stem, and the identity-keyed one. *)
Files == {"stem", "keyed"}

VARIABLES
    \* On disk, beside each other.
    lines,          \* the complete lines after the header
    torn,           \* an unterminated line follows them
    headFile,       \* what the .head file authenticates: a prefix of the lines
    states,         \* the checkpoints kept, by name
    \* On disk, elsewhere.
    witness,        \* file |-> [found : it holds a kill line, torn : it ends in a part of one]
    backups,        \* copies of the diary's directory
    \* In the process that holds the lock.
    pc,
    mem,            \* how many items it wrote or read, the hash of the last
    staged,         \* the checkpoint written and not yet named
    \* Of the world.
    owed,           \* its manifest precommitted a wind-down
    fresh,          \* the next identity
    \* History variables.
    faults, lapses, \* writes that failed so far, and those to a witness file
    sealed,         \* a terminal event was written, or tried, on this diary
    killed          \* a kill has run to its end

disk == <<lines, torn, headFile, states>>
process == <<pc, mem, staged>>
history == <<faults, lapses, sealed, killed>>
dvars == <<disk, witness, backups, process, owed, fresh, history>>

-------------------------------------------------------------------------------
(* Lines and what a reader makes of them. *)

NoMemory == [count |-> 0, head |-> 0]
Item(m, kind, names) ==
    [id |-> fresh, seq |-> m.count, prev |-> m.head, kind |-> kind, names |-> names]

(* A line appended behind a torn one is one unreadable line with it. *)
Garbage == [id |-> 0, seq |-> -1, prev |-> 0, kind |-> "garbage", names |-> 0]

HashAt(s, n) == IF n = 0 THEN 0 ELSE s[n].id
Links(s, n) == s[n].kind # "garbage" /\ s[n].seq = n - 1 /\ s[n].prev = HashAt(s, n - 1)
Authentic(s) == \A n \in 1 .. Len(s) : Links(s, n)

Holds(s, kind) == \E n \in 1 .. Len(s) : s[n].kind = kind

(* The last snapshot item; a resume replays what follows it. *)
Snapshots == {n \in 1 .. Len(lines) : lines[n].kind = "snapshot"}
LastSnapshot == CHOOSE n \in Snapshots : \A m \in Snapshots : m <= n
InTail(kind) == \E n \in 1 .. Len(lines) : /\ lines[n].kind = kind
                                            /\ \A m \in Snapshots : m < n

(* healthy: the size and the last line on disk are what this process wrote. *)
Healthy == ~torn /\ Len(lines) = mem.count

-------------------------------------------------------------------------------
DiaryInit ==
    /\ lines = <<>> /\ torn = FALSE /\ headFile = <<>> /\ states = {}
    /\ witness = [f \in Files |-> [found |-> FALSE, torn |-> FALSE]] /\ backups = <<>>
    /\ pc = "live" /\ mem = NoMemory /\ staged = 0
    /\ owed \in BOOLEAN /\ fresh = 1
    /\ faults = 0 /\ lapses = 0 /\ sealed = FALSE /\ killed = FALSE

(* _append by a process with memory m, behind the torn tail when there is one: *)
(* every byte reaches the disk and the process goes on to `next`, or the write *)
(* raises after none, some or all of them and it goes on to `failed` without   *)
(* having counted the item.                                                    *)
Write(m, kind, names, tail, next, failed) ==
    LET landed == IF tail THEN Garbage ELSE Item(m, kind, names)
    IN  /\ fresh <= MaxWrites /\ fresh' = fresh + 1
        /\ \/ /\ lines' = Append(lines, landed) /\ torn' = FALSE
              /\ pc' = next
              /\ mem' = IF next = "down" THEN NoMemory
                        ELSE [count |-> m.count + 1, head |-> fresh]
              /\ UNCHANGED faults
           \/ /\ faults < MaxFaults /\ faults' = faults + 1
              /\ \/ lines' = lines /\ torn' \in {tail, TRUE}
                 \/ lines' = Append(lines, landed) /\ torn' = FALSE
              /\ pc' = failed
              /\ mem' = IF failed = "down" THEN NoMemory ELSE m

(* append: refused, with nothing written, unless the diary is healthy. *)
AppendItem(kind, names, next, failed) ==
    Healthy /\ Write(mem, kind, names, torn, next, failed)

-------------------------------------------------------------------------------
(* The living world. *)

Record ==
    /\ pc = "live" /\ AppendItem("item", 0, "live", "live")
    /\ UNCHANGED <<headFile, states, staged, witness, backups, owed, lapses, sealed, killed>>

(* A checkpoint: its bytes are durable, then an item names them, then every *)
(* other checkpoint is removed (loop.py 733-750).                           *)
OverwriteCheckpoint ==              \* mutant: the one rolling file is written in place
    /\ pc = "live" /\ fresh < MaxWrites
    /\ pc' = "naming" /\ staged' = fresh /\ states' = {fresh}
    /\ fresh' = fresh + 1
    /\ UNCHANGED <<lines, torn, headFile, mem, witness, backups, owed, history>>
WriteCheckpoint ==
    /\ pc = "live" /\ fresh < MaxWrites
    /\ pc' = "naming" /\ staged' = fresh /\ states' = states \cup {fresh}
    /\ fresh' = fresh + 1
    /\ UNCHANGED <<lines, torn, headFile, mem, witness, backups, owed, history>>

(* checkpoint, at the end of the append of a snapshot: the head is replaced *)
(* atomically, and a failure to replace it is ignored.                      *)
NameCheckpoint ==
    /\ pc = "naming" /\ AppendItem("snapshot", staged, "retiring", "live")
    /\ headFile' \in IF pc' = "retiring" THEN {headFile, lines'} ELSE {headFile}
    /\ UNCHANGED <<states, staged, witness, backups, owed, lapses, sealed, killed>>

RetireOthers ==
    /\ pc = "retiring" /\ pc' = "live" /\ staged' = 0
    /\ \E kept \in SUBSET (states \ {staged}) : states' = kept \cup {staged}
    /\ UNCHANGED <<lines, torn, headFile, mem, witness, backups, owed, fresh, history>>

(* A named checkpoint is refused by an unhealthy diary: the exception leaves *)
(* the world living until its next termination check.                        *)
NamingRefused ==
    /\ pc = "naming" /\ ~Healthy /\ pc' = "live"
    /\ UNCHANGED <<disk, mem, staged, witness, backups, owed, fresh, history>>

(* The process, or the host, stops between any two steps. *)
Crash ==
    /\ pc # "down" /\ pc' = "down" /\ mem' = NoMemory /\ staged' = 0
    /\ UNCHANGED <<disk, witness, backups, owed, fresh, history>>

-------------------------------------------------------------------------------
(* reopen: by a resume or by the operator's kill. *)

(* The cached head authenticates a prefix without reading it again; a diary *)
(* shorter than its head, or with another prefix, is refused.               *)
HeadAgrees ==
    /\ Len(headFile) <= Len(lines)
    /\ headFile = SubSeq(lines, 1, Len(headFile))
    /\ \A n \in Len(headFile) + 1 .. Len(lines) : Links(lines, n)

Opens == HeadAgrees /\ ~Holds(lines, "terminated")

OnDisk == [count |-> Len(lines), head |-> HashAt(lines, Len(lines))]

(* Only an unterminated last line may be repaired: it is cut off, and the cut *)
(* is itself ledgered; the cut stands if that append fails.                   *)
Repair(purpose) ==
    /\ pc = "down" /\ Opens /\ torn
    /\ Write(OnDisk, "repaired", 0, FALSE, purpose, "down")
    /\ UNCHANGED <<headFile, states, staged, witness, backups, owed, lapses, sealed, killed>>

Reopen(purpose) ==
    /\ pc = "down" /\ Opens /\ ~torn
    /\ pc' = purpose /\ mem' = OnDisk
    /\ UNCHANGED <<disk, staged, witness, backups, owed, fresh, history>>

(* resume: a diary without a checkpoint, or whose checkpoint is gone, is      *)
(* refused as it is.  An identity its witness names, or that the operator     *)
(* marked in the tail, is refused and the refusal ledgered (a mark that       *)
(* interrupts an event is refused as a diverged replay, unledgered).  A death *)
(* of its own is replayed to its end.  Otherwise the world lives on.          *)
Witnessed == \E f \in Files : witness[f].found
Restorable == Snapshots # {} /\ lines[LastSnapshot].names \in states

RefuseResume ==
    /\ pc = "resuming" /\ (~Restorable \/ (InTail("marked") /\ ~Witnessed))
    /\ pc' = "down" /\ mem' = NoMemory
    /\ UNCHANGED <<disk, staged, witness, backups, owed, fresh, history>>

ReplayDeath ==
    /\ pc = "resuming" /\ Restorable /\ ~Witnessed /\ InTail("dying")
    /\ pc' = IF owed THEN "marking stem" ELSE "sealing"
    /\ UNCHANGED <<disk, mem, staged, witness, backups, owed, fresh, history>>

IgnoresMark ==                      \* mutant: only the witness is asked
    /\ pc = "resuming" /\ Restorable
    /\ IF Witnessed THEN AppendItem("failed_resume", 0, "down", "down")
       ELSE AppendItem("item", 0, "live", "down")
    /\ UNCHANGED <<headFile, states, staged, witness, backups, owed, lapses, sealed, killed>>
Resume ==
    /\ pc = "resuming" /\ Restorable
    /\ IF Witnessed \/ InTail("marked") THEN AppendItem("failed_resume", 0, "down", "down")
       ELSE ~InTail("dying") /\ AppendItem("item", 0, "live", "down")
    /\ UNCHANGED <<headFile, states, staged, witness, backups, owed, lapses, sealed, killed>>

-------------------------------------------------------------------------------
(* The end of the world. *)

(* The runtime's own death, a ledger failure included, or the operator's kill: *)
(* the death is marked in the diary and, when a wind-down is owed, outside it, *)
(* before the executor touches the venue.  A mark that cannot be written stops *)
(* neither; it makes the operator's kill skip the wind-down and its witness.   *)
Die ==
    /\ pc = "live" /\ pc' = "dying"
    /\ UNCHANGED <<disk, mem, staged, witness, backups, owed, fresh, history>>

Mark ==
    LET witnessed == IF owed THEN "marking stem" ELSE "sealing"
    IN  \/ pc = "dying" /\ AppendItem("dying", 0, witnessed, witnessed)
        \/ pc = "marking" /\ AppendItem("marked", 0, witnessed, "sealing")
MarkKill ==
    /\ Mark
    /\ UNCHANGED <<headFile, states, staged, witness, backups, owed, lapses, sealed, killed>>

MarkRefused ==
    /\ pc = "dying" /\ ~Healthy /\ pc' = IF owed THEN "marking stem" ELSE "sealing"
    /\ UNCHANGED <<disk, mem, staged, witness, backups, owed, fresh, history>>

(* Termination appends its event even to a diary that is not healthy, and is *)
(* witnessed whether or not the append raised.                               *)
Seal ==
    /\ pc = "sealing"
    /\ Write(mem, "terminated", 0, torn, "stem", "stem")
    /\ sealed' = TRUE
    /\ UNCHANGED <<headFile, states, staged, witness, backups, owed, lapses, killed>>

(* _append of a kill line: a line behind a torn one is lost with it, and an  *)
(* error after none, some or all of the bytes is not raised.                 *)
Witness(f, next) ==
    /\ \/ /\ witness' = [witness EXCEPT ![f] =
                            [found |-> @.found \/ ~@.torn, torn |-> FALSE]]
          /\ UNCHANGED <<faults, lapses>>
       \/ /\ faults < MaxFaults /\ faults' = faults + 1 /\ lapses' = lapses + 1
          /\ witness' \in {witness, [witness EXCEPT ![f].torn = TRUE],
                           [witness EXCEPT ![f] = [found |-> @.found \/ ~@.torn, torn |-> FALSE]]}
    /\ pc' = next
    /\ killed' = (killed \/ next = "down")
    /\ mem' = IF next = "down" THEN NoMemory ELSE mem
    /\ UNCHANGED <<disk, staged, backups, owed, fresh, sealed>>

(* _write: the stem's file, then the identity's; before the wind-down and    *)
(* after the terminal event.                                                 *)
WitnessKill ==
    \/ pc = "marking stem" /\ Witness("stem", "marking keyed")
    \/ pc = "marking keyed" /\ Witness("keyed", "sealing")
    \/ pc = "stem" /\ Witness("stem", "keyed")
    \/ pc = "keyed" /\ Witness("keyed", "down")

-------------------------------------------------------------------------------
(* The operator copies the diary's directory, keeps the copy if a resume could *)
(* read it (verify_restorable), and may put a copy back; the witness lives     *)
(* elsewhere and is not part of a copy.                                        *)
TakeBackup ==
    /\ pc \in {"down", "live"} /\ Len(backups) < MaxBackups
    /\ ~torn /\ HeadAgrees /\ Restorable
    /\ backups' = Append(backups, disk)
    /\ UNCHANGED <<disk, witness, process, owed, fresh, history>>

PutBack ==
    /\ pc = "down"
    /\ \E n \in 1 .. Len(backups) :
          /\ lines' = backups[n][1] /\ torn' = backups[n][2]
          /\ headFile' = backups[n][3] /\ states' = backups[n][4]
    /\ sealed' = FALSE
    /\ UNCHANGED <<witness, backups, process, owed, fresh, faults, lapses, killed>>

-------------------------------------------------------------------------------
DiaryNext ==
    \/ Record \/ WriteCheckpoint \/ NameCheckpoint \/ RetireOthers \/ NamingRefused
    \/ Crash
    \/ \E purpose \in {"resuming", "marking"} : Reopen(purpose) \/ Repair(purpose)
    \/ Resume \/ RefuseResume \/ ReplayDeath
    \/ Die \/ MarkKill \/ MarkRefused \/ Seal \/ WitnessKill
    \/ TakeBackup \/ PutBack

DiarySpec == DiaryInit /\ [][DiaryNext]_dvars

-------------------------------------------------------------------------------
(* Properties. *)

(* The types; until a kill is sealed, what the process remembers writing is on *)
(* disk where it remembers it.                                                 *)
DiaryTypeOK ==
    /\ torn \in BOOLEAN /\ owed \in BOOLEAN /\ killed \in BOOLEAN
    /\ fresh \in 1 .. MaxWrites + 1 /\ faults \in 0 .. MaxFaults /\ lapses \in 0 .. faults
    /\ \A n \in 1 .. Len(lines) : lines[n].id \in 0 .. fresh - 1
    /\ states \subseteq 1 .. fresh - 1 /\ staged \in 0 .. fresh - 1
    /\ witness \in [Files -> [found : BOOLEAN, torn : BOOLEAN]]
    /\ pc = "down" => mem = NoMemory
    /\ pc \notin {"stem", "keyed"} => /\ mem.count \in 0 .. Len(lines)
                                      /\ mem.head = HashAt(lines, mem.count)

(* Until a kill is sealed, no failed or torn write, crash, lost head or     *)
(* restored copy leaves a diary the next process refuses: what is on disk   *)
(* is one authentic chain, behind at most a torn line that is cut off, and  *)
(* the checkpoint it names is beside it (ledger.py 314-359, 824-873).       *)
Recoverable ==
    /\ DiaryTypeOK
    /\ \/ sealed
       \/ /\ Authentic(lines) /\ HeadAgrees
          /\ Snapshots # {} => Restorable

(* The dead stay dead.  Production dies first: from the mark on, no process of *)
(* the world lives on this diary, however often the kill crashes before it is *)
(* sealed (cli.py 556-568, resume.py 1917-1931).  And a kill that has run to  *)
(* its end is final whatever the diary refused, through one failed or torn    *)
(* witness line, whichever copy of the diary is put back (witness.py 1-46:    *)
(* "the record that copy cannot carry").                                      *)
Alive == pc \in {"live", "naming", "retiring"}
DeadStayDead ==
    /\ Holds(lines, "marked") \/ Holds(lines, "dying") => ~Alive
    /\ killed /\ lapses <= 1 => ~Alive
===============================================================================
