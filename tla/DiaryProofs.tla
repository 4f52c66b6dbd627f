------------------------------ MODULE DiaryProofs ------------------------------
(***************************************************************************)
(* What holds of the diary for any number of writes, faults and copies: it *)
(* is recoverable until a kill is sealed, and the dead stay dead.          *)
(***************************************************************************)
EXTENDS Diary, TLAPS

Kinds == {"item", "snapshot", "repaired", "failed_resume", "dying", "marked", "terminated",
          "garbage"}
Items == [id : Nat, seq : Int, prev : Nat, kind : Kinds, names : Nat]
Copies == Seq(Items) \X {FALSE} \X Seq(Items) \X SUBSET Nat
Phases == {"live", "naming", "retiring", "down", "resuming", "marking", "dying", "sealing",
           "marking stem", "marking keyed", "stem", "keyed"}

(* What Diary says of the lines on disk, said of any sequence of lines: a copy *)
(* of the directory has them too.                                              *)
Saves(s) == {n \in 1 .. Len(s) : s[n].kind = "snapshot"}
IsLast(s, n) == n \in Saves(s) /\ \A m \in Saves(s) : m <= n
Restores(s, kept) == \E n \in Saves(s) : IsLast(s, n) /\ s[n].names \in kept
Prefix(s, h) == Len(h) <= Len(s) /\ h = SubSeq(s, 1, Len(h))

(* A mark is never followed by a checkpoint, so a resume finds it in the tail. *)
Deaths == {"dying", "marked"}
MarksLast(s) ==
    \A n, m \in 1 .. Len(s) : s[n].kind = "snapshot" /\ s[m].kind \in Deaths => n < m

Marked == \E n \in 1 .. Len(lines) : lines[n].kind \in Deaths

(* What is true of the lines of a directory, the world's own or a copy.        *)
Known(s) ==
    /\ \A n \in 1 .. Len(s) : s[n].id \in 0 .. fresh - 1
    /\ Saves(s) # {} => \E n \in Saves(s) : IsLast(s, n)
    /\ MarksLast(s)

Backup(b) ==
    /\ b[4] \subseteq 1 .. fresh - 1 /\ Known(b[1]) /\ Authentic(b[1]) /\ Authentic(b[3]) /\ Prefix(b[1], b[3])
    /\ Restores(b[1], b[4])

TypeInv ==
    /\ lines \in Seq(Items) /\ headFile \in Seq(Items)
    /\ pc \in Phases /\ mem \in [count : Nat, head : Nat] /\ sealed \in BOOLEAN
    /\ backups \in Seq(Copies)

(* The process that opened the diary found one authentic chain behind its      *)
(* head, and keeps it one until it seals its kill.                             *)
Sure == ~sealed \/ pc \notin {"down", "stem", "keyed"}
ChainInv ==
    /\ Known(lines) /\ Authentic(headFile)
    /\ Sure => Authentic(lines) /\ Prefix(lines, headFile)
    /\ ~sealed /\ Saves(lines) # {} => Restores(lines, states)
    /\ pc \in {"naming", "retiring"} => staged \in states
    /\ pc = "retiring" => \E n \in Saves(lines) : IsLast(lines, n) /\ lines[n].names = staged
    /\ \A n \in 1 .. Len(backups) : Backup(backups[n])

(* One witness write that failed spoils one file at most, and the other one    *)
(* holds the kill line when the kill has run to its end.                       *)
WitnessInv ==
    /\ lapses = 0 => ~witness["stem"].torn /\ ~witness["keyed"].torn
    /\ lapses <= 1 => ~witness["stem"].torn \/ ~witness["keyed"].torn
    /\ pc = "keyed" /\ lapses <= 1 =>
          witness["stem"].found \/ (lapses = 1 /\ ~witness["keyed"].torn)
    /\ killed /\ lapses <= 1 => witness["stem"].found \/ witness["keyed"].found

DiaryInv == DiaryTypeOK /\ TypeInv /\ ChainInv /\ WitnessInv /\ DeadStayDead

-------------------------------------------------------------------------------
(* What one more line does to a sequence of lines. *)

(* The lines there were stay, and the new one is the last. *)
LEMMA OneMore ==
    ASSUME NEW s \in Seq(Items), NEW e \in Items
    PROVE /\ Append(s, e) \in Seq(Items) /\ Len(Append(s, e)) = Len(s) + 1
          /\ Append(s, e)[Len(s) + 1] = e /\ Len(s) \in Nat
          /\ \A n \in 1 .. Len(s) : Append(s, e)[n] = s[n] /\ s[n] \in Items
          /\ \A n \in 1 .. Len(s) + 1 : n = Len(s) + 1 \/ n \in 1 .. Len(s)
          /\ \A n \in 0 .. Len(s) : HashAt(Append(s, e), n) = HashAt(s, n)
          /\ HashAt(Append(s, e), Len(s) + 1) = e.id
<1>1. /\ Append(s, e) \in Seq(Items) /\ Len(Append(s, e)) = Len(s) + 1
      /\ Append(s, e)[Len(s) + 1] = e /\ Len(s) \in Nat
      /\ \A n \in 1 .. Len(s) : Append(s, e)[n] = s[n] /\ s[n] \in Items
  OBVIOUS
<1>2. \A n \in 1 .. Len(s) + 1 : n = Len(s) + 1 \/ n \in 1 .. Len(s)
  BY <1>1
<1>3. \A n \in 0 .. Len(s) : HashAt(Append(s, e), n) = HashAt(s, n)
  BY <1>1 DEF HashAt
<1>4. HashAt(Append(s, e), Len(s) + 1) = e.id
  BY <1>1 DEF HashAt
<1> QED
  BY <1>1, <1>2, <1>3, <1>4

(* A line that names its place and its predecessor keeps the chain authentic. *)
LEMMA ChainGrows ==
    ASSUME NEW s \in Seq(Items), NEW e \in Items, Authentic(s),
           e.kind # "garbage", e.seq = Len(s), e.prev = HashAt(s, Len(s))
    PROVE Authentic(Append(s, e))
<1> SUFFICES ASSUME NEW n \in 1 .. Len(Append(s, e)) PROVE Links(Append(s, e), n)
  BY DEF Authentic
<1>1. CASE n = Len(s) + 1
  <2>1. Append(s, e)[n] = e /\ HashAt(Append(s, e), n - 1) = HashAt(s, Len(s)) /\ Len(s) = n - 1
    BY <1>1, OneMore
  <2> QED
    BY <2>1 DEF Links
<1>2. CASE n \in 1 .. Len(s)
  <2>1. Append(s, e)[n] = s[n] /\ HashAt(Append(s, e), n - 1) = HashAt(s, n - 1)
    BY <1>2, OneMore
  <2> QED
    BY <1>2, <2>1 DEF Links, Authentic
<1> QED
  BY <1>1, <1>2, OneMore

(* What the head authenticates stays a prefix. *)
LEMMA PrefixGrows ==
    ASSUME NEW s \in Seq(Items), NEW e \in Items, NEW h \in Seq(Items)
    PROVE /\ Prefix(s, h) => Prefix(Append(s, e), h)
          /\ Prefix(s, s)
  BY DEF Prefix

(* The last checkpoint is the new line when it names one, or the one there was. *)
LEMMA LastGrows ==
    ASSUME NEW s \in Seq(Items), NEW e \in Items
    PROVE /\ e.kind # "snapshot" =>
                /\ Saves(Append(s, e)) = Saves(s)
                /\ \A n \in Saves(s) : IsLast(s, n) => IsLast(Append(s, e), n)
                                                       /\ Append(s, e)[n] = s[n]
          /\ e.kind = "snapshot" => /\ IsLast(Append(s, e), Len(s) + 1)
                                    /\ Append(s, e)[Len(s) + 1] = e
                                    /\ Saves(Append(s, e)) # {}
<1>1. CASE e.kind # "snapshot"
  <2>1. Saves(Append(s, e)) = Saves(s)
    BY <1>1, OneMore DEF Saves
  <2> QED
    BY <1>1, <2>1, OneMore DEF IsLast, Saves
<1>2. CASE e.kind = "snapshot"
  <2>1. Len(s) + 1 \in Saves(Append(s, e))
    BY <1>2, OneMore DEF Saves
  <2>2. \A m \in Saves(Append(s, e)) : m <= Len(s) + 1
    BY OneMore DEF Saves
  <2> QED
    BY <1>2, <2>1, <2>2, OneMore DEF IsLast
<1> QED
  BY <1>1, <1>2

(* There is only one last checkpoint, and it is the one a resume takes. *)
LEMMA LastIsLast ==
    ASSUME lines \in Seq(Items), NEW n, IsLast(lines, n)
    PROVE Snapshots # {} /\ LastSnapshot = n
<1>1. Snapshots = Saves(lines)
  BY DEF Snapshots, Saves
<1>2. \A m \in Saves(lines) : (\A k \in Saves(lines) : k <= m) <=> m = n
  BY DEF IsLast, Saves
<1> QED
  BY <1>1, <1>2 DEF LastSnapshot, IsLast

(* A copy that was known stays known, and is one chain behind its head. *)
LEMMA CopiesKept ==
    ASSUME DiaryTypeOK, fresh' \in Nat, fresh' >= fresh
    PROVE /\ \A s \in Seq(Items) : Known(s) => Known(s)'
          /\ \A b \in Copies : Backup(b) => Backup(b)'
<1>1. ASSUME NEW s \in Seq(Items), Known(s) PROVE Known(s)'
  BY <1>1 DEF Known, DiaryTypeOK
<1>2. \A b \in Copies : Backup(b) => Backup(b)'
  BY <1>1 DEF Backup, DiaryTypeOK, Copies
<1> QED
  BY <1>1, <1>2

(* Behind any line but a checkpoint that would follow a mark. *)
LEMMA KnownGrows ==
    ASSUME TypeInv, fresh \in Nat, fresh' = fresh + 1, Known(lines),
           NEW e \in Items, e.id \in 0 .. fresh, e.kind = "snapshot" => ~Marked,
           lines' = lines \/ lines' = Append(lines, e)
    PROVE Known(lines)'
<1> DEFINE grown == Append(lines, e)
<1>1. lines \in Seq(Items)
  BY DEF TypeInv
<1>2. CASE lines' = lines
  BY <1>2 DEF Known
<1>3. CASE lines' = grown
  <2>1. \A n \in 1 .. Len(lines') : lines'[n].id \in 0 .. fresh' - 1
    <3>1. \A n \in 1 .. Len(lines) : grown[n].id \in 0 .. fresh - 1
      BY <1>1, OneMore DEF Known
    <3>2. \A n \in 1 .. Len(grown) : grown[n].id \in 0 .. fresh
      BY <1>1, <3>1, OneMore
    <3> QED
      BY <1>3, <3>2
  <2>2. Saves(lines') # {} => \E n \in Saves(lines') : IsLast(lines', n)
    BY <1>1, <1>3, LastGrows DEF Known, IsLast
  <2>3. MarksLast(lines')
    BY <1>1, <1>3, OneMore DEF Known, MarksLast, Marked, Deaths
  <2> QED
    BY <2>1, <2>2, <2>3 DEF Known
<1> QED
  BY <1>2, <1>3

(* A write behind a diary whose last line is whole, apart from what it leaves. *)
Lands(m, kind, names, next, failed) ==
    /\ fresh <= MaxWrites /\ fresh' = fresh + 1 /\ torn' \in BOOLEAN
    /\ \/ /\ lines' = Append(lines, Item(m, kind, names)) /\ pc' = next
          /\ mem' = IF next = "down" THEN NoMemory
                    ELSE [count |-> m.count + 1, head |-> fresh]
          /\ faults' = faults
       \/ /\ lines' = lines \/ lines' = Append(lines, Item(m, kind, names))
          /\ faults < MaxFaults /\ faults' = faults + 1 /\ pc' = failed
          /\ mem' = IF failed = "down" THEN NoMemory ELSE m

Behind(m) == m.count = Len(lines) /\ m.head = HashAt(lines, Len(lines))
Wrote(m, kind, names, next, failed) ==
    /\ m \in [count : Nat, head : Nat] /\ Behind(m)
    /\ kind \in Kinds \ {"garbage"} /\ names \in Nat
    /\ next \in Phases /\ failed \in Phases
    /\ Lands(m, kind, names, next, failed)
Sound(kind, names, next, failed) ==
    /\ fresh' = fresh + 1 /\ fresh' \in 1 .. MaxWrites + 1 /\ torn' \in BOOLEAN
    /\ faults' \in faults .. MaxFaults /\ pc' \in {next, failed}
    /\ lines' \in Seq(Items) /\ Known(lines)'
    /\ mem' \in [count : Nat, head : Nat] /\ (pc' = "down" => mem' = NoMemory)
    /\ mem'.count \in 0 .. Len(lines') /\ mem'.head = HashAt(lines', mem'.count)
    /\ Authentic(lines) => Authentic(lines')
    /\ \A h \in Seq(Items) : Prefix(lines, h) => Prefix(lines', h)
    /\ pc' = next /\ next # failed /\ kind = "snapshot" =>
          \E n \in Saves(lines') : IsLast(lines', n) /\ lines'[n].names = names
    /\ \A kept : \/ Restores(lines', kept) \/ Saves(lines') = {}
                 \/ Saves(lines) # {} /\ ~Restores(lines, kept)
                 \/ kind = "snapshot" /\ names \notin kept
    /\ Marked' => Marked \/ kind \in Deaths

(* A line written behind what is on disk: whether it landed or not, what was  *)
(* known of the lines is known of what is there now.                          *)
LEMMA SoundWrite ==
    ASSUME DiaryTypeOK, TypeInv, Known(lines),
           NEW m, NEW kind, NEW names, NEW next, NEW failed,
           Wrote(m, kind, names, next, failed),
           kind = "snapshot" => ~Marked
    PROVE Sound(kind, names, next, failed)
<1> USE DEF Wrote
<1> DEFINE e == Item(m, kind, names)
<1>1. e \in Items /\ e.id = fresh /\ e.kind = kind /\ e.names = names
      /\ e.seq = Len(lines) /\ e.prev = HashAt(lines, Len(lines))
  BY DEF Items, Item, DiaryTypeOK, Behind
<1>2. /\ fresh' = fresh + 1 /\ fresh' \in 1 .. MaxWrites + 1 /\ torn' \in BOOLEAN
      /\ faults' \in faults .. MaxFaults /\ pc' \in {next, failed}
  BY DiaryAssumption DEF DiaryTypeOK, Lands
<1>3. lines' = lines \/ lines' = Append(lines, e)
  BY DEF Lands
<1>4. pc' = next /\ next # failed => lines' = Append(lines, e)
  BY DEF Lands
<1> DEFINE grown == Append(lines, e)
<1>5. lines \in Seq(Items)
  BY DEF TypeInv
<1> HIDE DEF e
<1> USE DEF grown
<1>6. grown \in Seq(Items) /\ lines' \in Seq(Items)
  BY <1>1, <1>3, <1>5, OneMore
<1>7. mem' \in [count : Nat, head : Nat] /\ (pc' = "down" => mem' = NoMemory)
  BY DEF Lands, DiaryTypeOK, NoMemory
<1>8. mem'.count \in 0 .. Len(lines') /\ mem'.head = HashAt(lines', mem'.count)
  <2>1. \/ mem' = NoMemory
        \/ mem' = m
        \/ mem' = [count |-> m.count + 1, head |-> fresh] /\ lines' = grown
    BY DEF Lands, e
  <2>2. Len(lines') >= Len(lines) /\ Len(lines) \in Nat /\ Len(lines') \in Nat
        /\ HashAt(lines', Len(lines)) = HashAt(lines, Len(lines))
    <3>1. /\ Len(grown) = Len(lines) + 1 /\ Len(lines) \in Nat
          /\ HashAt(grown, Len(lines)) = HashAt(lines, Len(lines))
      BY <1>1, <1>5, OneMore
    <3>2. CASE lines' = grown
      BY <3>1, <3>2
    <3>3. CASE lines' = lines
      BY <3>1, <3>3
    <3> QED
      BY <1>3, <3>2, <3>3
  <2>3. CASE mem' = NoMemory
    BY <2>2, <2>3 DEF NoMemory, HashAt
  <2>4. CASE mem' = m
    BY <2>2, <2>4 DEF Behind
  <2>5. CASE mem' = [count |-> m.count + 1, head |-> fresh] /\ lines' = grown
    BY <1>1, <1>5, <2>5, OneMore DEF Behind
  <2> QED
    BY <2>1, <2>3, <2>4, <2>5
<1>9. Authentic(lines) => Authentic(lines')
  BY <1>1, <1>3, <1>5, ChainGrows
<1>10. \A h \in Seq(Items) : Prefix(lines, h) => Prefix(lines', h)
  <2>1. \A h \in Seq(Items) : Prefix(lines, h) => Prefix(grown, h)
    BY <1>1, <1>5, PrefixGrows
  <2> QED
    BY <1>3, <2>1
<1>11. pc' = next /\ next # failed /\ kind = "snapshot" =>
          \E n \in Saves(lines') : IsLast(lines', n) /\ lines'[n].names = names
  <2>1. kind = "snapshot" => \E n \in Saves(grown) : IsLast(grown, n) /\ grown[n].names = names
    BY <1>1, <1>5, LastGrows DEF IsLast
  <2> QED
    BY <1>4, <2>1
<1>12. ASSUME NEW kept, Saves(lines) = {} \/ Restores(lines, kept),
              kind = "snapshot" => names \in kept
       PROVE Restores(lines', kept) \/ Saves(lines') = {}
  <2>1. CASE lines' = lines
    BY <1>12, <2>1
  <2>2. CASE lines' = Append(lines, e) /\ kind = "snapshot"
    BY <1>1, <1>5, <1>12, <2>2, LastGrows DEF IsLast, Restores
  <2>3. CASE lines' = Append(lines, e) /\ kind # "snapshot"
    BY <1>1, <1>5, <1>12, <2>3, LastGrows, ZenonT(40) DEF Restores
  <2> QED
    BY <1>3, <2>1, <2>2, <2>3
<1>13. Marked' => Marked \/ kind \in Deaths
  BY <1>1, <1>3, <1>5, OneMore DEF Marked
<1>14. Known(lines)'
  BY <1>1, <1>2, <1>3, KnownGrows DEF DiaryTypeOK
<1> QED
  BY <1>2, <1>6, <1>7, <1>8, <1>9, <1>10, <1>11, <1>12, <1>13, <1>14 DEF Sound

-------------------------------------------------------------------------------
(* The steps that write a line. *)

(* The head is authentic, so an agreeing diary is one chain. *)
LEMMA AgreesIsChain ==
    ASSUME TypeInv, Authentic(headFile), HeadAgrees
    PROVE Authentic(lines) /\ Prefix(lines, headFile)
<1>1. Prefix(lines, headFile)
  BY DEF HeadAgrees, Prefix
<1>2. ASSUME NEW n \in 1 .. Len(lines), n <= Len(headFile) PROVE Links(lines, n)
  <2>1. /\ lines \in Seq(Items) /\ headFile \in Seq(Items)
        /\ headFile = SubSeq(lines, 1, Len(headFile)) /\ Len(headFile) <= Len(lines)
    BY DEF TypeInv, HeadAgrees
  <2>2. \A k \in 1 .. Len(headFile) : headFile[k] = lines[k]
    BY <2>1
  <2>3. n \in 1 .. Len(headFile) /\ headFile[n] = lines[n]
        /\ HashAt(headFile, n - 1) = HashAt(lines, n - 1)
    BY <1>2, <2>1, <2>2 DEF HashAt
  <2> QED
    BY <2>3 DEF Links, Authentic
<1>3. \A n \in 1 .. Len(lines) : Links(lines, n)
  <2>1. lines \in Seq(Items) /\ headFile \in Seq(Items)
    BY DEF TypeInv
  <2> QED
    BY <1>2, <2>1 DEF HeadAgrees
<1> QED
  BY <1>1, <1>3 DEF Authentic

(* append writes behind what is on disk. *)
LEMMA AppendLands ==
    ASSUME DiaryTypeOK, TypeInv, pc \notin {"stem", "keyed"},
           NEW kind \in Kinds \ {"garbage"}, NEW names \in Nat,
           NEW next \in Phases, NEW failed \in Phases,
           AppendItem(kind, names, next, failed)
    PROVE Wrote(mem, kind, names, next, failed)
<1>1. Behind(mem)
  BY DEF AppendItem, Healthy, DiaryTypeOK, Behind
<1>2. Lands(mem, kind, names, next, failed)
  <2>1. torn = FALSE
    BY DEF AppendItem, Healthy, DiaryTypeOK
  <2> QED
    BY <2>1 DEF AppendItem, Write, Lands
<1> QED
  BY <1>1, <1>2 DEF Wrote, TypeInv

(* A record, the item that names a checkpoint, a resume's, a repair and a mark *)
(* leave a diary that is one chain, and no mark of a world that lives.         *)
Writes == \/ Record \/ NameCheckpoint \/ Resume \/ MarkKill
          \/ \E purpose \in {"resuming", "marking"} : Repair(purpose)
Written ==
    /\ fresh' = fresh + 1 /\ fresh' \in 1 .. MaxWrites + 1 /\ torn' \in BOOLEAN
    /\ faults' \in faults .. MaxFaults /\ pc' \in Phases \ {"naming", "stem", "keyed"}
    /\ lines' \in Seq(Items) /\ headFile' \in Seq(Items) /\ Known(lines)'
    /\ mem' \in [count : Nat, head : Nat] /\ (pc' = "down" => mem' = NoMemory)
    /\ mem'.count \in 0 .. Len(lines') /\ mem'.head = HashAt(lines', mem'.count)
    /\ Authentic(lines') /\ Authentic(headFile') /\ Prefix(lines', headFile')
    /\ pc' = "retiring" =>
          /\ staged \in states
          /\ \E n \in Saves(lines') : IsLast(lines', n) /\ lines'[n].names = staged
    /\ ~sealed => Saves(lines') = {} \/ Restores(lines', states)
    /\ Alive' => ~Marked' /\ ~(killed /\ lapses <= 1)
    /\ UNCHANGED <<states, staged, witness, backups, owed, lapses, sealed, killed>>

LEMMA NothingMarked == ASSUME TypeInv PROVE Marked <=> Holds(lines, "marked") \/ Holds(lines, "dying")
  BY DEF Marked, Deaths, Holds

LEMMA WriterWritten == DiaryInv /\ Writes => Written
<1> SUFFICES ASSUME DiaryInv, Writes PROVE Written
  OBVIOUS
<1> USE DEF DiaryInv
<1>1. ASSUME NEW m, NEW kind, NEW names, NEW next, NEW failed,
             Wrote(m, kind, names, next, failed),
             kind = "snapshot" => names = staged /\ ~Marked /\ pc = "naming",
             {next, failed} \subseteq {"live", "retiring", "down", "marking stem", "sealing",
                                       "resuming", "marking"},
             failed # "retiring", next = "retiring" => kind = "snapshot",
             Authentic(lines), Prefix(lines, headFile),
             headFile' = headFile \/ headFile' = lines',
             Alive' => kind \notin Deaths /\ ~Marked /\ ~(killed /\ lapses <= 1),
             UNCHANGED <<states, staged, witness, backups, owed, lapses, sealed, killed>>
      PROVE Written
  <2>0. Sound(kind, names, next, failed)
    BY <1>1, SoundWrite DEF ChainInv
  <2>1. /\ fresh' = fresh + 1 /\ fresh' \in 1 .. MaxWrites + 1 /\ torn' \in BOOLEAN
        /\ faults' \in faults .. MaxFaults /\ pc' \in {next, failed}
        /\ lines' \in Seq(Items) /\ Known(lines)'
        /\ mem' \in [count : Nat, head : Nat] /\ (pc' = "down" => mem' = NoMemory)
        /\ mem'.count \in 0 .. Len(lines') /\ mem'.head = HashAt(lines', mem'.count)
        /\ Authentic(lines') /\ Prefix(lines', headFile)
    BY <1>1, <2>0, PrefixGrows DEF Sound, TypeInv
  <2>2. pc' = "retiring" =>
            /\ staged \in states
            /\ \E n \in Saves(lines') : IsLast(lines', n) /\ lines'[n].names = staged
    <3>1. pc' = "retiring" => pc' = next /\ next # failed /\ kind = "snapshot" /\ names = staged
      BY <1>1, <2>1
    <3>2. kind = "snapshot" => staged \in states
      BY <1>1 DEF ChainInv
    <3> QED
      BY <2>0, <3>1, <3>2 DEF Sound
  <2>3. ~sealed => Saves(lines') = {} \/ Restores(lines', states)
    <3>1. ~sealed => Saves(lines) = {} \/ Restores(lines, states)
      BY DEF ChainInv
    <3>2. kind = "snapshot" => names \in states
      BY <1>1 DEF ChainInv
    <3> QED
      BY <2>0, <3>1, <3>2 DEF Sound
  <2>4. Alive' => ~Marked' /\ ~(killed /\ lapses <= 1)
    BY <1>1, <2>0 DEF Sound
  <2>5. headFile' \in Seq(Items) /\ Authentic(headFile') /\ Prefix(lines', headFile')
    <3>1. CASE headFile' = headFile
      BY <2>1, <3>1 DEF TypeInv, ChainInv
    <3>2. CASE headFile' = lines'
      BY <2>1, <3>2 DEF Prefix
    <3> QED
      BY <1>1, <3>1, <3>2
  <2> QED
    BY <1>1, <2>1, <2>2, <2>3, <2>4, <2>5 DEF Written, Phases
<1>2. pc \notin {"down", "stem", "keyed"} => Authentic(lines) /\ Prefix(lines, headFile)
  BY DEF ChainInv, Sure
<1>3. Alive => ~Marked /\ ~(killed /\ lapses <= 1)
  BY NothingMarked DEF DeadStayDead
<1>4. CASE Record
  <2>1. Wrote(mem, "item", 0, "live", "live")
    BY <1>4, AppendLands DEF Record, Kinds, Phases
  <2> QED
    BY <1>1, <1>2, <1>3, <1>4, <2>1 DEF Record, Alive, Deaths
<1>5. CASE NameCheckpoint
  <2>1. Wrote(mem, "snapshot", staged, "retiring", "live")
    <3>1. staged \in Nat
      BY DEF DiaryTypeOK
    <3> QED
      BY <1>5, <3>1, AppendLands DEF NameCheckpoint, Kinds, Phases
  <2> QED
    BY <1>1, <1>2, <1>3, <1>5, <2>1 DEF NameCheckpoint, Alive, Deaths
<1>6. CASE Resume
  <2>1. CASE Witnessed \/ InTail("marked")
    <3>1. Wrote(mem, "failed_resume", 0, "down", "down")
      BY <1>6, <2>1, AppendLands DEF Resume, Kinds, Phases
    <3>2. pc' = "down"
      BY <3>1 DEF Wrote, Lands
    <3> QED
      BY <1>1, <1>2, <1>6, <3>1, <3>2 DEF Resume, Alive, Deaths
  <2>2. CASE ~(Witnessed \/ InTail("marked"))
    <3>1. Wrote(mem, "item", 0, "live", "down") /\ ~InTail("dying")
      BY <1>6, <2>2, AppendLands DEF Resume, Kinds, Phases
    <3>2. ~Marked
      <4>1. \A n \in 1 .. Len(lines) : lines[n].kind \in Deaths => \A m \in Snapshots : m < n
        BY DEF ChainInv, Known, MarksLast, Snapshots
      <4> QED
        BY <2>2, <3>1, <4>1 DEF InTail, Marked, Deaths
    <3>3. ~(killed /\ lapses <= 1)
      BY <2>2 DEF WitnessInv, Witnessed, Files
    <3> QED
      BY <1>1, <1>2, <1>6, <3>1, <3>2, <3>3 DEF Resume, Deaths
  <2> QED
    BY <2>1, <2>2
<1>7. CASE MarkKill
  <2>1. pc \in {"dying", "marking"} /\ ~Alive'
        /\ \E kind \in Deaths, next, failed \in {"marking stem", "sealing"} :
              Wrote(mem, kind, 0, next, failed)
    <3>1. \E kind \in Deaths, next, failed \in {"marking stem", "sealing"} :
             pc \in {"dying", "marking"} /\ AppendItem(kind, 0, next, failed)
      BY <1>7, Zenon DEF MarkKill, Mark, Deaths
    <3>2. PICK kind \in Deaths, next, failed \in {"marking stem", "sealing"} :
             pc \in {"dying", "marking"} /\ AppendItem(kind, 0, next, failed)
      BY <3>1
    <3>3. Wrote(mem, kind, 0, next, failed)
      BY <3>2, AppendLands DEF Kinds, Phases, Deaths
    <3> QED
      BY <3>2, <3>3 DEF Wrote, Lands, Alive
  <2> QED
    BY <1>1, <1>2, <1>7, <2>1 DEF MarkKill, Deaths
<1>8. CASE \E purpose \in {"resuming", "marking"} : Repair(purpose)
  <2>1. PICK purpose \in {"resuming", "marking"} : Repair(purpose)
    BY <1>8
  <2>2. Wrote(OnDisk, "repaired", 0, purpose, "down")
    <3>1. OnDisk \in [count : Nat, head : Nat] /\ Behind(OnDisk)
      <4>1. Len(lines) \in Nat /\ HashAt(lines, Len(lines)) \in Nat
        <5>1. lines \in Seq(Items) /\ Len(lines) \in Nat
          BY DEF TypeInv
        <5>2. Len(lines) # 0 => lines[Len(lines)] \in Items
          BY <5>1
        <5> QED
          BY <5>1, <5>2 DEF HashAt, Items
      <4> QED
        BY <4>1 DEF OnDisk, Behind
    <3>2. Lands(OnDisk, "repaired", 0, purpose, "down")
      BY <2>1 DEF Repair, Write, Lands
    <3> QED
      BY <3>1, <3>2 DEF Wrote, Kinds, Phases
  <2>3. Authentic(lines) /\ Prefix(lines, headFile)
    BY <2>1, AgreesIsChain DEF Repair, Opens, ChainInv
  <2>4. ~Alive'
    BY <2>2 DEF Wrote, Lands, Alive
  <2> QED
    BY <1>1, <2>1, <2>2, <2>3, <2>4 DEF Repair
<1> QED
  BY <1>4, <1>5, <1>6, <1>7, <1>8 DEF Writes

-------------------------------------------------------------------------------
(* The other steps. *)

(* The terminal event is written behind whatever is there. *)
LEMMA SealWritten ==
    ASSUME DiaryInv, Seal
    PROVE /\ fresh' = fresh + 1 /\ fresh' \in 1 .. MaxWrites + 1 /\ torn' \in BOOLEAN
          /\ faults' \in faults .. MaxFaults /\ pc' = "stem" /\ sealed' = TRUE
          /\ lines' \in Seq(Items) /\ Known(lines)' /\ mem' \in [count : Nat, head : Nat]
<1> USE DEF DiaryInv
<1>1. /\ fresh' = fresh + 1 /\ fresh' \in 1 .. MaxWrites + 1 /\ torn' \in BOOLEAN
      /\ faults' \in faults .. MaxFaults /\ pc' = "stem" /\ sealed' = TRUE
      /\ mem' = mem \/ mem' = [count |-> mem.count + 1, head |-> fresh]
  <2>1. torn \in BOOLEAN /\ fresh \in 1 .. MaxWrites + 1 /\ faults \in 0 .. MaxFaults
    BY DEF DiaryTypeOK
  <2>2. torn' \in BOOLEAN /\ fresh <= MaxWrites /\ fresh' = fresh + 1
        /\ (faults' = faults \/ (faults < MaxFaults /\ faults' = faults + 1))
    BY <2>1 DEF Seal, Write
  <2>3. pc' = "stem" /\ sealed' = TRUE
        /\ (mem' = mem \/ mem' = [count |-> mem.count + 1, head |-> fresh])
    BY DEF Seal, Write
  <2> QED
    BY <2>1, <2>2, <2>3, DiaryAssumption
<1> DEFINE e == IF torn THEN Garbage ELSE Item(mem, "terminated", 0)
<1>2. e \in Items /\ e.id \in 0 .. fresh /\ e.kind # "snapshot"
  BY DEF Garbage, Item, Items, Kinds, DiaryTypeOK, TypeInv
<1>3. lines' = lines \/ lines' = Append(lines, e)
  BY DEF Seal, Write
<1> HIDE DEF e
<1>4. lines' \in Seq(Items) /\ Known(lines)'
  <2>1. lines \in Seq(Items) /\ TypeInv /\ Known(lines) /\ fresh \in Nat
    BY DEF DiaryTypeOK, TypeInv, ChainInv
  <2>2. Known(lines)'
    BY <1>1, <1>2, <1>3, <2>1, KnownGrows
  <2>3. lines' \in Seq(Items)
    BY <1>2, <1>3, <2>1, OneMore
  <2> QED
    BY <2>2, <2>3
<1> QED
  BY <1>1, <1>4 DEF DiaryTypeOK, TypeInv

(* Steps that touch neither the lines nor the copies. *)
Quiet == \/ WriteCheckpoint \/ RetireOthers \/ NamingRefused \/ Crash
         \/ \E purpose \in {"resuming", "marking"} : Reopen(purpose)
         \/ RefuseResume \/ ReplayDeath \/ Die \/ MarkRefused \/ WitnessKill

LEMMA Steps == DiaryNext => Writes \/ Seal \/ Quiet \/ TakeBackup \/ PutBack
  BY DEF DiaryNext, Writes, Quiet

LEMMA QuietKeeps ==
    ASSUME DiaryInv, Quiet
    PROVE /\ UNCHANGED <<lines, torn, headFile, backups, owed, sealed>>
          /\ fresh' \in {fresh, fresh + 1} /\ fresh' \in 1 .. MaxWrites + 1
          /\ Known(lines)' /\ \A n \in 1 .. Len(backups) : Backup(backups[n])'
<1> USE DEF DiaryInv
<1>1. UNCHANGED <<lines, torn, headFile, backups, owed, sealed>>
  BY DEF Quiet, WriteCheckpoint, RetireOthers, NamingRefused, Crash, Reopen, RefuseResume,
         ReplayDeath, Die, MarkRefused, WitnessKill, Witness, disk, process, history
<1>2. fresh' = fresh \/ (fresh' = fresh + 1 /\ fresh < MaxWrites)
  BY DEF Quiet, WriteCheckpoint, RetireOthers, NamingRefused, Crash, Reopen, RefuseResume,
         ReplayDeath, Die, MarkRefused, WitnessKill, Witness
<1>3. fresh' \in {fresh, fresh + 1} /\ fresh' \in 1 .. MaxWrites + 1
  BY <1>2, DiaryAssumption DEF DiaryTypeOK
<1>4. Known(lines)' /\ \A n \in 1 .. Len(backups) : Backup(backups[n])'
  <2>1. fresh' \in Nat /\ fresh' >= fresh
    BY <1>3 DEF DiaryTypeOK
  <2>2. Known(lines)'
    BY <1>1, <2>1, CopiesKept DEF ChainInv, TypeInv
  <2>3. \A n \in 1 .. Len(backups) : Backup(backups[n])'
    BY <1>1, <2>1, CopiesKept DEF ChainInv, TypeInv
  <2> QED
    BY <2>2, <2>3
<1> QED
  BY <1>1, <1>3, <1>4

(* A quiet step knows what it knew of what it wrote. *)
LEMMA QuietTypes == DiaryInv /\ Quiet => DiaryTypeOK' /\ TypeInv'
<1> SUFFICES ASSUME DiaryInv, Quiet PROVE DiaryTypeOK' /\ TypeInv'
  OBVIOUS
<1> USE DEF DiaryInv
<1>1. /\ UNCHANGED <<lines, torn, headFile, backups, owed, sealed>>
      /\ fresh' \in {fresh, fresh + 1} /\ fresh' \in 1 .. MaxWrites + 1
      /\ fresh' \in Nat /\ fresh' - 1 >= fresh - 1 /\ Known(lines)'
  BY QuietKeeps DEF DiaryTypeOK
<1>2. states' \subseteq 1 .. fresh' - 1 /\ staged' \in 0 .. fresh' - 1
  <2>1. CASE WriteCheckpoint
    BY <1>1, <2>1 DEF WriteCheckpoint, DiaryTypeOK
  <2>2. CASE RetireOthers
    <3>1. PICK kept \in SUBSET (states \ {staged}) : states' = kept \cup {staged}
      BY <2>2 DEF RetireOthers
    <3>2. staged \in states
      BY <2>2 DEF RetireOthers, ChainInv
    <3> QED
      BY <1>1, <2>2, <3>1, <3>2 DEF RetireOthers, DiaryTypeOK
  <2>3. CASE states' = states /\ (staged' = staged \/ staged' = 0)
    BY <1>1, <2>3 DEF DiaryTypeOK
  <2> QED
    BY <2>1, <2>2, <2>3 DEF Quiet, NamingRefused, Crash, Reopen, RefuseResume,
         ReplayDeath, Die, MarkRefused, WitnessKill, Witness, disk
<1>3. /\ witness' \in [Files -> [found : BOOLEAN, torn : BOOLEAN]]
      /\ faults' \in 0 .. MaxFaults /\ lapses' \in 0 .. faults' /\ killed' \in BOOLEAN
  <2>0. /\ faults \in 0 .. MaxFaults /\ lapses \in 0 .. faults
        /\ faults < MaxFaults => faults + 1 \in 0 .. MaxFaults /\ lapses + 1 \in 0 .. faults + 1
    BY DiaryAssumption DEF DiaryTypeOK
  <2>1. CASE WitnessKill
    <3>1. PICK f \in Files, next \in {"marking keyed", "sealing", "keyed", "down"} : Witness(f, next)
      BY <2>1 DEF WitnessKill, Files
    <3>2. /\ witness' \in [Files -> [found : BOOLEAN, torn : BOOLEAN]] /\ killed' \in BOOLEAN
      <4> DEFINE line == [found |-> witness[f].found \/ ~witness[f].torn, torn |-> FALSE]
      <4>1. witness[f] \in [found : BOOLEAN, torn : BOOLEAN]
            /\ witness \in [Files -> [found : BOOLEAN, torn : BOOLEAN]] /\ killed \in BOOLEAN
        BY DEF DiaryTypeOK
      <4>2. line \in [found : BOOLEAN, torn : BOOLEAN]
        BY <4>1
      <4>3. witness' = [witness EXCEPT ![f] = line] \/ witness' = witness
            \/ witness' = [witness EXCEPT ![f].torn = TRUE]
        BY <3>1 DEF Witness
      <4>4. killed' \in BOOLEAN
        BY <3>1 DEF Witness
      <4> HIDE DEF line
      <4>5. [witness EXCEPT ![f] = line] \in [Files -> [found : BOOLEAN, torn : BOOLEAN]]
        BY <4>1, <4>2
      <4>6. [witness EXCEPT ![f].torn = TRUE] \in [Files -> [found : BOOLEAN, torn : BOOLEAN]]
        BY <4>1
      <4> QED
        BY <4>1, <4>3, <4>4, <4>5, <4>6
    <3>3. \/ faults' = faults /\ lapses' = lapses
          \/ faults < MaxFaults /\ faults' = faults + 1 /\ lapses' = lapses + 1
      BY <3>1 DEF Witness
    <3> QED
      BY <3>2, <3>3, <2>0
  <2>2. CASE UNCHANGED <<witness, faults, lapses, killed>>
    BY <2>2 DEF DiaryTypeOK
  <2> QED
    BY <2>1, <2>2 DEF Quiet, WriteCheckpoint, RetireOthers, NamingRefused, Crash, Reopen,
         RefuseResume, ReplayDeath, Die, MarkRefused, history
<1>4. /\ pc' \in Phases /\ mem' \in [count : Nat, head : Nat]
      /\ pc' = "down" => mem' = NoMemory
      /\ pc' \notin {"stem", "keyed"} => /\ mem'.count \in 0 .. Len(lines)
                                         /\ mem'.head = HashAt(lines, mem'.count)
  <2>1. CASE mem' = NoMemory /\ pc' = "down"
    <3>1. Len(lines) \in Nat
      BY DEF TypeInv
    <3> QED
      BY <2>1, <3>1 DEF NoMemory, HashAt, Phases
  <2>2. CASE \E purpose \in {"resuming", "marking"} : Reopen(purpose)
    <3>1. lines \in Seq(Items) /\ Len(lines) \in Nat /\ Len(lines) \in 0 .. Len(lines)
      BY DEF TypeInv
    <3>2. Len(lines) # 0 => lines[Len(lines)] \in Items
      BY <3>1
    <3>3. HashAt(lines, Len(lines)) \in Nat
      BY <3>1, <3>2 DEF HashAt, Items
    <3> QED
      <4>1. mem' = OnDisk /\ pc' \in {"resuming", "marking"}
        BY <2>2 DEF Reopen
      <4>2. OnDisk \in [count : Nat, head : Nat] /\ OnDisk.count = Len(lines)
            /\ OnDisk.head = HashAt(lines, Len(lines))
        BY <3>1, <3>3 DEF OnDisk
      <4> QED
        BY <3>1, <4>1, <4>2 DEF Phases
  <2>3. CASE mem' = mem /\ pc' \in Phases \ {"down", "stem", "keyed"} /\ pc \notin {"stem", "keyed"}
    BY <2>3 DEF DiaryTypeOK, TypeInv
  <2>4. CASE mem' = mem /\ pc' = "keyed"
    BY <2>4 DEF TypeInv, Phases
  <2>5. CASE WitnessKill
    BY <2>1, <2>3, <2>4, <2>5 DEF WitnessKill, Witness, Phases
  <2> QED
    BY <2>1, <2>2, <2>3, <2>5 DEF Quiet, WriteCheckpoint, RetireOthers, NamingRefused, Crash,
         RefuseResume, ReplayDeath, Die, MarkRefused, process, Phases
<1>5. torn' \in BOOLEAN /\ owed' \in BOOLEAN /\ sealed' \in BOOLEAN
      /\ headFile' \in Seq(Items) /\ lines' \in Seq(Items) /\ backups' \in Seq(Copies)
  BY <1>1 DEF DiaryTypeOK, TypeInv
<1>6. \A n \in 1 .. Len(lines') : lines'[n].id \in 0 .. fresh' - 1
  BY <1>1 DEF Known
<1> QED
  BY <1>1, <1>2, <1>3, <1>4, <1>5, <1>6 DEF DiaryTypeOK, TypeInv

(* The types hold in every reachable state. *)
LEMMA TypeStep == DiaryInv /\ DiaryNext => DiaryTypeOK' /\ TypeInv'
<1> SUFFICES ASSUME DiaryInv, DiaryNext PROVE DiaryTypeOK' /\ TypeInv'
  OBVIOUS
<1> USE DEF DiaryInv
<1>1. CASE Writes
  <2>1. Written
    BY <1>1, WriterWritten
  <2>2. /\ lines' \in Seq(Items) /\ headFile' \in Seq(Items) /\ pc' \in Phases
        /\ mem' \in [count : Nat, head : Nat] /\ sealed' \in BOOLEAN /\ backups' \in Seq(Copies)
    BY <2>1 DEF Written, TypeInv
  <2>3. /\ fresh' - 1 = fresh /\ fresh \in Nat /\ states' = states /\ staged' = staged
        /\ faults' \in faults .. MaxFaults /\ lapses' = lapses /\ lapses \in 0 .. faults
    BY <2>1 DEF Written, DiaryTypeOK
  <2>4. /\ states' \subseteq 1 .. fresh' - 1 /\ staged' \in 0 .. fresh' - 1
        /\ faults' \in 0 .. MaxFaults /\ lapses' \in 0 .. faults'
    BY <2>3, DiaryAssumption DEF DiaryTypeOK
  <2>5. \A n \in 1 .. Len(lines') : lines'[n].id \in 0 .. fresh' - 1
    BY <2>1 DEF Written, Known
  <2> QED
    BY <2>1, <2>2, <2>4, <2>5 DEF DiaryTypeOK, TypeInv, Written
<1>2. CASE Seal
  <2>1. /\ fresh' = fresh + 1 /\ fresh' \in 1 .. MaxWrites + 1 /\ torn' \in BOOLEAN
        /\ faults' \in faults .. MaxFaults /\ pc' = "stem" /\ sealed' = TRUE
        /\ lines' \in Seq(Items) /\ Known(lines)' /\ mem' \in [count : Nat, head : Nat]
    BY <1>2, SealWritten
  <2>2. UNCHANGED <<headFile, states, staged, witness, backups, owed, lapses, killed>>
    BY <1>2 DEF Seal
  <2>3. /\ lines' \in Seq(Items) /\ headFile' \in Seq(Items) /\ pc' \in Phases
        /\ mem' \in [count : Nat, head : Nat] /\ sealed' \in BOOLEAN /\ backups' \in Seq(Copies)
    BY <2>1, <2>2 DEF TypeInv, Phases
  <2>4. /\ states' \subseteq 1 .. fresh' - 1 /\ staged' \in 0 .. fresh' - 1
        /\ faults' \in 0 .. MaxFaults /\ lapses' \in 0 .. faults'
    BY <2>1, <2>2, DiaryAssumption, SMTT(20) DEF DiaryTypeOK
  <2>5. \A n \in 1 .. Len(lines') : lines'[n].id \in 0 .. fresh' - 1
    BY <2>1 DEF Known
  <2> QED
    BY <2>1, <2>2, <2>3, <2>4, <2>5 DEF DiaryTypeOK, TypeInv
<1>3. CASE Quiet
  BY <1>3, QuietTypes
<1>4. CASE TakeBackup
  <2>1. <<lines, FALSE, headFile, states>> \in Copies /\ disk = <<lines, FALSE, headFile, states>>
    <3>1. torn = FALSE /\ states \in SUBSET Nat
      BY <1>4 DEF TakeBackup, DiaryTypeOK
    <3> QED
      BY <3>1 DEF Copies, TypeInv, disk
  <2>2. backups' \in Seq(Copies)
    BY <1>4, <2>1 DEF TakeBackup, TypeInv
  <2>3. UNCHANGED <<lines, torn, headFile, states, witness, pc, mem, staged, owed, fresh,
                    faults, lapses, sealed, killed>>
    BY <1>4 DEF TakeBackup, disk, process, history
  <2> QED
    BY <2>2, <2>3 DEF DiaryTypeOK, TypeInv
<1>5. CASE PutBack
  <2>1. PICK n \in 1 .. Len(backups) :
           /\ lines' = backups[n][1] /\ torn' = backups[n][2]
           /\ headFile' = backups[n][3] /\ states' = backups[n][4]
    BY <1>5 DEF PutBack
  <2>2. backups[n] \in Copies /\ Backup(backups[n])
    BY <2>1 DEF TypeInv, ChainInv
  <2>3. /\ lines' \in Seq(Items) /\ torn' = FALSE /\ headFile' \in Seq(Items)
        /\ states' \subseteq 1 .. fresh - 1 /\ \A k \in 1 .. Len(lines') : lines'[k].id \in 0 .. fresh - 1
    BY <2>1, <2>2 DEF Copies, Backup, Known
  <2>4. /\ UNCHANGED <<witness, backups, pc, mem, staged, owed, fresh, faults, lapses, killed>>
        /\ sealed' = FALSE /\ pc = "down" /\ mem = NoMemory
    BY <1>5 DEF PutBack, process, DiaryTypeOK
  <2>5. mem'.count \in 0 .. Len(lines') /\ mem'.head = HashAt(lines', mem'.count)
    <3>1. Len(lines') \in Nat
      BY <2>3
    <3> QED
      BY <2>4, <3>1 DEF NoMemory, HashAt
  <2> QED
    BY <2>3, <2>4, <2>5 DEF DiaryTypeOK, TypeInv
<1> QED
  BY <1>1, <1>2, <1>3, <1>4, <1>5, Steps

(* The chain, its checkpoint and the copies stay sound. *)
LEMMA ChainStep == DiaryInv /\ DiaryNext => ChainInv'
<1> SUFFICES ASSUME DiaryInv, DiaryNext PROVE ChainInv'
  OBVIOUS
<1> USE DEF DiaryInv
<1>1. CASE Writes
  <2>1. Written /\ fresh' \in Nat /\ fresh' >= fresh
    BY <1>1, WriterWritten DEF Written, DiaryTypeOK
  <2>2. (\A n \in 1 .. Len(backups) : Backup(backups[n]))'
    BY <2>1, CopiesKept DEF Written, ChainInv, TypeInv
  <2>3. Known(lines)' /\ Authentic(headFile') /\ Authentic(lines') /\ Prefix(lines', headFile')
        /\ pc' # "naming" /\ sealed' = sealed /\ states' = states /\ staged' = staged
    BY <2>1 DEF Written
  <2>4. ~sealed' /\ Saves(lines') # {} => Restores(lines', states')
    BY <2>1, <2>3 DEF Written
  <2>5. pc' = "retiring" =>
           /\ staged' \in states'
           /\ \E n \in Saves(lines') : IsLast(lines', n) /\ lines'[n].names = staged'
    BY <2>1, <2>3 DEF Written
  <2> QED
    BY <2>2, <2>3, <2>4, <2>5 DEF ChainInv
<1>2. CASE Seal
  <2>1. /\ fresh' \in Nat /\ fresh' >= fresh /\ Known(lines)' /\ sealed' = TRUE /\ pc' = "stem"
        /\ headFile' = headFile /\ backups' = backups
    BY <1>2, SealWritten DEF DiaryTypeOK, Seal
  <2>2. (\A n \in 1 .. Len(backups) : Backup(backups[n]))'
    BY <2>1, CopiesKept DEF ChainInv, TypeInv
  <2> QED
    BY <2>1, <2>2 DEF ChainInv, Sure
<1>3. CASE Quiet
  <2>1. /\ UNCHANGED <<lines, torn, headFile, backups, owed, sealed>>
        /\ Known(lines)' /\ \A n \in 1 .. Len(backups) : Backup(backups[n])'
    BY <1>3, QuietKeeps
  <2>2. Sure' => Authentic(lines') /\ Prefix(lines', headFile')
    <3>1. CASE \E purpose \in {"resuming", "marking"} : Reopen(purpose)
      BY <2>1, <3>1, AgreesIsChain DEF Reopen, Opens, ChainInv
    <3>2. CASE pc' \in {"down", "stem", "keyed"} \/ pc \notin {"down", "stem", "keyed"}
      BY <2>1, <3>2 DEF ChainInv, Sure
    <3>3. CASE WitnessKill
      BY <2>1, <3>2, <3>3 DEF WitnessKill, Witness
    <3> QED
      BY <1>3, <3>1, <3>2, <3>3 DEF Quiet, WriteCheckpoint, RetireOthers, NamingRefused, Crash,
         RefuseResume, ReplayDeath, Die, MarkRefused
  <2>3. CASE WriteCheckpoint
    <3>1. pc' = "naming" /\ staged' \in states' /\ states \subseteq states'
      BY <2>3 DEF WriteCheckpoint
    <3>2. ~sealed' /\ Saves(lines') # {} => Restores(lines', states')
      BY <2>1, <3>1 DEF ChainInv, Restores
    <3> QED
      BY <2>1, <2>2, <3>1, <3>2 DEF ChainInv
  <2>4. CASE RetireOthers
    <3>1. pc = "retiring" /\ pc' = "live" /\ staged \in states'
      BY <2>4 DEF RetireOthers
    <3>2. Restores(lines', states')
      BY <2>1, <3>1 DEF ChainInv, Restores
    <3> QED
      BY <2>1, <2>2, <3>1, <3>2 DEF ChainInv
  <2>5. CASE pc' \notin {"naming", "retiring"} /\ states' = states
    BY <2>1, <2>2, <2>5 DEF ChainInv
  <2> QED
    BY <1>3, <2>3, <2>4, <2>5 DEF Quiet, NamingRefused, Crash, Reopen,
         RefuseResume, ReplayDeath, Die, MarkRefused, WitnessKill, Witness, disk
<1>4. CASE TakeBackup
  <2>1. UNCHANGED <<lines, headFile, states, pc, staged, fresh, sealed>>
        /\ backups' = Append(backups, <<lines, torn, headFile, states>>)
    BY <1>4 DEF TakeBackup, disk, process, history
  <2>2. Backup(<<lines, torn, headFile, states>>)
    <3>1. states \subseteq 1 .. fresh - 1 /\ Known(lines) /\ Authentic(headFile)
      BY DEF DiaryTypeOK, ChainInv
    <3>2. Authentic(lines) /\ Prefix(lines, headFile)
      BY <1>4, AgreesIsChain DEF TakeBackup, ChainInv
    <3>3. Restores(lines, states)
      <4>1. Saves(lines) # {} /\ lines[LastSnapshot].names \in states
        BY <1>4 DEF TakeBackup, Restorable, Snapshots, Saves
      <4>2. PICK n \in Saves(lines) : IsLast(lines, n)
        BY <4>1 DEF ChainInv, Known
      <4>3. LastSnapshot = n
        BY <4>2, LastIsLast DEF TypeInv
      <4> QED
        BY <4>1, <4>2, <4>3 DEF Restores
    <3> QED
      BY <3>1, <3>2, <3>3 DEF Backup
  <2>3. \A n \in 1 .. Len(backups') : Backup(backups'[n])
    BY <2>1, <2>2 DEF ChainInv, TypeInv
  <2>4. (\A n \in 1 .. Len(backups) : Backup(backups[n]))'
    BY <2>1, <2>3 DEF Backup, Known
  <2>5. Known(lines)'
    BY <2>1 DEF Known, ChainInv
  <2> QED
    BY <2>1, <2>4, <2>5 DEF ChainInv, Sure
<1>5. CASE PutBack
  <2>1. PICK n \in 1 .. Len(backups) :
           /\ lines' = backups[n][1] /\ torn' = backups[n][2]
           /\ headFile' = backups[n][3] /\ states' = backups[n][4]
    BY <1>5 DEF PutBack
  <2>2. Backup(backups[n])
    BY <2>1 DEF ChainInv
  <2>3. UNCHANGED <<backups, pc, staged, fresh>> /\ pc = "down"
    BY <1>5 DEF PutBack, process
  <2>4. Known(lines') /\ Authentic(lines') /\ Authentic(headFile') /\ Prefix(lines', headFile')
        /\ Restores(lines', states')
    BY <2>1, <2>2 DEF Backup
  <2>5. Known(lines)'
    BY <2>3, <2>4 DEF Known
  <2>6. (\A k \in 1 .. Len(backups) : Backup(backups[k]))'
    BY <2>3 DEF ChainInv, Backup, Known
  <2> QED
    BY <2>3, <2>4, <2>5, <2>6 DEF ChainInv
<1> QED
  BY <1>1, <1>2, <1>3, <1>4, <1>5, Steps

(* One write of a kill line: it lands, unless behind a part of one, or it fails *)
(* and may leave a part.                                                       *)
LEMMA OneWitness ==
    ASSUME DiaryTypeOK, NEW f \in Files, NEW next, Witness(f, next)
    PROVE /\ \A g \in Files \ {f} : witness'[g] = witness[g]
          /\ witness[f].found => witness'[f].found
          /\ \/ /\ lapses' = lapses /\ ~witness'[f].torn
                /\ ~witness[f].torn => witness'[f].found
             \/ lapses' = lapses + 1
          /\ pc' = next /\ (killed' <=> killed \/ next = "down")
<1>1. witness \in [Files -> [found : BOOLEAN, torn : BOOLEAN]] /\ witness[f] \in [found : BOOLEAN, torn : BOOLEAN]
  BY DEF DiaryTypeOK
<1> DEFINE line == [found |-> witness[f].found \/ ~witness[f].torn, torn |-> FALSE]
<1>2. \/ witness' = [witness EXCEPT ![f] = line] /\ (lapses' = lapses \/ lapses' = lapses + 1)
      \/ (witness' = witness \/ witness' = [witness EXCEPT ![f].torn = TRUE]) /\ lapses' = lapses + 1
  BY DEF Witness
<1>3. pc' = next /\ (killed' <=> killed \/ next = "down")
  BY DEF Witness
<1>4. CASE witness' = [witness EXCEPT ![f] = line]
  BY <1>1, <1>2, <1>3, <1>4
<1>5. CASE witness' = witness \/ witness' = [witness EXCEPT ![f].torn = TRUE]
  BY <1>1, <1>2, <1>3, <1>5
<1> QED
  BY <1>2, <1>4, <1>5

(* A kill that has run to its end is witnessed. *)
LEMMA WitnessStep == DiaryInv /\ DiaryNext => WitnessInv'
<1> SUFFICES ASSUME DiaryInv, DiaryNext PROVE WitnessInv'
  OBVIOUS
<1> USE DEF DiaryInv
<1>0. /\ killed \in BOOLEAN /\ killed' \in BOOLEAN
      /\ witness["stem"].found \in BOOLEAN /\ witness["stem"].torn \in BOOLEAN
      /\ witness["keyed"].found \in BOOLEAN /\ witness["keyed"].torn \in BOOLEAN
      /\ witness'["stem"].found \in BOOLEAN /\ witness'["stem"].torn \in BOOLEAN
      /\ witness'["keyed"].found \in BOOLEAN /\ witness'["keyed"].torn \in BOOLEAN
  BY TypeStep DEF DiaryTypeOK, Files
<1>1. CASE UNCHANGED <<witness, lapses, killed>> /\ pc' # "keyed"
  BY <1>1 DEF WitnessInv
<1>2. lapses \in Nat
  BY DiaryAssumption DEF DiaryTypeOK
<1>3. CASE pc \in {"marking stem", "stem"} /\ Witness("stem", pc') /\ pc' \in {"marking keyed", "keyed"}
  <2>1. /\ witness'["keyed"] = witness["keyed"]
        /\ witness["stem"].found => witness'["stem"].found
        /\ \/ /\ lapses' = lapses /\ ~witness'["stem"].torn
              /\ ~witness["stem"].torn => witness'["stem"].found
           \/ lapses' = lapses + 1
        /\ killed' <=> killed
    BY <1>3, OneWitness DEF Files
  <2> QED
    <3>1. lapses' = 0 => ~witness'["stem"].torn /\ ~witness'["keyed"].torn
      BY <1>0, <1>2, <2>1 DEF WitnessInv
    <3>2. lapses' <= 1 => ~witness'["stem"].torn \/ ~witness'["keyed"].torn
      BY <1>0, <1>2, <2>1 DEF WitnessInv
    <3>3. pc' = "keyed" /\ lapses' <= 1 =>
             witness'["stem"].found \/ (lapses' = 1 /\ ~witness'["keyed"].torn)
      <4>1. CASE lapses' = lapses + 1
        BY <1>0, <1>2, <2>1, <4>1 DEF WitnessInv
      <4>2. CASE lapses' = lapses /\ witness["stem"].torn
        <5>1. lapses # 0 /\ (lapses <= 1 => ~witness["keyed"].torn)
          BY <1>0, <4>2 DEF WitnessInv
        <5> QED
          BY <1>0, <1>2, <2>1, <4>2, <5>1
      <4>3. CASE lapses' = lapses /\ ~witness["stem"].torn
        BY <1>0, <1>2, <2>1, <4>3
      <4> QED
        BY <1>0, <2>1, <4>1, <4>2, <4>3
    <3>4. killed' /\ lapses' <= 1 => witness'["stem"].found \/ witness'["keyed"].found
      BY <1>0, <1>2, <2>1 DEF WitnessInv
    <3> QED
      BY <3>1, <3>2, <3>3, <3>4 DEF WitnessInv
<1>4. CASE pc = "marking keyed" /\ Witness("keyed", "sealing")
  <2>1. /\ witness'["stem"] = witness["stem"]
        /\ witness["keyed"].found => witness'["keyed"].found
        /\ \/ /\ lapses' = lapses /\ ~witness'["keyed"].torn
              /\ ~witness["keyed"].torn => witness'["keyed"].found
           \/ lapses' = lapses + 1
        /\ pc' = "sealing" /\ (killed' <=> killed \/ "sealing" = "down")
    BY <1>4, OneWitness DEF Files
  <2> QED
    <3>1. lapses' = 0 => ~witness'["stem"].torn /\ ~witness'["keyed"].torn
      BY <1>0, <1>2, <2>1 DEF WitnessInv
    <3>2. lapses' <= 1 => ~witness'["stem"].torn \/ ~witness'["keyed"].torn
      BY <1>0, <1>2, <2>1 DEF WitnessInv
    <3>3. pc' = "keyed" /\ lapses' <= 1 =>
             witness'["stem"].found \/ (lapses' = 1 /\ ~witness'["keyed"].torn)
      BY <1>0, <1>2, <1>4, <2>1 DEF WitnessInv
    <3>4. killed' /\ lapses' <= 1 => witness'["stem"].found \/ witness'["keyed"].found
      BY <1>0, <1>2, <2>1 DEF WitnessInv
    <3> QED
      BY <3>1, <3>2, <3>3, <3>4 DEF WitnessInv
<1>5. CASE pc = "keyed" /\ Witness("keyed", "down")
  <2>1. /\ witness'["stem"] = witness["stem"]
        /\ witness["keyed"].found => witness'["keyed"].found
        /\ \/ /\ lapses' = lapses /\ ~witness'["keyed"].torn
              /\ ~witness["keyed"].torn => witness'["keyed"].found
           \/ lapses' = lapses + 1
        /\ pc' = "down"
    BY <1>5, OneWitness DEF Files
  <2> QED
    BY <1>2, <1>5, <2>1 DEF WitnessInv
<1>6. CASE WitnessKill
  BY <1>3, <1>4, <1>5, <1>6 DEF WitnessKill, Witness
<1>7. CASE Quiet /\ ~WitnessKill
  BY <1>1, <1>7 DEF Quiet, WriteCheckpoint, RetireOthers, NamingRefused, Crash, Reopen,
         RefuseResume, ReplayDeath, Die, MarkRefused, history
<1>8. CASE Writes
  BY <1>1, <1>8, WriterWritten DEF Written
<1>9. CASE Seal
  BY <1>1, <1>9, SealWritten DEF Seal
<1>10. CASE TakeBackup \/ PutBack
  BY <1>1, <1>10 DEF TakeBackup, PutBack, process, history
<1> QED
  BY <1>6, <1>7, <1>8, <1>9, <1>10, Steps

(* Only a resume makes an alive process, and it finds neither a mark nor a kill. *)
LEMMA DeadStep == DiaryInv /\ DiaryNext => DeadStayDead'
<1> SUFFICES ASSUME DiaryInv, DiaryNext, Alive'
             PROVE ~(Holds(lines, "marked") \/ Holds(lines, "dying"))' /\ ~(killed /\ lapses <= 1)'
  BY DEF DeadStayDead
<1> USE DEF DiaryInv
<1>1. CASE Writes
  <2>1. Written /\ TypeInv'
    BY <1>1, WriterWritten, TypeStep
  <2>2. ~(Holds(lines, "marked") \/ Holds(lines, "dying"))'
    BY <2>1 DEF Written, Marked, Deaths, Holds
  <2> QED
    BY <2>1, <2>2 DEF Written
<1>2. CASE UNCHANGED <<lines, killed, lapses>> /\ Alive
  BY <1>2 DEF DeadStayDead, Holds
<1>3. CASE Quiet
  <2>1. Alive /\ UNCHANGED <<lines, killed, lapses>>
    BY <1>3 DEF Quiet, WriteCheckpoint, RetireOthers, NamingRefused, Crash, Reopen, Alive,
         RefuseResume, ReplayDeath, Die, MarkRefused, WitnessKill, Witness, disk, history
  <2> QED
    BY <1>2, <2>1
<1>4. CASE Seal
  BY <1>4, SealWritten DEF Alive
<1>5. CASE TakeBackup
  BY <1>2, <1>5 DEF TakeBackup, Alive, disk, process, history
<1>6. CASE PutBack
  BY <1>6 DEF PutBack, process, Alive
<1> QED
  BY <1>1, <1>3, <1>4, <1>5, <1>6, Steps

-------------------------------------------------------------------------------
(* The inductive invariant, and what it says. *)

LEMMA DiaryInitInv == DiaryInit => DiaryInv
<1> SUFFICES ASSUME DiaryInit PROVE DiaryInv
  OBVIOUS
<1>1. DiaryTypeOK
  <2>1. 1 \in 1 .. MaxWrites + 1 /\ 0 \in 0 .. MaxFaults
    BY DiaryAssumption
  <2>2. [f \in Files |-> [found |-> FALSE, torn |-> FALSE]] \in [Files -> [found : BOOLEAN, torn : BOOLEAN]]
    OBVIOUS
  <2>4. \A n \in 1 .. Len(lines) : lines[n].id \in 0 .. fresh - 1
    BY DEF DiaryInit
  <2>3. NoMemory.count \in 0 .. Len(lines) /\ NoMemory.head = HashAt(lines, NoMemory.count)
    BY DEF DiaryInit, NoMemory, HashAt
  <2>5. states \subseteq 1 .. fresh - 1 /\ staged \in 0 .. fresh - 1 /\ lapses \in 0 .. faults
    BY DEF DiaryInit
  <2>6. /\ torn \in BOOLEAN /\ owed \in BOOLEAN /\ killed \in BOOLEAN
        /\ witness = [f \in Files |-> [found |-> FALSE, torn |-> FALSE]]
        /\ fresh = 1 /\ faults = 0 /\ pc # "down" /\ mem = NoMemory
    BY DEF DiaryInit
  <2> QED
    BY <2>1, <2>2, <2>3, <2>4, <2>5, <2>6 DEF DiaryTypeOK
<1>2. TypeInv
  <2>1. NoMemory \in [count : Nat, head : Nat]
    BY DEF NoMemory
  <2>2. <<>> \in Seq(Items) /\ <<>> \in Seq(Copies)
    OBVIOUS
  <2> QED
    BY <2>1, <2>2 DEF DiaryInit, TypeInv, Phases
<1>3. ChainInv
  BY DEF DiaryInit, ChainInv, Known, MarksLast, Saves, Authentic, Prefix
<1>4. WitnessInv /\ DeadStayDead
  BY DEF DiaryInit, WitnessInv, DeadStayDead, Holds, Files
<1> QED
  BY <1>1, <1>2, <1>3, <1>4 DEF DiaryInv

(* Every step keeps it. *)
LEMMA DiaryStep == DiaryInv /\ [DiaryNext]_dvars => DiaryInv'
<1>1. DiaryInv /\ DiaryNext => DiaryInv'
  BY TypeStep, ChainStep, WitnessStep, DeadStep DEF DiaryInv
<1>2. DiaryInv /\ UNCHANGED dvars => DiaryInv'
  <2> SUFFICES ASSUME DiaryInv, UNCHANGED dvars PROVE DiaryInv'
    OBVIOUS
  <2> USE DEF dvars, disk, process, history
  <2>1. DiaryTypeOK' /\ TypeInv'
    BY DEF DiaryInv, DiaryTypeOK, TypeInv
  <2>2. ChainInv'
    BY DEF DiaryInv, ChainInv, Known, Sure, Backup
  <2>3. WitnessInv' /\ DeadStayDead'
    BY DEF DiaryInv, WitnessInv, Witnessed, DeadStayDead, Alive, Holds
  <2> QED
    BY <2>1, <2>2, <2>3 DEF DiaryInv
<1> QED
  BY <1>1, <1>2

(* It implies what the run checks. *)
LEMMA DiaryInvRecovers == DiaryInv => Recoverable
<1> SUFFICES ASSUME DiaryInv, ~sealed
             PROVE Authentic(lines) /\ HeadAgrees /\ (Snapshots # {} => Restorable)
  BY DEF Recoverable, DiaryInv
<1>1. Authentic(lines) /\ Prefix(lines, headFile) /\ lines \in Seq(Items) /\ headFile \in Seq(Items)
  BY DEF DiaryInv, ChainInv, Sure, TypeInv
<1>2. HeadAgrees
  BY <1>1 DEF HeadAgrees, Prefix, Authentic
<1>3. ASSUME Snapshots # {} PROVE Restorable
  <2>1. PICK n \in Saves(lines) : IsLast(lines, n) /\ lines[n].names \in states
    BY <1>3 DEF DiaryInv, ChainInv, Restores, Snapshots, Saves
  <2>2. LastSnapshot = n
    BY <1>1, <2>1, LastIsLast
  <2> QED
    BY <1>3, <2>1, <2>2 DEF Restorable
<1> QED
  BY <1>1, <1>2, <1>3

(* The diary's types, and what its process remembers, for any number of      *)
(* writes, faults and copies.                                                *)
THEOREM DiaryTypeCorrect == DiarySpec => []DiaryTypeOK
<1>1. DiaryInv => DiaryTypeOK
  BY DEF DiaryInv
<1> QED
  BY <1>1, DiaryInitInv, DiaryStep, PTL DEF DiarySpec

(* Until a kill is sealed the diary on disk is one authentic chain behind at *)
(* most a torn line, its head agrees, and the checkpoint it names is kept,   *)
(* through any failed write, crash, resume and copy put back.                *)
THEOREM DiaryRecoverable == DiarySpec => []Recoverable
  BY DiaryInitInv, DiaryStep, DiaryInvRecovers, PTL DEF DiarySpec

(* From a mark on, and after a kill that ran to its end with at most one     *)
(* failed witness write, no process of the world lives on this diary or on   *)
(* any copy of it.                                                           *)
THEOREM DiaryDeadStayDead == DiarySpec => []DeadStayDead
<1>1. DiaryInv => DeadStayDead
  BY DEF DiaryInv
<1> QED
  BY <1>1, DiaryInitInv, DiaryStep, PTL DEF DiarySpec
================================================================================
