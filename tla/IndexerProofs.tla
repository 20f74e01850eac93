---------------------------- MODULE IndexerProofs ----------------------------
(***************************************************************************)
(* Proofs about Indexer: its types, that an IndexingRecord is never wrong  *)
(* about the file in the cache, and that a run which gives no file up      *)
(* leaves nothing out.                                                     *)
(*                                                                         *)
(* The argument is about races with the mirror.  A run lists a digest,     *)
(* reads the file later and marks it with the listed digest, so a record   *)
(* can name a content that nobody has parsed; but only if the mirror has   *)
(* replaced that content, and then it never comes back.                    *)
(***************************************************************************)
EXTENDS Indexer, TLAPS

(* The content s of file f is over: upstream has left it, and so has the cache. *)
Passed(f, s) == s < remote[f] /\ disk[f] # s

(* What version v of the parser finds in content s of file f is stored. *)
Backed(f, s, v) == Lists[f][s][v] \subseteq Stored

(* Contents move forward only: a row and a list are never ahead of the file, *)
(* nor any of them ahead of upstream.                                        *)
Forward ==
  \A f \in Files :
    /\ disk[f] <= remote[f]
    /\ digest[f] <= remote[f]
    /\ disk[f] # Absent => digest[f] <= disk[f]
    /\ \A p \in Runners :
         /\ listed[p][f] <= remote[f]
         /\ disk[f] # Absent => listed[p][f] <= disk[f]

RecordsHold ==
  \A f \in Files :
    record[f] # NoRecord =>
      Backed(f, record[f].sha, record[f].version) \/ Passed(f, record[f].sha)

(* What a run has read is what it listed, unless that is over. *)
ReadingHolds(p) ==
  /\ pc[p] \in {"persist", "mark"} => content[p] = Sha(p) \/ Passed(cursor[p], Sha(p))
  /\ pc[p] = "mark" => Parsed(p) \subseteq Stored

(* The files a run is done with. *)
DoneHolds(p) ==
  pc[p] \in {"file", "persist", "mark"} /\ ~failed[p] =>
    \A f \in Files : f < cursor[p] /\ listed[p][f] # Absent =>
      Backed(f, listed[p][f], parser[p]) \/ Passed(f, listed[p][f])

IInv ==
  /\ TypeOK
  /\ Forward
  /\ RecordsHold
  /\ \A p \in Runners : ReadingHolds(p) /\ DoneHolds(p)

-----------------------------------------------------------------------------
(* The numbers are numbers. *)
LEMMA Numbers ==
  /\ NumFiles \in Nat /\ NumContents \in Nat \ {0} /\ NumVersions \in Nat \ {0}
  /\ MaxFaults \in Nat
  /\ 1 \in Contents /\ 1 \in Versions /\ Absent \notin Contents
  /\ Files \subseteq Nat /\ Contents \subseteq Nat \ {0} /\ Versions \subseteq Nat
BY SizesAssumption DEF Files, Contents, Versions, Absent

LEMMA RecordShape == NoRecord \notin Record /\ NoRecord.sha = Absent
BY Numbers DEF NoRecord, Record

(* Init has the types. *)
LEMMA InitType == Init => TypeOK
BY Numbers, RecordShape
   DEF Init, TypeOK, NothingListed, Absent, Sha

(* Every step keeps the types. *)
LEMMA StepType == TypeOK /\ [Next]_vars => TypeOK'
<1> SUFFICES ASSUME TypeOK, [Next]_vars PROVE TypeOK'
  OBVIOUS
<1>1. ASSUME NEW p \in Runners, Start(p) PROVE TypeOK'
  BY <1>1 DEF TypeOK, Start, mirror, metadata, Sha
<1>2. ASSUME NEW p \in Runners, List(p) PROVE TypeOK'
  <2>1. 1 \in 1..(NumFiles + 1)
    BY Numbers
  <2> QED BY <1>2, <2>1 DEF TypeOK, List, mirror, metadata, Sha
<1>3. ASSUME NEW p \in Runners, cursor[p] \in Files, NextFile(p)
      PROVE  /\ cursor' \in [Runners -> 1..(NumFiles + 1)]
             /\ pc' \in [Runners -> {"idle", "list", "file", "persist", "mark"}]
             /\ content' \in [Runners -> Contents \union {Absent}]
             /\ \A q \in Runners \ {p} : UNCHANGED <<cursor[q], pc[q], content[q]>>
             /\ pc'[p] = "file" /\ content'[p] = Absent /\ cursor'[p] = cursor[p] + 1
  <2>1. cursor[p] + 1 \in 1..(NumFiles + 1)
    BY <1>3, Numbers DEF Files
  <2> QED BY <1>3, <2>1 DEF TypeOK, NextFile
<1>4. ASSUME NEW p \in Runners, Skip(p) PROVE TypeOK'
  BY <1>3, <1>4 DEF TypeOK, Skip, AtFile, mirror, metadata, Sha
<1>5. ASSUME NEW p \in Runners, Read(p) PROVE TypeOK'
  BY <1>5 DEF TypeOK, Read, AtFile, mirror, metadata, Sha
<1>6. ASSUME NEW p \in Runners, FileFails(p) PROVE TypeOK'
  <2>1. cursor[p] \in Files /\ NextFile(p)
    BY <1>6 DEF TypeOK, FileFails, AtFile
  <2>2. faults' \in 0..MaxFaults
    BY <1>6, Numbers DEF TypeOK, FileFails, Fault
  <2> QED BY <1>3, <1>6, <2>1, <2>2, SMTT(30) DEF TypeOK, FileFails, mirror, metadata, Sha
<1>7. ASSUME NEW p \in Runners, Persist(p) PROVE TypeOK'
  BY <1>7 DEF TypeOK, Persist, mirror, Sha
<1>8. ASSUME NEW p \in Runners, Mark(p) PROVE TypeOK'
  <2>1. cursor[p] \in Files /\ NextFile(p) /\ Sha(p) \in Contents
    BY <1>8 DEF TypeOK, Mark, Sha
  <2>2. [sha |-> Sha(p), version |-> parser[p]] \in Record
    BY <2>1 DEF TypeOK, Record
  <2> QED BY <1>3, <1>8, <2>1, <2>2 DEF TypeOK, Mark, Marked, mirror, Sha
<1>9. ASSUME NEW p \in Runners, NEW fate \in {"published", "abandoned"},
             SnapshotBecomes(p, fate), EndRun(p),
             failed' \in [Runners -> BOOLEAN], faults' \in 0..MaxFaults
      PROVE  TypeOK'
  <2>1. 1 \in 1..(NumFiles + 1)
    BY Numbers
  <2>2. NothingListed \in [Files -> Contents \union {Absent}]
    BY DEF NothingListed
  <2> QED BY <1>9, <2>1, <2>2 DEF TypeOK, SnapshotBecomes, EndRun, mirror, Sha
<1>10. ASSUME NEW p \in Runners, Publish(p) PROVE TypeOK'
  BY <1>9, <1>10 DEF TypeOK, Publish
<1>11. ASSUME NEW p \in Runners, Die(p) PROVE TypeOK'
  <2>1. faults' \in 0..MaxFaults
    BY <1>11, Numbers DEF TypeOK, Die, Fault
  <2> QED BY <1>9, <1>11, <2>1 DEF TypeOK, Die
<1>12. CASE Environment
  <2>1. /\ remote' \in [Files -> Contents]
        /\ disk' \in [Files -> Contents \union {Absent}]
        /\ digest' \in [Files -> Contents \union {Absent}]
        /\ installed' \in Versions
    <3>1. ASSUME NEW f \in Files, Upstream(f) PROVE remote[f] + 1 \in Contents
      <4>1. /\ remote[f] \in Contents /\ LastContent[f] \in Contents
            /\ remote[f] < LastContent[f]
        BY <3>1, LastAssumption DEF TypeOK, Upstream
      <4> QED BY <4>1, Numbers DEF Contents
    <3>2. ASSUME Upgrade PROVE installed + 1 \in Versions
      BY <3>2, Numbers DEF TypeOK, Upgrade, Versions
    <3>3. ASSUME NEW f \in Files, Upstream(f) \/ Fetch(f) \/ Store(f) \/ Remove(f)
          PROVE  /\ remote' \in [Files -> Contents]
                 /\ disk' \in [Files -> Contents \union {Absent}]
                 /\ digest' \in [Files -> Contents \union {Absent}]
                 /\ installed' \in Versions
      <4>1. CASE Upstream(f)
        BY <3>1, <4>1 DEF TypeOK, Upstream
      <4>2. CASE Fetch(f) \/ Store(f) \/ Remove(f)
        BY <4>2 DEF TypeOK, Fetch, Store, Remove
      <4> QED BY <3>3, <4>1, <4>2
    <3>4. ASSUME Upgrade
          PROVE  /\ UNCHANGED <<remote, disk, digest>>
                 /\ installed' \in Versions
      BY <3>2, <3>4 DEF TypeOK, Upgrade
    <3> QED
      BY <1>12, <3>3, <3>4 DEF TypeOK, Environment
  <2> QED BY <1>12, <2>1 DEF TypeOK, Environment, metadata, Sha
<1>13. CASE UNCHANGED vars
  BY <1>13 DEF TypeOK, vars, mirror, metadata, Sha
<1> QED
  BY <1>1, <1>2, <1>4, <1>5, <1>6, <1>7, <1>8, <1>10, <1>11, <1>12, <1>13 DEF Next, Step

(* The stores and the locals of every run always have the shapes TypeOK gives. *)
THEOREM IndexerTypeCorrect == Spec => []TypeOK
BY InitType, StepType, PTL DEF Spec

-----------------------------------------------------------------------------
(* What never goes back: an instance stays stored, a content stays passed. *)

LEMMA StoredStays == TypeOK /\ [Next]_vars => Stored \subseteq Stored'
<1> SUFFICES ASSUME TypeOK, [Next]_vars, NEW k \in Keys, owner[k] # "none"
             PROVE  owner'[k] # "none"
  BY DEF Stored
<1>1. ASSUME NEW p \in Runners, Persist(p) PROVE owner'[k] # "none"
  BY <1>1 DEF Persist, Stored
<1>2. ASSUME NEW p \in Runners, NEW fate \in {"published", "abandoned"},
             SnapshotBecomes(p, fate)
      PROVE  owner'[k] # "none"
  BY <1>2 DEF SnapshotBecomes
<1>3. ASSUME NEW p \in Runners, Publish(p) \/ Die(p) PROVE owner'[k] # "none"
  BY <1>2, <1>3 DEF Publish, Die
<1>4. ASSUME NEW p \in Runners,
             Start(p) \/ List(p) \/ Skip(p) \/ Read(p) \/ Mark(p) \/ FileFails(p)
      PROVE  UNCHANGED owner
  BY <1>4 DEF Start, List, Skip, Read, Mark, FileFails, metadata
<1>5. CASE Environment \/ UNCHANGED vars
  BY <1>5 DEF Environment, vars, metadata
<1> QED BY <1>1, <1>3, <1>4, <1>5 DEF Next, Step

(* A step of a run leaves the mirror alone, and the mirror leaves runs alone. *)
LEMMA RunsKeepMirror ==
  ASSUME NEW p \in Runners, Step(p) \/ FileFails(p) \/ Die(p)
  PROVE  UNCHANGED mirror
BY DEF Step, Start, List, Skip, Read, Persist, Mark, Publish, FileFails, Die, EndRun

(* How a step of the mirror moves one file. *)
LEMMA MirrorMoves ==
  ASSUME TypeOK, Environment, NEW f \in Files
  PROVE  \/ UNCHANGED <<disk[f], digest[f]>> /\ remote'[f] = remote[f]
         \/ UNCHANGED <<disk[f], digest[f]>> /\ remote'[f] = remote[f] + 1
         \/ UNCHANGED <<remote[f], digest[f]>> /\ disk'[f] \in {remote[f], Absent}
         \/ UNCHANGED <<remote[f], disk[f]>> /\ disk[f] # Absent /\ digest'[f] = disk[f]
BY DEF TypeOK, Environment, Upstream, Fetch, Store, Remove, Upgrade

LEMMA PassedStays ==
  ASSUME TypeOK, [Next]_vars, NEW f \in Files, NEW s \in Contents, Passed(f, s)
  PROVE  Passed(f, s)'
<1>0. s \in Nat /\ s # Absent /\ remote[f] \in Nat /\ s < remote[f] /\ disk[f] # s
  BY Numbers DEF TypeOK, Passed, Absent
<1>1. CASE Environment
  <2>1. PICK r \in Nat : r = remote'[f] /\ s < r
    BY <1>0, <1>1, MirrorMoves
  <2>2. disk'[f] # s
    BY <1>0, <1>1, MirrorMoves
  <2> QED BY <2>1, <2>2 DEF Passed
<1>2. ASSUME UNCHANGED mirror PROVE Passed(f, s)'
  BY <1>0, <1>2 DEF Passed, mirror
<1> QED BY <1>1, <1>2, RunsKeepMirror DEF Next, vars

(* So a file that is dealt with stays dealt with. *)
LEMMA SettledStays ==
  ASSUME TypeOK, [Next]_vars, NEW f \in Files, NEW s \in Contents, NEW v \in Versions,
         Backed(f, s, v) \/ Passed(f, s)
  PROVE  Backed(f, s, v)' \/ Passed(f, s)'
BY StoredStays, PassedStays DEF Backed

(* Contents move forward only. *)
LEMMA StepForward == TypeOK /\ Forward /\ [Next]_vars => Forward'
<1> SUFFICES ASSUME TypeOK, Forward, [Next]_vars, NEW f \in Files
             PROVE  /\ (disk[f] <= remote[f])'
                    /\ (digest[f] <= remote[f])'
                    /\ (disk[f] # Absent => digest[f] <= disk[f])'
                    /\ \A p \in Runners :
                         /\ (listed[p][f] <= remote[f])'
                         /\ (disk[f] # Absent => listed[p][f] <= disk[f])'
  BY DEF Forward
<1>0. /\ disk[f] \in Nat /\ digest[f] \in Nat /\ remote[f] \in Nat
      /\ \A p \in Runners : listed[p][f] \in Nat
  <2>1. Contents \subseteq Nat /\ Contents \union {Absent} \subseteq Nat
    BY Numbers DEF Absent
  <2> QED BY <2>1 DEF TypeOK
<1>1. CASE Environment
  <2>1. UNCHANGED listed
    BY <1>1 DEF Environment
  <2>2. PICK d \in Nat, g \in Nat, r \in Nat :
          d = disk'[f] /\ g = digest'[f] /\ r = remote'[f]
    BY <1>0, <1>1, MirrorMoves DEF Absent
  <2>3. \/ d = disk[f] /\ g = digest[f] /\ r = remote[f]
        \/ d = disk[f] /\ g = digest[f] /\ r = remote[f] + 1
        \/ r = remote[f] /\ g = digest[f] /\ d \in {remote[f], Absent}
        \/ r = remote[f] /\ d = disk[f] /\ d # Absent /\ g = disk[f]
    BY <1>1, <2>2, MirrorMoves
  <2>4. /\ d <= r /\ g <= r /\ (d # Absent => g <= d)
        /\ \A p \in Runners : listed[p][f] <= r /\ (d # Absent => listed[p][f] <= d)
    BY <1>0, <2>2, <2>3 DEF Forward, Absent
  <2> QED BY <2>1, <2>2, <2>4
<1>2. ASSUME UNCHANGED mirror,
             \A p \in Runners : listed'[p][f] \in {listed[p][f], digest[f], Absent}
      PROVE  /\ (disk[f] <= remote[f])'
             /\ (digest[f] <= remote[f])'
             /\ (disk[f] # Absent => digest[f] <= disk[f])'
             /\ \A p \in Runners :
                  /\ (listed[p][f] <= remote[f])'
                  /\ (disk[f] # Absent => listed[p][f] <= disk[f])'
  <2>1. \A l \in {digest[f], Absent} :
          l <= remote[f] /\ (disk[f] # Absent => l <= disk[f])
    BY <1>0 DEF Forward, Absent
  <2> QED BY <1>0, <1>2, <2>1 DEF Forward, mirror
<1>3. ASSUME NEW p \in Runners, Step(p) \/ FileFails(p) \/ Die(p)
      PROVE  \A q \in Runners : listed'[q][f] \in {listed[q][f], digest[f], Absent}
  BY <1>3 DEF TypeOK, Step, Start, List, Skip, Read, Persist, Mark, Publish, FileFails, Die,
       EndRun, NothingListed
<1>4. CASE UNCHANGED vars
  BY <1>2, <1>4 DEF vars
<1> QED BY <1>1, <1>2, <1>3, <1>4, RunsKeepMirror DEF Next

-----------------------------------------------------------------------------
(* What a record says, what a run has read and what it is done with. *)

LEMMA InitInv == Init => IInv
<1> SUFFICES ASSUME Init PROVE IInv
  OBVIOUS
<1>1. Forward
  BY Numbers DEF Init, Forward, NothingListed, Absent
<1> QED
  BY <1>1, InitType DEF Init, IInv, RecordsHold, ReadingHolds, DoneHolds

(* The next step of p is one that keeps its list, its parser and its cursor. *)
LEMMA OthersKeep ==
  ASSUME TypeOK, NEW p \in Runners, NEW q \in Runners, q # p,
         Step(p) \/ FileFails(p) \/ Die(p)
  PROVE  /\ pc'[q] = pc[q] /\ parser'[q] = parser[q] /\ listed'[q] = listed[q]
         /\ cursor'[q] = cursor[q] /\ content'[q] = content[q] /\ failed'[q] = failed[q]
BY DEF TypeOK, Step, Start, List, Skip, Read, Persist, Mark, Publish, FileFails, Die, EndRun,
     NextFile

LEMMA RunKept ==
  ASSUME IInv, [Next]_vars, NEW q \in Runners,
         /\ pc'[q] = pc[q] /\ parser'[q] = parser[q] /\ listed'[q] = listed[q]
         /\ cursor'[q] = cursor[q] /\ content'[q] = content[q] /\ failed'[q] = failed[q]
  PROVE  ReadingHolds(q)' /\ DoneHolds(q)'
<1>0. TypeOK /\ ReadingHolds(q) /\ DoneHolds(q)
  BY DEF IInv
<1>1. ReadingHolds(q)'
  <2>1. Sha(q)' = Sha(q) /\ Parsed(q)' = Parsed(q)
    BY DEF Sha, Parsed
  <2>2. pc[q] \in {"persist", "mark"} => cursor[q] \in Files /\ Sha(q) \in Contents
    BY <1>0 DEF TypeOK, Sha
  <2> QED BY <1>0, <2>1, <2>2, StoredStays, PassedStays DEF ReadingHolds, Passed
<1>2. DoneHolds(q)'
  <2> SUFFICES ASSUME pc[q] \in {"file", "persist", "mark"}, ~failed[q],
                      NEW f \in Files, f < cursor[q], listed[q][f] # Absent
               PROVE  Backed(f, listed[q][f], parser[q])' \/ Passed(f, listed[q][f])'
    BY DEF DoneHolds
  <2>1. listed[q][f] \in Contents /\ parser[q] \in Versions
    BY <1>0 DEF TypeOK
  <2>2. Backed(f, listed[q][f], parser[q]) \/ Passed(f, listed[q][f])
    BY <1>0 DEF DoneHolds
  <2> QED BY <1>0, <2>1, <2>2, SettledStays DEF Backed, Passed
<1> QED BY <1>1, <1>2

(* The file a run has finished with joins those it is done with. *)
LEMMA FileDone ==
  ASSUME IInv, [Next]_vars, NEW p \in Runners, pc[p] \in {"file", "persist", "mark"},
         cursor[p] \in Files, NextFile(p), UNCHANGED <<listed, parser>>,
         failed'[p] \/ ( /\ failed'[p] = failed[p]
                         /\ Sha(p) # Absent =>
                              \/ Backed(cursor[p], Sha(p), parser[p])
                              \/ Passed(cursor[p], Sha(p)) )
  PROVE  ReadingHolds(p)' /\ DoneHolds(p)'
<1>0. TypeOK /\ DoneHolds(p)
  BY DEF IInv
<1>1. pc'[p] = "file" /\ cursor'[p] = cursor[p] + 1
  BY <1>0 DEF TypeOK, NextFile
<1>2. ReadingHolds(p)'
  BY <1>1 DEF ReadingHolds
<1>3. DoneHolds(p)'
  <2> SUFFICES ASSUME ~failed'[p], NEW f \in Files, f < cursor[p] + 1, listed[p][f] # Absent
               PROVE  Backed(f, listed[p][f], parser[p])' \/ Passed(f, listed[p][f])'
    BY <1>1 DEF DoneHolds
  <2>1. f < cursor[p] \/ f = cursor[p]
    <3>1. f \in Nat /\ cursor[p] \in Nat
      BY Numbers
    <3> QED BY <3>1
  <2>2. Backed(f, listed[p][f], parser[p]) \/ Passed(f, listed[p][f])
    BY <1>0, <2>1 DEF DoneHolds, Sha
  <2>3. listed[p][f] \in Contents /\ parser[p] \in Versions
    BY <1>0 DEF TypeOK
  <2> QED BY <1>0, <2>2, <2>3, SettledStays DEF Backed, Passed
<1> QED BY <1>2, <1>3

(* A step of p keeps what holds of p. *)
LEMMA RunStep ==
  ASSUME IInv, [Next]_vars, NEW p \in Runners, Step(p) \/ FileFails(p) \/ Die(p)
  PROVE  ReadingHolds(p)' /\ DoneHolds(p)'
<1>0. TypeOK /\ Forward /\ RecordsHold /\ ReadingHolds(p) /\ DoneHolds(p)
  BY DEF IInv
<1>1. ASSUME pc'[p] \in {"idle", "list"} PROVE ReadingHolds(p)' /\ DoneHolds(p)'
  BY <1>1 DEF ReadingHolds, DoneHolds
<1>2. CASE Start(p) \/ Publish(p) \/ Die(p)
  BY <1>0, <1>1, <1>2 DEF TypeOK, Start, Publish, Die, EndRun
<1>3. CASE List(p)
  <2>1. pc'[p] = "file" /\ cursor'[p] = 1
    BY <1>0, <1>3 DEF TypeOK, List
  <2>2. \A f \in Files : ~(f < 1)
    BY Numbers DEF Files
  <2> QED BY <2>1, <2>2 DEF ReadingHolds, DoneHolds
<1>4. CASE Skip(p)
  <2>1. cursor[p] \in Files /\ pc[p] = "file" /\ UNCHANGED <<listed, parser, failed>>
    BY <1>4 DEF Skip, AtFile
  <2>2. ASSUME Sha(p) # Absent
        PROVE  Backed(cursor[p], Sha(p), parser[p]) \/ Passed(cursor[p], Sha(p))
    <3>1. record[cursor[p]].sha = Sha(p) /\ record[cursor[p]].version = parser[p]
      BY <1>4, <2>2 DEF Skip, ShouldSkip
    <3>2. record[cursor[p]] # NoRecord
      BY <2>2, <3>1, RecordShape
    <3> QED BY <1>0, <2>1, <3>1, <3>2 DEF RecordsHold
  <2> QED BY <1>4, <2>1, <2>2, FileDone DEF Skip
<1>5. CASE Read(p)
  <2> DEFINE f == cursor[p]
  <2>1. /\ f \in Files /\ disk[f] # Absent /\ disk[f] \in Contents
        /\ Sha(p) \in Contents /\ remote[f] \in Contents
    BY <1>0, <1>5 DEF TypeOK, Read, AtFile, Sha
  <2>2. /\ pc'[p] = "persist" /\ content'[p] = disk[f] /\ Sha(p)' = Sha(p)
        /\ UNCHANGED <<cursor, listed, parser, failed, disk, remote>>
    BY <1>0, <1>5 DEF TypeOK, Read, Sha, mirror
  <2>3. disk[f] = Sha(p) \/ Passed(f, Sha(p))
    <3>1. Sha(p) <= disk[f] /\ disk[f] <= remote[f]
      BY <1>0, <2>1 DEF Forward, Sha
    <3>2. Sha(p) \in Nat /\ disk[f] \in Nat /\ remote[f] \in Nat
      BY <2>1, Numbers
    <3>3. disk[f] = Sha(p) \/ (Sha(p) < remote[f] /\ disk[f] # Sha(p))
      BY <3>1, <3>2
    <3> QED BY <3>3 DEF Passed
  <2>4. ReadingHolds(p)'
    BY <2>2, <2>3 DEF ReadingHolds, Passed
  <2>5. DoneHolds(p)'
    <3>1. pc[p] = "file" /\ UNCHANGED owner
      BY <1>5 DEF Read, AtFile, metadata
    <3> QED BY <1>0, <2>2, <3>1 DEF DoneHolds, Backed, Passed, Stored
  <2> QED BY <2>4, <2>5
<1>6. CASE FileFails(p)
  <2>1. cursor[p] \in Files /\ pc[p] \in {"file", "persist"}
    BY <1>0, <1>6 DEF TypeOK, FileFails, AtFile
  <2>2. failed'[p] /\ NextFile(p) /\ UNCHANGED <<listed, parser>>
    BY <1>0, <1>6 DEF TypeOK, FileFails
  <2> QED BY <2>1, <2>2, FileDone
<1>7. CASE Persist(p)
  <2>1. /\ pc[p] = "persist" /\ pc'[p] = "mark" /\ Sha(p)' = Sha(p)
        /\ UNCHANGED <<cursor, content, listed, parser, failed, disk, remote>>
    BY <1>0, <1>7 DEF TypeOK, Persist, Sha, mirror
  <2>2. Parsed(p) \subseteq Keys /\ Parsed(p)' = Parsed(p)
    BY <1>0, <2>1, KeysAssumption DEF TypeOK, Parsed
  <2>3. Parsed(p) \subseteq Stored'
    <3>1. ASSUME NEW k \in Parsed(p) PROVE owner'[k] # "none"
      BY <1>7, <2>2, <3>1, RunnersAssumption DEF Persist, Stored
    <3> QED BY <2>2, <3>1 DEF Stored
  <2>4. ReadingHolds(p)'
    BY <1>0, <2>1, <2>2, <2>3 DEF ReadingHolds, Passed
  <2>5. DoneHolds(p)'
    BY <1>0, <2>1, StoredStays DEF DoneHolds, Backed, Passed
  <2> QED BY <2>4, <2>5
<1>8. CASE Mark(p)
  <2>1. /\ cursor[p] \in Files /\ pc[p] = "mark" /\ NextFile(p)
        /\ UNCHANGED <<listed, parser, failed>>
    BY <1>0, <1>8 DEF TypeOK, Mark
  <2>2. Backed(cursor[p], Sha(p), parser[p]) \/ Passed(cursor[p], Sha(p))
    BY <1>0, <2>1 DEF ReadingHolds, Backed, Parsed
  <2> QED BY <2>1, <2>2, FileDone
<1> QED BY <1>2, <1>3, <1>4, <1>5, <1>6, <1>7, <1>8 DEF Step

(* Records change in Mark only. *)
LEMMA StepRecords == IInv /\ [Next]_vars => RecordsHold'
<1> SUFFICES ASSUME IInv, [Next]_vars, NEW f \in Files, record'[f] # NoRecord
             PROVE  \/ Backed(f, record[f].sha, record[f].version)'
                    \/ Passed(f, record[f].sha)'
  BY DEF RecordsHold
<1>0. TypeOK /\ RecordsHold
  BY DEF IInv
<1>1. ASSUME record'[f] = record[f]
      PROVE  \/ Backed(f, record[f].sha, record[f].version)'
             \/ Passed(f, record[f].sha)'
  <2>1. record[f].sha \in Contents /\ record[f].version \in Versions
    BY <1>0, <1>1 DEF TypeOK, Record
  <2>2. Backed(f, record[f].sha, record[f].version) \/ Passed(f, record[f].sha)
    BY <1>0, <1>1 DEF RecordsHold
  <2> QED BY <1>0, <1>1, <2>1, <2>2, SettledStays DEF Backed, Passed
<1>2. ASSUME NEW p \in Runners, Mark(p), record'[f] # record[f]
      PROVE  \/ Backed(f, record[f].sha, record[f].version)'
             \/ Passed(f, record[f].sha)'
  <2>1. /\ f = cursor[p] /\ record'[f].sha = Sha(p) /\ record'[f].version = parser[p]
        /\ pc[p] = "mark"
    BY <1>0, <1>2 DEF TypeOK, Mark, Marked
  <2>2. Sha(p) \in Contents /\ parser[p] \in Versions
    BY <1>0, <2>1 DEF TypeOK, Sha
  <2>3. Backed(f, Sha(p), parser[p]) \/ Passed(f, Sha(p))
    BY <2>1 DEF IInv, ReadingHolds, Backed, Parsed
  <2> HIDE DEF IInv
  <2> QED BY <1>0, <2>1, <2>2, <2>3, SettledStays DEF Backed, Passed
<1>3. ASSUME NEW p \in Runners,
             \/ Start(p) \/ List(p) \/ Skip(p) \/ Read(p) \/ Persist(p)
             \/ FileFails(p) \/ Publish(p) \/ Die(p)
      PROVE  UNCHANGED record
  BY <1>3 DEF Start, List, Skip, Read, Persist, FileFails, Publish, Die, EndRun, metadata
<1>4. CASE Environment \/ UNCHANGED vars
  BY <1>1, <1>4 DEF Environment, vars, metadata
<1> QED BY <1>1, <1>2, <1>3, <1>4 DEF Next, Step

LEMMA StepInv == IInv /\ [Next]_vars => IInv'
<1> SUFFICES ASSUME IInv, [Next]_vars PROVE IInv'
  OBVIOUS
<1>1. TypeOK' /\ Forward' /\ RecordsHold'
  BY StepType, StepForward, StepRecords DEF IInv
<1>2. ASSUME NEW q \in Runners PROVE ReadingHolds(q)' /\ DoneHolds(q)'
  <2>0. TypeOK
    BY DEF IInv
  <2>1. CASE Step(q) \/ FileFails(q) \/ Die(q)
    BY <2>1, RunStep
  <2>2. ASSUME NEW p \in Runners, p # q, Step(p) \/ FileFails(p) \/ Die(p)
        PROVE  ReadingHolds(q)' /\ DoneHolds(q)'
    BY <2>0, <2>2, OthersKeep, RunKept
  <2>3. CASE Environment \/ UNCHANGED vars
    <3>1. UNCHANGED <<pc, parser, listed, cursor, content, failed>>
      BY <2>3 DEF Environment, vars
    <3> QED BY <3>1, RunKept
  <2> QED BY <2>1, <2>2, <2>3 DEF Next
<1> QED BY <1>1, <1>2 DEF IInv

LEMMA AlwaysInv == Spec => []IInv
BY InitInv, StepInv, PTL DEF Spec

(* An IndexingRecord whose digest is that of the cached file tells the truth: *)
(* all packages of that file are in metadata.db, whatever the mirror replaced *)
(* while the file was indexed, and whichever run died where.                  *)
THEOREM RecordsAreBacked == Spec => []RecordIsBacked
<1>1. IInv => RecordIsBacked
  BY DEF IInv, RecordsHold, RecordIsBacked, Backed, Passed
<1> QED BY <1>1, AlwaysInv, PTL

(* A run that gives no file up leaves no package of an unchanged file out. *)
THEOREM NothingLeftOut == Spec => PublishedIsWhole
<1>1. IInv /\ [Next]_vars =>
        [ \A p \in Runners : Publish(p) /\ ~failed[p] =>
            \A f \in Files : listed[p][f] # Absent /\ listed[p][f] = disk[f] =>
              Lists[f][disk[f]][parser[p]] \subseteq Stored ]_vars
  <2> SUFFICES ASSUME IInv, NEW p \in Runners, Publish(p), ~failed[p],
                      NEW f \in Files, listed[p][f] # Absent, listed[p][f] = disk[f]
               PROVE  Lists[f][disk[f]][parser[p]] \subseteq Stored
    OBVIOUS
  <2>1. f < cursor[p] /\ pc[p] = "file"
    <3>1. cursor[p] \in 1..(NumFiles + 1) /\ cursor[p] \notin Files
      BY DEF IInv, TypeOK, Publish
    <3> QED BY <3>1, Numbers DEF Files, Publish
  <2>2. Backed(f, listed[p][f], parser[p]) \/ Passed(f, listed[p][f])
    BY <2>1 DEF IInv, DoneHolds
  <2> QED BY <2>2 DEF Backed, Passed
<1> QED BY <1>1, AlwaysInv, PTL DEF Spec, PublishedIsWhole
=============================================================================
