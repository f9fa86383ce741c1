------------------------------ MODULE UciProofs -----------------------------
(***************************************************************************)
(* The files and the locks of uci, for any number of processes and changes:  *)
(* the config file is always whole, a change is lost only in one of the       *)
(* windows, and a load that found nothing under way sees what was saved.     *)
(***************************************************************************)
EXTENDS Uci, TLAPS

Where == {"idle", "load", "load_delta", "filter", "rebuild"} \cup Committing
Inode == 0..MaxFiles
ProcState == [pc : Where, ino : Inode, loaded : BOOLEAN, pkg : SUBSET Change,
              new : SUBSET Change, parsed : SUBSET Change, any : BOOLEAN, tmp : Inode,
              keep : SUBSET Change, want : SUBSET Change]

UciTypes ==
    /\ conf \in Inode /\ made \in Inode
    /\ file \in [Inode -> [has : SUBSET Change, whole : BOOLEAN]]
    /\ proc \in [Proc -> ProcState]
    /\ {delta, saved, reverted, exposed} \subseteq SUBSET Change

\* A process has a temporary file.
Writing == {"export", "close", "rename"}

\* A temporary file is no one else's, no one has it open, and the path does not
\* name it; it is whole once it was exported.
TmpPrivate ==
    /\ conf <= made
    /\ \A p \in Proc :
         /\ proc[p].ino <= made
         /\ proc[p].pc \in Writing =>
              /\ proc[p].tmp \in 1..made /\ proc[p].tmp # conf
              /\ \A q \in Proc : proc[q].ino # proc[p].tmp
              /\ \A q \in Proc \ {p} : proc[q].pc \in Writing => proc[q].tmp # proc[p].tmp

\* What a temporary file holds is exported before the path names it.
TmpWhole ==
    /\ file[conf].whole
    /\ \A p \in Proc : proc[p].pc \in {"close", "rename"} => file[proc[p].tmp].whole

\* The delta file is locked while a revert has its contents in memory.
DeltaLocked ==
    /\ dlock # None => delta = {} /\ dlock \in Proc
    /\ \A p \in Proc : /\ dlock = p <=> proc[p].pc = "rebuild"
                       /\ proc[p].keep # {} => proc[p].pc = "rebuild"

\* What a commit has in memory and has exported.
CommitHas ==
    \A p \in Proc :
      /\ proc[p].pc = "parse" => proc[p].pkg = file[proc[p].ino].has
      /\ proc[p].pc \in Emptied \cup {"flush"} =>
           proc[p].pkg = file[proc[p].ino].has \cup proc[p].parsed
      /\ proc[p].pc \in {"close", "rename"} => file[proc[p].tmp].has = proc[p].pkg

\* The files that the path names, or that a commit has read or is to read, hold
\* the same changes, except for exposed ones.
LiveFile(i) == i = conf \/ \E p \in Proc : proc[p].pc \in Committing /\ proc[p].ino = i
SameContents ==
    \A i, j \in Inode : LiveFile(i) /\ LiveFile(j) => file[i].has \subseteq file[j].has \cup exposed

\* What was saved since a commit read the delta file is exposed.
FlushKnows ==
    \A p \in Proc : proc[p].pc = "flush" =>
      /\ delta \subseteq proc[p].parsed \cup exposed
      /\ \A q \in Proc : proc[q].keep \subseteq proc[p].parsed \cup exposed

\* A load for which nothing was under way keeps commits waiting, and what it
\* must find is in what it has read, in the delta file, or goes back there.
LoadOK(p) ==
    /\ proc[p].pc \in {"filter", "rebuild", "load", "load_delta"} => ~proc[p].loaded
    /\ proc[p].pc = "load_delta" /\ proc[p].want # {} =>
         /\ proc[p].ino = conf
         /\ \A q \in Proc : proc[q].pc \in Committing => proc[q].pc = "open" /\ proc[q].ino = conf
         /\ \A c \in proc[p].want \ (reverted \cup exposed) :
              c \in proc[p].pkg \/ c \in delta \/ \E q \in Proc : c \in proc[q].keep
LoadProtected == \A p \in Proc : LoadOK(p)

UciInv == /\ UciTypes /\ TmpPrivate /\ DeltaLocked /\ CommitHas /\ SameContents /\ FlushKnows
          /\ LostOnlyInWindow /\ LoadProtected

----------------------------------------------------------------------------
\* A step of process p leaves it in state r.
Moved(p, r) == /\ proc' \in [Proc -> ProcState] /\ proc'[p] = r
               /\ \A q \in Proc \ {p} : proc'[q] = proc[q]

(* A step that gives process p the state r changes no other process.         *)
LEMMA MovedIs ==
  ASSUME UciTypes, NEW p \in Proc, NEW r \in ProcState, proc' = [proc EXCEPT ![p] = r]
  PROVE  Moved(p, r)
  BY DEF Moved, UciTypes

(* Facts about types that every step needs.                                  *)
LEMMA StateFacts ==
  ASSUME UciTypes
  PROVE  /\ 0 \in Inode /\ conf \in Inode /\ {} \in SUBSET Change
         /\ \A p \in Proc : proc[p] \in ProcState
         /\ \A i \in Inode : file[i].has \in SUBSET Change
         /\ {"idle", "load", "load_delta", "filter", "rebuild", "open", "save", "parse", "flush",
             "mkstemp", "export", "close", "rename"} \subseteq Where
         /\ {delta, saved, reverted, exposed} \subseteq SUBSET Change
         /\ Fresh \in ProcState
<1>1. 0 \in Inode /\ {} \in SUBSET Change
  BY UciAssumption DEF Inode
<1>2. {"idle", "load", "load_delta", "filter", "rebuild", "open", "save", "parse", "flush",
             "mkstemp", "export", "close", "rename"} \subseteq Where
  BY DEF Where, Committing, Locked
<1>3. Fresh \in ProcState
  BY <1>1, <1>2 DEF Fresh, ProcState
<1> QED
  BY <1>1, <1>2, <1>3 DEF UciTypes

(* No file becomes a temporary one, and none is published.                  *)
LEMMA TmpStays ==
  ASSUME UciInv, UciTypes', conf' = conf, made' = made,
         \A q \in Proc : /\ proc'[q].ino \in {0, conf, proc[q].ino}
                         /\ proc'[q].pc \in Writing =>
                              proc[q].pc \in Writing /\ proc'[q].tmp = proc[q].tmp
  PROVE  TmpPrivate'
<1>1. 0 <= made
  BY DEF UciInv, UciTypes, Inode
<1>2. \A q \in Proc : proc'[q].ino <= made
  BY <1>1 DEF UciInv, TmpPrivate
<1>3. ASSUME NEW q \in Proc, proc[q].pc \in Writing
      PROVE  /\ proc[q].tmp \in 1..made /\ proc[q].tmp # conf /\ proc[q].tmp # 0
             /\ \A x \in Proc : proc[x].ino # proc[q].tmp
             /\ \A x \in Proc \ {q} : proc[x].pc \in Writing => proc[x].tmp # proc[q].tmp
  BY <1>3 DEF UciInv, TmpPrivate
<1>4. \A q, x \in Proc : proc[q].pc \in Writing => proc'[x].ino # proc[q].tmp
  BY <1>3
<1> QED
  BY <1>2, <1>3, <1>4 DEF UciInv, TmpPrivate

(* No file is written or published, and who begins a commit opens the file in *)
(* place.                                                                   *)
LEMMA LiveStays ==
  ASSUME UciInv, conf' = conf, file' = file, exposed \subseteq exposed',
         \A q \in Proc : proc'[q].pc \in Committing =>
           proc'[q].ino = conf \/ (proc[q].pc \in Committing /\ proc'[q].ino = proc[q].ino)
  PROVE  SameContents'
<1>1. \A i \in Inode : LiveFile(i)' => LiveFile(i)
  BY DEF LiveFile
<1> QED
  BY <1>1 DEF UciInv, SameContents

(* The loads of the other processes: no commit gets past its lock, and no    *)
(* change is taken from the delta file but by a revert.                     *)
LEMMA LoadStays ==
  ASSUME UciInv, NEW p \in Proc, \A q \in Proc \ {p} : proc'[q] = proc[q], conf' = conf,
         reverted \subseteq reverted', exposed \subseteq exposed',
         proc'[p].pc \in Committing => proc'[p].pc = "open" /\ proc'[p].ino = conf,
         \A c : c \in delta \/ (\E q \in Proc : c \in proc[q].keep) =>
           c \in reverted' \cup exposed' \/ c \in delta' \/ (\E q \in Proc : c \in proc'[q].keep),
         LoadOK(p)'
  PROVE  LoadProtected'
<1> SUFFICES ASSUME NEW r \in Proc, r # p PROVE LoadOK(r)'
  BY DEF LoadProtected
<1>1. proc'[r] = proc[r] /\ LoadOK(r)
  BY DEF UciInv, LoadProtected
<1>2. proc[r].pc \in {"filter", "rebuild", "load", "load_delta"} => ~proc[r].loaded
  BY <1>1 DEF LoadOK
<1> SUFFICES ASSUME proc[r].pc = "load_delta", proc[r].want # {}
             PROVE  /\ proc[r].ino = conf'
                    /\ \A q \in Proc : proc'[q].pc \in Committing =>
                         proc'[q].pc = "open" /\ proc'[q].ino = conf'
                    /\ \A c \in proc[r].want \ (reverted' \cup exposed') :
                         c \in proc[r].pkg \/ c \in delta' \/ \E q \in Proc : c \in proc'[q].keep
  BY <1>1, <1>2 DEF LoadOK
<1>3. /\ proc[r].ino = conf
      /\ \A q \in Proc : proc[q].pc \in Committing => proc[q].pc = "open" /\ proc[q].ino = conf
  BY <1>1 DEF LoadOK
<1>4. \A q \in Proc : proc'[q].pc \in Committing => proc'[q].pc = "open" /\ proc'[q].ino = conf'
  BY <1>3
<1>5. ASSUME NEW c \in proc[r].want \ (reverted' \cup exposed')
      PROVE  c \in proc[r].pkg \/ c \in delta' \/ \E q \in Proc : c \in proc'[q].keep
  <2>1. c \in proc[r].pkg \/ c \in delta \/ \E q \in Proc : c \in proc[q].keep
    BY <1>1, <1>5 DEF LoadOK
  <2> QED
    BY <1>5, <2>1
<1> QED
  BY <1>3, <1>4, <1>5

\* The changes W of p's are held by the delta file.
Appended(p, W) ==
    /\ delta' = delta \cup W /\ saved' = saved \cup proc[p].new /\ reverted' = reverted
    /\ exposed' = exposed \cup
         (IF \E q \in Proc : proc[q].pc = "flush" THEN proc[p].new ELSE proc[p].new \ W)

(* What of its changes a save writes.                                       *)
LEMMA SaveAppends ==
  ASSUME NEW p \in Proc,
         Save(p) \/ \E W \in SUBSET proc[p].new, cut \in BOOLEAN : Append(p, W, cut)
  PROVE  \E W \in SUBSET proc[p].new : Appended(p, W)
<1>1. ASSUME NEW W \in SUBSET proc[p].new, NEW cut, Append(p, W, cut) PROVE Appended(p, W)
  BY <1>1 DEF Append, Appended, At
<1>2. Held(proc[p].new) \subseteq SUBSET proc[p].new
  BY DEF Held
<1>3. CASE Save(p)
  <2>1. PICK W \in Held(proc[p].new), cut \in Cut(proc[p].new) : Append(p, W, cut)
    BY <1>3 DEF Save
  <2> QED
    BY <1>1, <1>2, <2>1
<1>4. CASE \E W \in SUBSET proc[p].new, cut \in BOOLEAN : Append(p, W, cut)
  BY <1>1, <1>4
<1> QED
  BY <1>3, <1>4

(* The lock of a load is granted, and the config file is read.               *)
LEMMA FileLoadKeeps ==
  ASSUME UciInv, NEW p \in Proc, uci_file_load(p)
  PROVE  UciInv'
<1>1. UciTypes /\ proc[p] \in ProcState /\ 0 <= made
  BY StateFacts DEF UciInv, UciTypes, Inode
<1>0. /\ proc'[p].want \in SUBSET Change
      /\ proc'[p].want # {} =>
           /\ proc[p].ino = conf /\ proc'[p].want = saved
           /\ \A q \in Proc : proc[q].pc \in Committing => proc[q].pc = "open" /\ proc[q].ino = conf
  <2>1. \E calm \in BOOLEAN :
          /\ calm => /\ proc[p].ino = conf
                     /\ \A q \in Proc : proc[q].pc \in Committing =>
                          proc[q].pc = "open" /\ proc[q].ino = conf
          /\ proc'[p].want = IF calm THEN saved ELSE {}
    BY <1>1 DEF uci_file_load, At, UciTypes, ProcState
  <2> QED
    BY <1>1, <2>1, StateFacts
<1> DEFINE r == [proc[p] EXCEPT !.pc = "load_delta", !.pkg = file[proc[p].ino].has, !.want = proc'[p].want]
<1>2. Moved(p, r)
  <2>1. r \in ProcState
    BY <1>1, StateFacts, <1>0 DEF ProcState
  <2>2. proc' = [proc EXCEPT ![p] = r]
    BY <1>1 DEF uci_file_load, Holds, UciTypes, ProcState
  <2> QED
    BY <1>1, <2>1, <2>2, MovedIs
<1>3. /\ proc'[p].pc = "load_delta" /\ proc'[p].ino = proc[p].ino
      /\ proc'[p].loaded = proc[p].loaded /\ proc'[p].pkg = file[proc[p].ino].has
      /\ proc'[p].new = proc[p].new /\ proc'[p].parsed = proc[p].parsed
      /\ proc'[p].tmp = proc[p].tmp /\ proc'[p].keep = proc[p].keep
      /\ proc'[p].want = proc'[p].want
      /\ \A q \in Proc \ {p} : proc'[q] = proc[q]
  BY <1>1, <1>2 DEF Moved, ProcState
<1>4. /\ proc[p].pc = "load" /\ conf' = conf /\ made' = made /\ file' = file
      /\ delta' = delta /\ dlock' = dlock /\ saved' = saved /\ reverted' = reverted
      /\ exposed' = exposed
  BY DEF uci_file_load, Holds, At, files, deltafile, history
<1>5. UciTypes'
  <2>1. proc' \in [Proc -> ProcState]
    BY <1>2 DEF Moved
  <2> QED
    BY <1>1, <1>4, <2>1, StateFacts DEF UciTypes, ProcState
<1>6. TmpPrivate'
  BY <1>1, <1>3, <1>4, <1>5, TmpStays DEF Writing
<1>7. DeltaLocked'
  BY <1>3, <1>4 DEF UciInv, DeltaLocked
<1>8. CommitHas'
  BY <1>3, <1>4 DEF UciInv, CommitHas, Emptied
<1>9. SameContents'
  BY <1>1, <1>3, <1>4, LiveStays DEF Committing, Locked
<1>10. FlushKnows'
  BY <1>3, <1>4 DEF UciInv, FlushKnows
<1>11. LostOnlyInWindow'
  BY <1>3, <1>4 DEF UciInv, LostOnlyInWindow, Emptied
<1>12. LoadProtected'
  <2>1. LoadOK(p)'
    <3>1. proc[p].pc = "load" /\ ~proc[p].loaded
      BY <1>4 DEF UciInv, LoadProtected, LoadOK
    <3> SUFFICES ASSUME proc'[p].want # {}
                 PROVE  /\ proc[p].ino = conf
                        /\ \A q \in Proc : proc'[q].pc \in Committing =>
                             proc'[q].pc = "open" /\ proc'[q].ino = conf
                        /\ \A c \in proc'[p].want \ (reverted \cup exposed) :
                             c \in proc'[p].pkg \/ c \in delta \/ \E q \in Proc : c \in proc'[q].keep
      BY <1>3, <1>4, <3>1 DEF LoadOK
    <3>2. /\ proc[p].ino = conf /\ proc'[p].want = saved
          /\ \A q \in Proc : proc[q].pc \in Committing => proc[q].pc = "open" /\ proc[q].ino = conf
      BY <1>0
    <3>3. \A q \in Proc : proc'[q].pc \in Committing => proc'[q].pc = "open" /\ proc'[q].ino = conf
      BY <1>3, <3>2 DEF Committing, Locked
    <3>4. \A q \in Proc : proc[q].pc \notin Emptied
      BY <3>2 DEF Committing, Locked, Emptied
    <3>5. \A q \in Proc : proc'[q].keep = proc[q].keep
      BY <1>3
    <3> QED
      BY <1>3, <3>2, <3>3, <3>4, <3>5 DEF UciInv, LostOnlyInWindow
  <2>2. \A c : c \in delta \/ (\E q \in Proc : c \in proc[q].keep) =>
          c \in reverted' \cup exposed' \/ c \in delta' \/ (\E q \in Proc : c \in proc'[q].keep)
    BY <1>3, <1>4
  <2> QED
    BY <1>3, <1>4, <2>1, <2>2, LoadStays DEF Committing, Locked
<1> QED
  BY <1>5, <1>6, <1>7, <1>8, <1>9, <1>10, <1>11, <1>12 DEF UciInv

(* The delta file is read, and the load is done.                             *)
LEMMA LoadDeltaKeeps ==
  ASSUME UciInv, NEW p \in Proc, LoadDelta(p)
  PROVE  UciInv'
<1>1. UciTypes /\ proc[p] \in ProcState /\ 0 <= made
  BY StateFacts DEF UciInv, UciTypes, Inode
<1> DEFINE r == [Fresh EXCEPT !.loaded = TRUE, !.pkg = proc[p].pkg \cup delta]
<1>2. Moved(p, r)
  <2>1. r \in ProcState
    BY <1>1, StateFacts DEF ProcState, Fresh
  <2>2. proc' = [proc EXCEPT ![p] = r]
    BY <1>1 DEF LoadDelta, Fresh, UciTypes, ProcState
  <2> QED
    BY <1>1, <2>1, <2>2, MovedIs
<1>3. /\ proc'[p].pc = "idle" /\ proc'[p].ino = 0 /\ proc'[p].loaded = TRUE
      /\ proc'[p].pkg = proc[p].pkg \cup delta /\ proc'[p].new = {} /\ proc'[p].parsed = {}
      /\ proc'[p].tmp = 0 /\ proc'[p].keep = {} /\ proc'[p].want = {}
      /\ \A q \in Proc \ {p} : proc'[q] = proc[q]
  BY <1>1, <1>2 DEF Moved, ProcState, Fresh
<1>4. /\ proc[p].pc = "load_delta" /\ dlock = None /\ conf' = conf /\ made' = made
      /\ file' = file /\ delta' = delta /\ dlock' = dlock /\ saved' = saved
      /\ reverted' = reverted /\ exposed' = exposed
  BY DEF LoadDelta, Fresh, At, files, deltafile, history
<1>5. UciTypes'
  <2>1. proc' \in [Proc -> ProcState]
    BY <1>2 DEF Moved
  <2> QED
    BY <1>1, <1>4, <2>1, StateFacts DEF UciTypes, ProcState
<1>6. TmpPrivate'
  BY <1>1, <1>3, <1>4, <1>5, TmpStays DEF Writing
<1>7. DeltaLocked'
  BY <1>3, <1>4 DEF UciInv, DeltaLocked
<1>8. CommitHas'
  BY <1>3, <1>4 DEF UciInv, CommitHas, Emptied
<1>9. SameContents'
  BY <1>1, <1>3, <1>4, LiveStays DEF Committing, Locked
<1>10. FlushKnows'
  BY <1>3, <1>4 DEF UciInv, FlushKnows
<1>11. LostOnlyInWindow'
  BY <1>3, <1>4, UciAssumption DEF UciInv, TmpPrivate, DeltaLocked, CommitHas, SameContents,
     LiveFile, FlushKnows, LostOnlyInWindow, Emptied, Committing, Locked, Writing
<1>12. LoadProtected'
  BY <1>3, <1>4, UciAssumption DEF UciInv, DeltaLocked, LostOnlyInWindow, LoadProtected,
     LoadOK, Emptied, Committing, Locked
<1> QED
  BY <1>5, <1>6, <1>7, <1>8, <1>9, <1>10, <1>11, <1>12 DEF UciInv

(* A revert takes the delta out of its file.                                 *)
LEMMA FilterKeeps ==
  ASSUME UciInv, NEW p \in Proc, NEW K \in SUBSET Change, uci_filter_delta(p, K)
  PROVE  UciInv'
<1>1. UciTypes /\ proc[p] \in ProcState /\ 0 <= made
  BY StateFacts DEF UciInv, UciTypes, Inode
<1> DEFINE r == [proc[p] EXCEPT !.pc = "rebuild", !.keep = delta \ K]
<1>2. Moved(p, r)
  <2>1. r \in ProcState
    BY <1>1, StateFacts DEF ProcState
  <2>2. proc' = [proc EXCEPT ![p] = r]
    BY <1>1 DEF uci_filter_delta, UciTypes, ProcState
  <2> QED
    BY <1>1, <2>1, <2>2, MovedIs
<1>3. /\ proc'[p].pc = "rebuild" /\ proc'[p].ino = proc[p].ino
      /\ proc'[p].loaded = proc[p].loaded /\ proc'[p].pkg = proc[p].pkg
      /\ proc'[p].new = proc[p].new /\ proc'[p].parsed = proc[p].parsed
      /\ proc'[p].tmp = proc[p].tmp /\ proc'[p].keep = delta \ K
      /\ proc'[p].want = proc[p].want
      /\ \A q \in Proc \ {p} : proc'[q] = proc[q]
  BY <1>1, <1>2 DEF Moved, ProcState
<1>4. /\ proc[p].pc = "filter" /\ dlock = None /\ conf' = conf /\ made' = made
      /\ file' = file /\ delta' = {} /\ dlock' = p /\ saved' = saved
      /\ reverted' = reverted \cup (delta \cap K) /\ exposed' = exposed
  BY DEF uci_filter_delta, At, files, deltafile, history
<1>5. UciTypes'
  <2>1. proc' \in [Proc -> ProcState]
    BY <1>2 DEF Moved
  <2> QED
    BY <1>1, <1>4, <2>1, StateFacts DEF UciTypes, ProcState
<1>6. TmpPrivate'
  BY <1>1, <1>3, <1>4, <1>5, TmpStays DEF Writing
<1>7. DeltaLocked'
  BY <1>3, <1>4, UciAssumption DEF UciInv, DeltaLocked
<1>8. CommitHas'
  BY <1>3, <1>4 DEF UciInv, CommitHas, Emptied
<1>9. SameContents'
  BY <1>1, <1>3, <1>4, LiveStays DEF Committing, Locked
<1>10. FlushKnows'
  BY <1>3, <1>4 DEF UciInv, FlushKnows
<1>11. LostOnlyInWindow'
  BY <1>3, <1>4, UciAssumption DEF UciInv, TmpPrivate, DeltaLocked, CommitHas, SameContents,
     LiveFile, FlushKnows, LostOnlyInWindow, Emptied, Committing, Locked, Writing
<1>12. LoadProtected'
  BY <1>3, <1>4, UciAssumption DEF UciInv, DeltaLocked, LostOnlyInWindow, LoadProtected,
     LoadOK, Emptied, Committing, Locked
<1> QED
  BY <1>5, <1>6, <1>7, <1>8, <1>9, <1>10, <1>11, <1>12 DEF UciInv

(* A revert meets a torn line.                                               *)
LEMMA FilterFailsKeeps ==
  ASSUME UciInv, NEW p \in Proc, FilterFails(p)
  PROVE  UciInv'
<1>1. UciTypes /\ proc[p] \in ProcState /\ 0 <= made
  BY StateFacts DEF UciInv, UciTypes, Inode
<1> DEFINE r == [proc[p] EXCEPT !.pc = "load", !.ino = conf]
<1>2. Moved(p, r)
  <2>1. r \in ProcState
    BY <1>1, StateFacts DEF ProcState
  <2>2. proc' = [proc EXCEPT ![p] = r]
    BY <1>1 DEF FilterFails, Open, UciTypes, ProcState
  <2> QED
    BY <1>1, <2>1, <2>2, MovedIs
<1>3. /\ proc'[p].pc = "load" /\ proc'[p].ino = conf /\ proc'[p].loaded = proc[p].loaded
      /\ proc'[p].pkg = proc[p].pkg /\ proc'[p].new = proc[p].new /\ proc'[p].parsed = proc[p].parsed
      /\ proc'[p].tmp = proc[p].tmp /\ proc'[p].keep = proc[p].keep
      /\ proc'[p].want = proc[p].want
      /\ \A q \in Proc \ {p} : proc'[q] = proc[q]
  BY <1>1, <1>2 DEF Moved, ProcState
<1>4. /\ proc[p].pc = "filter" /\ conf' = conf /\ made' = made /\ file' = file
      /\ delta' = delta /\ dlock' = dlock /\ saved' = saved /\ reverted' = reverted
      /\ exposed' = exposed
  BY DEF FilterFails, Open, At, files, deltafile, history
<1>5. UciTypes'
  <2>1. proc' \in [Proc -> ProcState]
    BY <1>2 DEF Moved
  <2> QED
    BY <1>1, <1>4, <2>1, StateFacts DEF UciTypes, ProcState
<1>6. TmpPrivate'
  BY <1>1, <1>3, <1>4, <1>5, TmpStays DEF Writing
<1>7. DeltaLocked'
  BY <1>3, <1>4 DEF UciInv, DeltaLocked
<1>8. CommitHas'
  BY <1>3, <1>4 DEF UciInv, CommitHas, Emptied
<1>9. SameContents'
  BY <1>1, <1>3, <1>4, LiveStays DEF Committing, Locked
<1>10. FlushKnows'
  BY <1>3, <1>4 DEF UciInv, FlushKnows
<1>11. LostOnlyInWindow'
  BY <1>3, <1>4 DEF UciInv, LostOnlyInWindow, Emptied
<1>12. LoadProtected'
  <2>1. LoadOK(p)'
    BY <1>3, <1>4 DEF UciInv, LoadProtected, LoadOK
  <2>2. \A c : c \in delta \/ (\E q \in Proc : c \in proc[q].keep) =>
          c \in reverted' \cup exposed' \/ c \in delta' \/ (\E q \in Proc : c \in proc'[q].keep)
    BY <1>3, <1>4
  <2> QED
    BY <1>3, <1>4, <2>1, <2>2, LoadStays DEF Committing, Locked
<1> QED
  BY <1>5, <1>6, <1>7, <1>8, <1>9, <1>10, <1>11, <1>12 DEF UciInv

(* A revert writes the rest back.                                            *)
LEMMA RebuildKeeps ==
  ASSUME UciInv, NEW p \in Proc, RebuildDelta(p)
  PROVE  UciInv'
<1>1. UciTypes /\ proc[p] \in ProcState /\ 0 <= made
  BY StateFacts DEF UciInv, UciTypes, Inode
<1> DEFINE r == [proc[p] EXCEPT !.pc = "load", !.ino = conf, !.keep = {}]
<1>2. Moved(p, r)
  <2>1. r \in ProcState
    BY <1>1, StateFacts DEF ProcState
  <2>2. proc' = [proc EXCEPT ![p] = r]
    BY <1>1 DEF RebuildDelta, Open, UciTypes, ProcState
  <2> QED
    BY <1>1, <2>1, <2>2, MovedIs
<1>3. /\ proc'[p].pc = "load" /\ proc'[p].ino = conf /\ proc'[p].loaded = proc[p].loaded
      /\ proc'[p].pkg = proc[p].pkg /\ proc'[p].new = proc[p].new
      /\ proc'[p].parsed = proc[p].parsed /\ proc'[p].tmp = proc[p].tmp
      /\ proc'[p].keep = {} /\ proc'[p].want = proc[p].want
      /\ \A q \in Proc \ {p} : proc'[q] = proc[q]
  BY <1>1, <1>2 DEF Moved, ProcState
<1>0. PICK W \in SUBSET proc[p].keep : \E cut : Rewrite(proc[p].keep, cut, W)
  BY DEF RebuildDelta, Held
<1>4. /\ proc[p].pc = "rebuild" /\ conf' = conf /\ made' = made /\ file' = file
      /\ delta' = W /\ dlock' = None /\ saved' = saved /\ reverted' = reverted
      /\ exposed' = exposed \cup (proc[p].keep \ W)
  BY <1>0 DEF RebuildDelta, Rewrite, Open, At, files, deltafile, history
<1>5. UciTypes'
  <2>1. proc' \in [Proc -> ProcState]
    BY <1>2 DEF Moved
  <2> QED
    BY <1>1, <1>4, <2>1, StateFacts DEF UciTypes, ProcState
<1>6. TmpPrivate'
  BY <1>1, <1>3, <1>4, <1>5, TmpStays DEF Writing
<1>7. DeltaLocked'
  BY <1>3, <1>4, UciAssumption DEF UciInv, DeltaLocked
<1>8. CommitHas'
  BY <1>3, <1>4 DEF UciInv, CommitHas, Emptied
<1>9. SameContents'
  BY <1>1, <1>3, <1>4, LiveStays DEF Committing, Locked
<1>10. FlushKnows'
  BY <1>3, <1>4 DEF UciInv, FlushKnows
<1>11. LostOnlyInWindow'
  BY <1>3, <1>4, UciAssumption DEF UciInv, TmpPrivate, DeltaLocked, CommitHas, SameContents,
     LiveFile, FlushKnows, LostOnlyInWindow, Emptied, Committing, Locked, Writing
<1>12. LoadProtected'
  <2>1. LoadOK(p)'
    BY <1>3, <1>4 DEF UciInv, LoadProtected, LoadOK
  <2>2. \A c : c \in delta \/ (\E q \in Proc : c \in proc[q].keep) =>
          c \in reverted' \cup exposed' \/ c \in delta' \/ (\E q \in Proc : c \in proc'[q].keep)
    <3>1. dlock = p /\ dlock # None /\ \A q \in Proc : proc[q].keep # {} => q = p
      BY <1>4, UciAssumption DEF UciInv, DeltaLocked
    <3> QED
      BY <1>4, <3>1 DEF UciInv, DeltaLocked
  <2> QED
    BY <1>3, <1>4, <2>1, <2>2, LoadStays DEF Committing, Locked
<1> QED
  BY <1>5, <1>6, <1>7, <1>8, <1>9, <1>10, <1>11, <1>12 DEF UciInv

(* A commit gets its lock.                                                   *)
LEMMA LockKeeps ==
  ASSUME UciInv, NEW p \in Proc, LockConfig(p)
  PROVE  UciInv'
<1>1. UciTypes /\ proc[p] \in ProcState /\ 0 <= made
  BY StateFacts DEF UciInv, UciTypes, Inode
<1> DEFINE r == [proc[p] EXCEPT !.pc = "save"]
<1>2. Moved(p, r)
  <2>1. r \in ProcState
    BY <1>1, StateFacts DEF ProcState
  <2>2. proc' = [proc EXCEPT ![p] = r]
    BY <1>1 DEF LockConfig, Holds, UciTypes, ProcState
  <2> QED
    BY <1>1, <2>1, <2>2, MovedIs
<1>3. /\ proc'[p].pc = "save" /\ proc'[p].ino = proc[p].ino
      /\ proc'[p].loaded = proc[p].loaded /\ proc'[p].pkg = proc[p].pkg
      /\ proc'[p].new = proc[p].new /\ proc'[p].parsed = proc[p].parsed
      /\ proc'[p].tmp = proc[p].tmp /\ proc'[p].keep = proc[p].keep
      /\ proc'[p].want = proc[p].want
      /\ \A q \in Proc \ {p} : proc'[q] = proc[q]
  BY <1>1, <1>2 DEF Moved, ProcState
<1>4. /\ proc[p].pc = "open"
      /\ \A q \in Proc : proc[q].ino = proc[p].ino => proc[q].pc \notin Locked \cup {"load_delta"}
      /\ conf' = conf /\ made' = made /\ file' = file /\ delta' = delta /\ dlock' = dlock
      /\ saved' = saved /\ reverted' = reverted /\ exposed' = exposed
  BY DEF LockConfig, Holds, At, files, deltafile, history
<1>5. UciTypes'
  <2>1. proc' \in [Proc -> ProcState]
    BY <1>2 DEF Moved
  <2> QED
    BY <1>1, <1>4, <2>1, StateFacts DEF UciTypes, ProcState
<1>6. TmpPrivate'
  BY <1>1, <1>3, <1>4, <1>5, TmpStays DEF Writing
<1>7. DeltaLocked'
  BY <1>3, <1>4 DEF UciInv, DeltaLocked
<1>8. CommitHas'
  BY <1>3, <1>4 DEF UciInv, CommitHas, Emptied
<1>9. SameContents'
  BY <1>1, <1>3, <1>4, LiveStays DEF Committing, Locked
<1>10. FlushKnows'
  BY <1>3, <1>4 DEF UciInv, FlushKnows
<1>11. LostOnlyInWindow'
  BY <1>3, <1>4 DEF UciInv, LostOnlyInWindow, Emptied
<1>12. LoadProtected'
  BY <1>3, <1>4 DEF UciInv, LoadProtected, LoadOK, Committing, Locked
<1> QED
  BY <1>5, <1>6, <1>7, <1>8, <1>9, <1>10, <1>11, <1>12 DEF UciInv

(* A commit saves its own changes and reads the file it has locked.          *)
LEMMA SaveReloadKeeps ==
  ASSUME UciInv, NEW p \in Proc, SaveAndReload(p)
  PROVE  UciInv'
<1>1. UciTypes /\ proc[p] \in ProcState /\ 0 <= made
  BY StateFacts DEF UciInv, UciTypes, Inode
<1> DEFINE r == [proc[p] EXCEPT !.pc = "parse", !.new = {}, !.pkg = file[proc[p].ino].has]
<1>2. Moved(p, r)
  <2>1. r \in ProcState
    BY <1>1, StateFacts DEF ProcState
  <2>2. proc' = [proc EXCEPT ![p] = r]
    BY <1>1 DEF SaveAndReload, UciTypes, ProcState
  <2> QED
    BY <1>1, <2>1, <2>2, MovedIs
<1>3. /\ proc'[p].pc = "parse" /\ proc'[p].ino = proc[p].ino
      /\ proc'[p].loaded = proc[p].loaded /\ proc'[p].pkg = file[proc[p].ino].has
      /\ proc'[p].new = {} /\ proc'[p].parsed = proc[p].parsed
      /\ proc'[p].tmp = proc[p].tmp /\ proc'[p].keep = proc[p].keep
      /\ proc'[p].want = proc[p].want
      /\ \A q \in Proc \ {p} : proc'[q] = proc[q]
  BY <1>1, <1>2 DEF Moved, ProcState
<1>0. PICK W \in SUBSET proc[p].new : Appended(p, W)
  BY <1>1, SaveAppends DEF SaveAndReload
<1>4. /\ proc[p].pc = "save" /\ (proc[p].new # {} => dlock = None) /\ conf' = conf
      /\ made' = made /\ file' = file /\ delta' = delta \cup W /\ dlock' = dlock
      /\ saved' = saved \cup proc[p].new /\ reverted' = reverted
      /\ exposed' = exposed \cup (IF \E q \in Proc : proc[q].pc = "flush" THEN proc[p].new ELSE proc[p].new \ W)
  BY <1>0 DEF Appended, SaveAndReload, At, files, deltafile, history
<1>5. UciTypes'
  <2>1. proc' \in [Proc -> ProcState]
    BY <1>2 DEF Moved
  <2> QED
    BY <1>1, <1>4, <2>1, StateFacts DEF UciTypes, ProcState
<1>6. TmpPrivate'
  BY <1>1, <1>3, <1>4, <1>5, TmpStays DEF Writing
<1>7. DeltaLocked'
  BY <1>3, <1>4 DEF UciInv, DeltaLocked
<1>8. CommitHas'
  BY <1>3, <1>4 DEF UciInv, CommitHas, Emptied
<1>9. SameContents'
  BY <1>1, <1>3, <1>4, LiveStays DEF Committing, Locked
<1>10. FlushKnows'
  BY <1>3, <1>4 DEF UciInv, FlushKnows
<1>11. LostOnlyInWindow'
  BY <1>3, <1>4 DEF UciInv, LostOnlyInWindow, Emptied
<1>12. LoadProtected'
  BY <1>3, <1>4 DEF UciInv, LoadProtected, LoadOK, Committing, Locked
<1> QED
  BY <1>5, <1>6, <1>7, <1>8, <1>9, <1>10, <1>11, <1>12 DEF UciInv

(* A commit reads the delta file.                                            *)
LEMMA ParseKeeps ==
  ASSUME UciInv, NEW p \in Proc, ParseDelta(p)
  PROVE  UciInv'
<1>1. UciTypes /\ proc[p] \in ProcState /\ 0 <= made
  BY StateFacts DEF UciInv, UciTypes, Inode
<1> DEFINE r == [proc[p] EXCEPT !.pc = "flush", !.parsed = delta, !.any = proc'[p].any,
                           !.pkg = proc[p].pkg \cup delta]
<1>2. Moved(p, r)
  <2>0. PICK any \in BOOLEAN : proc' = [proc EXCEPT ![p].pc = "flush", ![p].parsed = delta,
                                                  ![p].any = any, ![p].pkg = @ \cup delta]
    BY DEF ParseDelta
  <2>1. proc'[p].any = any /\ r \in ProcState
    BY <1>1, <2>0, StateFacts DEF UciTypes, ProcState
  <2>2. proc' = [proc EXCEPT ![p] = r]
    BY <1>1, <2>0, <2>1 DEF UciTypes, ProcState
  <2> QED
    BY <1>1, <2>1, <2>2, MovedIs
<1>3. /\ proc'[p].pc = "flush" /\ proc'[p].ino = proc[p].ino
      /\ proc'[p].loaded = proc[p].loaded /\ proc'[p].pkg = proc[p].pkg \cup delta
      /\ proc'[p].new = proc[p].new /\ proc'[p].parsed = delta
      /\ proc'[p].tmp = proc[p].tmp /\ proc'[p].keep = proc[p].keep
      /\ proc'[p].want = proc[p].want
      /\ \A q \in Proc \ {p} : proc'[q] = proc[q]
  BY <1>1, <1>2 DEF Moved, ProcState
<1>4. /\ proc[p].pc = "parse" /\ dlock = None /\ conf' = conf /\ made' = made
      /\ file' = file /\ delta' = delta /\ dlock' = dlock /\ saved' = saved
      /\ reverted' = reverted /\ exposed' = exposed
  BY DEF ParseDelta, At, files, deltafile, history
<1>5. UciTypes'
  <2>1. proc' \in [Proc -> ProcState]
    BY <1>2 DEF Moved
  <2> QED
    BY <1>1, <1>4, <2>1, StateFacts DEF UciTypes, ProcState
<1>6. TmpPrivate'
  BY <1>1, <1>3, <1>4, <1>5, TmpStays DEF Writing
<1>7. DeltaLocked'
  BY <1>3, <1>4 DEF UciInv, DeltaLocked
<1>8. CommitHas'
  BY <1>3, <1>4 DEF UciInv, CommitHas, Emptied
<1>9. SameContents'
  BY <1>1, <1>3, <1>4, LiveStays DEF Committing, Locked
<1>10. FlushKnows'
  BY <1>3, <1>4, UciAssumption DEF UciInv, FlushKnows, DeltaLocked
<1>11. LostOnlyInWindow'
  BY <1>3, <1>4 DEF UciInv, LostOnlyInWindow, Emptied
<1>12. LoadProtected'
  BY <1>3, <1>4 DEF UciInv, LoadProtected, LoadOK, Committing, Locked
<1> QED
  BY <1>5, <1>6, <1>7, <1>8, <1>9, <1>10, <1>11, <1>12 DEF UciInv

(* A commit finds no change.                                                 *)
LEMMA FlushNothingKeeps ==
  ASSUME UciInv, NEW p \in Proc, FlushDelta(p), ~proc[p].any
  PROVE  UciInv'
<1>1. UciTypes /\ proc[p] \in ProcState /\ 0 <= made
  BY StateFacts DEF UciInv, UciTypes, Inode
<1> DEFINE r == [proc[p] EXCEPT !.pc = "idle", !.ino = 0]
<1>2. Moved(p, r)
  <2>1. r \in ProcState
    BY <1>1, StateFacts DEF ProcState
  <2>2. proc' = [proc EXCEPT ![p] = r]
    BY <1>1 DEF FlushDelta, UciTypes, ProcState
  <2> QED
    BY <1>1, <2>1, <2>2, MovedIs
<1>3. /\ proc'[p].pc = "idle" /\ proc'[p].ino = 0 /\ proc'[p].loaded = proc[p].loaded
      /\ proc'[p].pkg = proc[p].pkg /\ proc'[p].new = proc[p].new
      /\ proc'[p].parsed = proc[p].parsed /\ proc'[p].tmp = proc[p].tmp
      /\ proc'[p].keep = proc[p].keep /\ proc'[p].want = proc[p].want
      /\ \A q \in Proc \ {p} : proc'[q] = proc[q]
  BY <1>1, <1>2 DEF Moved, ProcState
<1>4. /\ proc[p].pc = "flush" /\ dlock = None /\ conf' = conf /\ made' = made
      /\ file' = file /\ delta' = delta /\ dlock' = dlock /\ saved' = saved
      /\ reverted' = reverted /\ exposed' = exposed
  BY DEF FlushDelta, At, files, deltafile, history
<1>5. UciTypes'
  <2>1. proc' \in [Proc -> ProcState]
    BY <1>2 DEF Moved
  <2> QED
    BY <1>1, <1>4, <2>1, StateFacts DEF UciTypes, ProcState
<1>6. TmpPrivate'
  BY <1>1, <1>3, <1>4, <1>5, TmpStays DEF Writing
<1>7. DeltaLocked'
  BY <1>3, <1>4 DEF UciInv, DeltaLocked
<1>8. CommitHas'
  BY <1>3, <1>4 DEF UciInv, CommitHas, Emptied
<1>9. SameContents'
  BY <1>1, <1>3, <1>4, LiveStays DEF Committing, Locked
<1>10. FlushKnows'
  BY <1>3, <1>4 DEF UciInv, FlushKnows
<1>11. LostOnlyInWindow'
  BY <1>3, <1>4 DEF UciInv, LostOnlyInWindow, Emptied
<1>12. LoadProtected'
  BY <1>3, <1>4 DEF UciInv, LoadProtected, LoadOK, Committing, Locked
<1> QED
  BY <1>5, <1>6, <1>7, <1>8, <1>9, <1>10, <1>11, <1>12 DEF UciInv

(* A commit empties the delta file: what it did not read is exposed.         *)
LEMMA FlushKeeps ==
  ASSUME UciInv, NEW p \in Proc, FlushDelta(p), proc[p].any
  PROVE  UciInv'
<1>1. UciTypes /\ proc[p] \in ProcState /\ 0 <= made
  BY StateFacts DEF UciInv, UciTypes, Inode
<1> DEFINE r == [proc[p] EXCEPT !.pc = "mkstemp", !.any = FALSE]
<1>2. Moved(p, r)
  <2>1. r \in ProcState
    BY <1>1, StateFacts DEF ProcState
  <2>2. proc' = [proc EXCEPT ![p] = r]
    BY <1>1 DEF FlushDelta, UciTypes, ProcState
  <2> QED
    BY <1>1, <2>1, <2>2, MovedIs
<1>3. /\ proc'[p].pc = "mkstemp" /\ proc'[p].ino = proc[p].ino
      /\ proc'[p].loaded = proc[p].loaded /\ proc'[p].pkg = proc[p].pkg
      /\ proc'[p].new = proc[p].new /\ proc'[p].parsed = proc[p].parsed
      /\ proc'[p].tmp = proc[p].tmp /\ proc'[p].keep = proc[p].keep
      /\ proc'[p].want = proc[p].want
      /\ \A q \in Proc \ {p} : proc'[q] = proc[q]
  BY <1>1, <1>2 DEF Moved, ProcState
<1>4. /\ proc[p].pc = "flush" /\ dlock = None /\ conf' = conf /\ made' = made
      /\ file' = file /\ delta' = {} /\ dlock' = dlock /\ saved' = saved
      /\ reverted' = reverted /\ exposed' = exposed
  BY DEF FlushDelta, At, files, deltafile, history
<1>5. UciTypes'
  <2>1. proc' \in [Proc -> ProcState]
    BY <1>2 DEF Moved
  <2> QED
    BY <1>1, <1>4, <2>1, StateFacts DEF UciTypes, ProcState
<1>6. TmpPrivate'
  BY <1>1, <1>3, <1>4, <1>5, TmpStays DEF Writing
<1>7. DeltaLocked'
  BY <1>3, <1>4 DEF UciInv, DeltaLocked
<1>8. CommitHas'
  BY <1>3, <1>4 DEF UciInv, CommitHas, Emptied
<1>9. SameContents'
  BY <1>1, <1>3, <1>4, LiveStays DEF Committing, Locked
<1>10. FlushKnows'
  BY <1>3, <1>4 DEF UciInv, FlushKnows
<1>11. LostOnlyInWindow'
  BY <1>3, <1>4, UciAssumption DEF UciInv, TmpPrivate, DeltaLocked, CommitHas, SameContents,
     LiveFile, FlushKnows, LostOnlyInWindow, Emptied, Committing, Locked, Writing
<1>12. LoadProtected'
  BY <1>3, <1>4 DEF UciInv, LoadProtected, LoadOK, Committing, Locked
<1> QED
  BY <1>5, <1>6, <1>7, <1>8, <1>9, <1>10, <1>11, <1>12 DEF UciInv

(* A new file that no one knows of.                                          *)
LEMMA MkstempKeeps ==
  ASSUME UciInv, NEW p \in Proc, mkstemp(p)
  PROVE  UciInv'
<1>1. UciTypes /\ proc[p] \in ProcState /\ 0 <= made
  BY StateFacts DEF UciInv, UciTypes, Inode
<1>0. made + 1 \in Inode
  BY UciAssumption DEF UciInv, UciTypes, Inode, mkstemp
<1> DEFINE r == [proc[p] EXCEPT !.pc = "export", !.tmp = made + 1]
<1>2. Moved(p, r)
  <2>1. r \in ProcState
    BY <1>1, StateFacts, <1>0 DEF ProcState
  <2>2. proc' = [proc EXCEPT ![p] = r]
    BY <1>1 DEF mkstemp, UciTypes, ProcState
  <2> QED
    BY <1>1, <2>1, <2>2, MovedIs
<1>3. /\ proc'[p].pc = "export" /\ proc'[p].ino = proc[p].ino
      /\ proc'[p].loaded = proc[p].loaded /\ proc'[p].pkg = proc[p].pkg
      /\ proc'[p].new = proc[p].new /\ proc'[p].parsed = proc[p].parsed
      /\ proc'[p].tmp = made + 1 /\ proc'[p].keep = proc[p].keep
      /\ proc'[p].want = proc[p].want
      /\ \A q \in Proc \ {p} : proc'[q] = proc[q]
  BY <1>1, <1>2 DEF Moved, ProcState
<1>4. /\ proc[p].pc = "mkstemp" /\ conf' = conf /\ made' = made + 1 /\ file' = file
      /\ delta' = delta /\ dlock' = dlock /\ saved' = saved /\ reverted' = reverted
      /\ exposed' = exposed
  BY DEF mkstemp, At, files, deltafile, history
<1>5. UciTypes'
  <2>1. proc' \in [Proc -> ProcState]
    BY <1>2 DEF Moved
  <2> QED
    BY <1>1, <1>4, <2>1, StateFacts, <1>0 DEF UciTypes, ProcState
<1>6. TmpPrivate'
  <2>1. made \in Nat /\ conf \in Nat /\ \A q \in Proc : proc[q].ino \in Nat
    BY <1>1 DEF UciTypes, ProcState, Inode
  <2>2. made + 1 # conf /\ \A q \in Proc : /\ proc[q].ino # made + 1
                                         /\ proc[q].pc \in Writing => proc[q].tmp # made + 1
    BY <2>1 DEF UciInv, TmpPrivate
  <2> QED
    BY <1>3, <1>4, <2>1, <2>2 DEF UciInv, TmpPrivate, Writing
<1>7. DeltaLocked'
  BY <1>3, <1>4 DEF UciInv, DeltaLocked
<1>8. CommitHas'
  BY <1>3, <1>4 DEF UciInv, CommitHas, Emptied
<1>9. SameContents'
  BY <1>1, <1>3, <1>4, LiveStays DEF Committing, Locked
<1>10. FlushKnows'
  BY <1>3, <1>4 DEF UciInv, FlushKnows
<1>11. LostOnlyInWindow'
  BY <1>3, <1>4 DEF UciInv, LostOnlyInWindow, Emptied
<1>12. LoadProtected'
  BY <1>3, <1>4 DEF UciInv, LoadProtected, LoadOK, Committing, Locked
<1> QED
  BY <1>5, <1>6, <1>7, <1>8, <1>9, <1>10, <1>11, <1>12 DEF UciInv

(* A commit gives up.                                                        *)
LEMMA MkstempFailsKeeps ==
  ASSUME UciInv, NEW p \in Proc, MkstempFails(p)
  PROVE  UciInv'
<1>1. UciTypes /\ proc[p] \in ProcState /\ 0 <= made
  BY StateFacts DEF UciInv, UciTypes, Inode
<1> DEFINE r == [proc[p] EXCEPT !.pc = "idle", !.ino = 0, !.parsed = {}]
<1>2. Moved(p, r)
  <2>1. r \in ProcState
    BY <1>1, StateFacts DEF ProcState
  <2>2. proc' = [proc EXCEPT ![p] = r]
    BY <1>1 DEF MkstempFails, UciTypes, ProcState
  <2> QED
    BY <1>1, <2>1, <2>2, MovedIs
<1>3. /\ proc'[p].pc = "idle" /\ proc'[p].ino = 0 /\ proc'[p].loaded = proc[p].loaded
      /\ proc'[p].pkg = proc[p].pkg /\ proc'[p].new = proc[p].new /\ proc'[p].parsed = {}
      /\ proc'[p].tmp = proc[p].tmp /\ proc'[p].keep = proc[p].keep
      /\ proc'[p].want = proc[p].want
      /\ \A q \in Proc \ {p} : proc'[q] = proc[q]
  BY <1>1, <1>2 DEF Moved, ProcState
<1>4. /\ proc[p].pc = "mkstemp" /\ conf' = conf /\ made' = made /\ file' = file
      /\ delta' = delta /\ dlock' = dlock /\ saved' = saved /\ reverted' = reverted
      /\ exposed' = exposed \cup proc[p].parsed
  BY DEF MkstempFails, At, files, deltafile, history
<1>5. UciTypes'
  <2>1. proc' \in [Proc -> ProcState]
    BY <1>2 DEF Moved
  <2> QED
    BY <1>1, <1>4, <2>1, StateFacts DEF UciTypes, ProcState
<1>6. TmpPrivate'
  BY <1>1, <1>3, <1>4, <1>5, TmpStays DEF Writing
<1>7. DeltaLocked'
  BY <1>3, <1>4 DEF UciInv, DeltaLocked
<1>8. CommitHas'
  BY <1>3, <1>4 DEF UciInv, CommitHas, Emptied
<1>9. SameContents'
  BY <1>1, <1>3, <1>4, LiveStays DEF Committing, Locked
<1>10. FlushKnows'
  BY <1>3, <1>4 DEF UciInv, FlushKnows
<1>11. LostOnlyInWindow'
  BY <1>3, <1>4 DEF UciInv, LostOnlyInWindow, Emptied
<1>12. LoadProtected'
  BY <1>3, <1>4 DEF UciInv, LoadProtected, LoadOK, Committing, Locked
<1> QED
  BY <1>5, <1>6, <1>7, <1>8, <1>9, <1>10, <1>11, <1>12 DEF UciInv

(* A temporary file is written: no one else reads it.                        *)
LEMMA ExportKeeps ==
  ASSUME UciInv, NEW p \in Proc, uci_export(p)
  PROVE  UciInv'
<1>1. UciTypes /\ proc[p] \in ProcState /\ 0 <= made
  BY StateFacts DEF UciInv, UciTypes, Inode
<1> DEFINE r == [proc[p] EXCEPT !.pc = "close"]
<1>2. Moved(p, r)
  <2>1. r \in ProcState
    BY <1>1, StateFacts DEF ProcState
  <2>2. proc' = [proc EXCEPT ![p] = r]
    BY <1>1 DEF uci_export, UciTypes, ProcState
  <2> QED
    BY <1>1, <2>1, <2>2, MovedIs
<1>3. /\ proc'[p].pc = "close" /\ proc'[p].ino = proc[p].ino
      /\ proc'[p].loaded = proc[p].loaded /\ proc'[p].pkg = proc[p].pkg
      /\ proc'[p].new = proc[p].new /\ proc'[p].parsed = proc[p].parsed
      /\ proc'[p].tmp = proc[p].tmp /\ proc'[p].keep = proc[p].keep
      /\ proc'[p].want = proc[p].want
      /\ \A q \in Proc \ {p} : proc'[q] = proc[q]
  BY <1>1, <1>2 DEF Moved, ProcState
<1>4. /\ proc[p].pc = "export" /\ conf' = conf /\ made' = made
      /\ (\A i \in Inode \ {proc[p].tmp} : file'[i] = file[i])
      /\ file'[proc[p].tmp].has = proc[p].pkg /\ delta' = delta /\ dlock' = dlock
      /\ saved' = saved /\ reverted' = reverted /\ exposed' = exposed
  BY <1>1 DEF UciTypes, ProcState, uci_export, At, files, deltafile, history
<1>5. UciTypes'
  <2>1. proc' \in [Proc -> ProcState]
    BY <1>2 DEF Moved
  <2>2. PICK w \in BOOLEAN : file' = [file EXCEPT ![proc[p].tmp] = [has |-> proc[p].pkg, whole |-> w]]
    BY UciAssumption DEF uci_export
  <2>3. [has |-> proc[p].pkg, whole |-> w] \in [has : SUBSET Change, whole : BOOLEAN]
    BY <1>1 DEF ProcState
  <2>4. file' \in [Inode -> [has : SUBSET Change, whole : BOOLEAN]]
    BY <1>1, <2>2, <2>3 DEF UciTypes
  <2> QED
    BY <1>1, <1>4, <2>1, <2>4 DEF UciTypes
<1>6. TmpPrivate'
  BY <1>1, <1>3, <1>4, <1>5, TmpStays DEF Writing
<1>7. DeltaLocked'
  BY <1>3, <1>4 DEF UciInv, DeltaLocked
<1>8. CommitHas'
  BY <1>1, <1>3, <1>4, <1>5, UciAssumption DEF UciInv, UciTypes, ProcState, TmpPrivate,
     CommitHas, Emptied, Writing
<1>9. SameContents'
  <2>1. \A i \in Inode : LiveFile(i)' => LiveFile(i) /\ i # proc[p].tmp
    BY <1>3, <1>4 DEF UciInv, TmpPrivate, LiveFile, Committing, Locked, Writing
  <2> QED
    BY <1>4, <2>1 DEF UciInv, SameContents
<1>10. FlushKnows'
  BY <1>3, <1>4 DEF UciInv, FlushKnows
<1>11. LostOnlyInWindow'
  <2>1. conf # proc[p].tmp /\ conf \in Inode
    BY <1>1, <1>4 DEF UciInv, TmpPrivate, Writing, UciTypes
  <2> QED
    BY <1>3, <1>4, <2>1 DEF UciInv, LostOnlyInWindow, Emptied
<1>12. LoadProtected'
  BY <1>3, <1>4 DEF UciInv, LoadProtected, LoadOK, Committing, Locked
<1> QED
  BY <1>5, <1>6, <1>7, <1>8, <1>9, <1>10, <1>11, <1>12 DEF UciInv

(* The lock is gone.                                                         *)
LEMMA CloseKeeps ==
  ASSUME UciInv, NEW p \in Proc, CloseConfig(p)
  PROVE  UciInv'
<1>1. UciTypes /\ proc[p] \in ProcState /\ 0 <= made
  BY StateFacts DEF UciInv, UciTypes, Inode
<1> DEFINE r == [proc[p] EXCEPT !.pc = "rename"]
<1>2. Moved(p, r)
  <2>1. r \in ProcState
    BY <1>1, StateFacts DEF ProcState
  <2>2. proc' = [proc EXCEPT ![p] = r]
    BY <1>1 DEF CloseConfig, UciTypes, ProcState
  <2> QED
    BY <1>1, <2>1, <2>2, MovedIs
<1>3. /\ proc'[p].pc = "rename" /\ proc'[p].ino = proc[p].ino
      /\ proc'[p].loaded = proc[p].loaded /\ proc'[p].pkg = proc[p].pkg
      /\ proc'[p].new = proc[p].new /\ proc'[p].parsed = proc[p].parsed
      /\ proc'[p].tmp = proc[p].tmp /\ proc'[p].keep = proc[p].keep
      /\ proc'[p].want = proc[p].want
      /\ \A q \in Proc \ {p} : proc'[q] = proc[q]
  BY <1>1, <1>2 DEF Moved, ProcState
<1>4. /\ proc[p].pc = "close" /\ conf' = conf /\ made' = made /\ file' = file
      /\ delta' = delta /\ dlock' = dlock /\ saved' = saved /\ reverted' = reverted
      /\ exposed' = exposed
  BY DEF CloseConfig, At, files, deltafile, history
<1>5. UciTypes'
  <2>1. proc' \in [Proc -> ProcState]
    BY <1>2 DEF Moved
  <2> QED
    BY <1>1, <1>4, <2>1, StateFacts DEF UciTypes, ProcState
<1>6. TmpPrivate'
  BY <1>1, <1>3, <1>4, <1>5, TmpStays DEF Writing
<1>7. DeltaLocked'
  BY <1>3, <1>4 DEF UciInv, DeltaLocked
<1>8. CommitHas'
  BY <1>3, <1>4 DEF UciInv, CommitHas, Emptied
<1>9. SameContents'
  BY <1>1, <1>3, <1>4, LiveStays DEF Committing, Locked
<1>10. FlushKnows'
  BY <1>3, <1>4 DEF UciInv, FlushKnows
<1>11. LostOnlyInWindow'
  BY <1>3, <1>4 DEF UciInv, LostOnlyInWindow, Emptied
<1>12. LoadProtected'
  BY <1>3, <1>4 DEF UciInv, LoadProtected, LoadOK, Committing, Locked
<1> QED
  BY <1>5, <1>6, <1>7, <1>8, <1>9, <1>10, <1>11, <1>12 DEF UciInv

(* The temporary file takes the place of the config file.                    *)
LEMMA RenameKeeps ==
  ASSUME UciInv, NEW p \in Proc, rename(p)
  PROVE  UciInv'
<1>1. UciTypes /\ proc[p] \in ProcState /\ 0 <= made
  BY StateFacts DEF UciInv, UciTypes, Inode
<1> DEFINE r == [proc[p] EXCEPT !.pc = "idle", !.ino = 0, !.parsed = {}, !.tmp = 0]
<1>2. Moved(p, r)
  <2>1. r \in ProcState
    BY <1>1, StateFacts DEF ProcState
  <2>2. proc' = [proc EXCEPT ![p] = r]
    BY <1>1 DEF rename, UciTypes, ProcState
  <2> QED
    BY <1>1, <2>1, <2>2, MovedIs
<1>3. /\ proc'[p].pc = "idle" /\ proc'[p].ino = 0 /\ proc'[p].loaded = proc[p].loaded
      /\ proc'[p].pkg = proc[p].pkg /\ proc'[p].new = proc[p].new /\ proc'[p].parsed = {}
      /\ proc'[p].tmp = 0 /\ proc'[p].keep = proc[p].keep /\ proc'[p].want = proc[p].want
      /\ \A q \in Proc \ {p} : proc'[q] = proc[q]
  BY <1>1, <1>2 DEF Moved, ProcState
<1>4. /\ proc[p].pc = "rename" /\ conf' = proc[p].tmp /\ made' = made /\ file' = file
      /\ delta' = delta /\ dlock' = dlock /\ saved' = saved /\ reverted' = reverted
      /\ exposed' = exposed \cup
           (IF \E q \in Proc \ {p} : proc[q].pc \in Committing THEN proc[p].parsed ELSE {})
  BY DEF rename, At, files, deltafile, history
<1>5. UciTypes'
  <2>1. proc' \in [Proc -> ProcState]
    BY <1>2 DEF Moved
  <2> QED
    BY <1>1, <1>4, <2>1, StateFacts DEF UciTypes, ProcState
<1>6. TmpPrivate'
  <2>1. proc[p].tmp \in 1..made /\ conf' <= made
    BY <1>1, <1>4 DEF UciInv, TmpPrivate, Writing, UciTypes, Inode
  <2>2. ASSUME NEW q \in Proc \ {p}, proc[q].pc \in Writing
        PROVE  /\ proc[q].tmp \in 1..made /\ proc[q].tmp # proc[p].tmp /\ proc[q].tmp # 0
               /\ \A x \in Proc : proc[x].ino # proc[q].tmp
               /\ \A x \in Proc \ {q} : proc[x].pc \in Writing => proc[x].tmp # proc[q].tmp
    BY <1>4, <2>2 DEF UciInv, TmpPrivate, Writing
  <2>3. \A q \in Proc : proc'[q].ino <= made
    BY <1>1, <1>3 DEF UciInv, TmpPrivate
  <2> QED
    BY <1>3, <1>4, <2>1, <2>2, <2>3 DEF TmpPrivate, Writing
<1>7. DeltaLocked'
  BY <1>3, <1>4 DEF UciInv, DeltaLocked
<1>8. CommitHas'
  BY <1>3, <1>4 DEF UciInv, CommitHas, Emptied
<1>9. SameContents'
  <2> SUFFICES ASSUME NEW i \in Inode, NEW j \in Inode, LiveFile(i)', LiveFile(j)'
               PROVE  file[i].has \subseteq file[j].has \cup exposed'
    BY <1>4 DEF SameContents
  <2>1. \A k \in Inode : LiveFile(k)' =>
          k = proc[p].tmp \/ \E q \in Proc \ {p} : proc[q].pc \in Committing /\ proc[q].ino = k
    BY <1>3, <1>4 DEF LiveFile, Committing, Locked
  <2>2. CASE \A q \in Proc \ {p} : proc[q].pc \notin Committing
    BY <2>1, <2>2
  <2>3. CASE \E q \in Proc \ {p} : proc[q].pc \in Committing
    <3>1. exposed' = exposed \cup proc[p].parsed
      BY <1>4, <2>3
    <3>2. file[proc[p].tmp].has = file[proc[p].ino].has \cup proc[p].parsed
      BY <1>4 DEF UciInv, CommitHas, Emptied
    <3>3. proc[p].ino \in Inode /\ LiveFile(proc[p].ino)
      BY <1>1, <1>4 DEF LiveFile, Committing, ProcState
    <3>4. \A k \in Inode : LiveFile(k)' => k = proc[p].tmp \/ LiveFile(k)
      BY <2>1 DEF LiveFile
    <3> QED
      BY <3>1, <3>2, <3>3, <3>4 DEF UciInv, SameContents
  <2> QED
    BY <2>2, <2>3
<1>10. FlushKnows'
  BY <1>3, <1>4 DEF UciInv, FlushKnows
<1>11. LostOnlyInWindow'
  <2>1. file'[conf'].has = file[proc[p].ino].has \cup proc[p].parsed
    BY <1>4 DEF UciInv, CommitHas, Emptied
  <2>2. file[conf].has \subseteq file[proc[p].ino].has \cup exposed
    <3>1. conf \in Inode /\ proc[p].ino \in Inode /\ LiveFile(conf) /\ LiveFile(proc[p].ino)
      BY <1>1, <1>4 DEF LiveFile, Committing, ProcState, UciTypes
    <3> QED
      BY <3>1 DEF UciInv, SameContents
  <2>3. exposed \subseteq exposed' /\ \A q \in Proc : proc[q].keep = proc'[q].keep
    BY <1>3, <1>4
  <2> QED
    BY <1>3, <1>4, <2>1, <2>2, <2>3 DEF UciInv, LostOnlyInWindow
<1>12. LoadProtected'
  BY <1>3, <1>4 DEF UciInv, LoadProtected, LoadOK, Committing, Locked
<1> QED
  BY <1>5, <1>6, <1>7, <1>8, <1>9, <1>10, <1>11, <1>12 DEF UciInv

(* The rename fails.                                                         *)
LEMMA RenameFailsKeeps ==
  ASSUME UciInv, NEW p \in Proc, RenameFails(p)
  PROVE  UciInv'
<1>1. UciTypes /\ proc[p] \in ProcState /\ 0 <= made
  BY StateFacts DEF UciInv, UciTypes, Inode
<1> DEFINE r == [proc[p] EXCEPT !.pc = "idle", !.ino = 0, !.parsed = {}, !.tmp = 0]
<1>2. Moved(p, r)
  <2>1. r \in ProcState
    BY <1>1, StateFacts DEF ProcState
  <2>2. proc' = [proc EXCEPT ![p] = r]
    BY <1>1 DEF RenameFails, UciTypes, ProcState
  <2> QED
    BY <1>1, <2>1, <2>2, MovedIs
<1>3. /\ proc'[p].pc = "idle" /\ proc'[p].ino = 0 /\ proc'[p].loaded = proc[p].loaded
      /\ proc'[p].pkg = proc[p].pkg /\ proc'[p].new = proc[p].new /\ proc'[p].parsed = {}
      /\ proc'[p].tmp = 0 /\ proc'[p].keep = proc[p].keep
      /\ proc'[p].want = proc[p].want
      /\ \A q \in Proc \ {p} : proc'[q] = proc[q]
  BY <1>1, <1>2 DEF Moved, ProcState
<1>4. /\ proc[p].pc = "rename" /\ conf' = conf /\ made' = made /\ file' = file
      /\ delta' = delta /\ dlock' = dlock /\ saved' = saved /\ reverted' = reverted
      /\ exposed' = exposed \cup proc[p].parsed
  BY DEF RenameFails, At, files, deltafile, history
<1>5. UciTypes'
  <2>1. proc' \in [Proc -> ProcState]
    BY <1>2 DEF Moved
  <2> QED
    BY <1>1, <1>4, <2>1, StateFacts DEF UciTypes, ProcState
<1>6. TmpPrivate'
  BY <1>1, <1>3, <1>4, <1>5, TmpStays DEF Writing
<1>7. DeltaLocked'
  BY <1>3, <1>4 DEF UciInv, DeltaLocked
<1>8. CommitHas'
  BY <1>3, <1>4 DEF UciInv, CommitHas, Emptied
<1>9. SameContents'
  BY <1>1, <1>3, <1>4, LiveStays DEF Committing, Locked
<1>10. FlushKnows'
  BY <1>3, <1>4 DEF UciInv, FlushKnows
<1>11. LostOnlyInWindow'
  BY <1>3, <1>4 DEF UciInv, LostOnlyInWindow, Emptied
<1>12. LoadProtected'
  BY <1>3, <1>4 DEF UciInv, LoadProtected, LoadOK, Committing, Locked
<1> QED
  BY <1>5, <1>6, <1>7, <1>8, <1>9, <1>10, <1>11, <1>12 DEF UciInv

(* A load begins.                                                            *)
LEMMA LoadKeeps ==
  ASSUME UciInv, NEW p \in Proc, uci_load(p)
  PROVE  UciInv'
<1>1. UciTypes /\ proc[p] \in ProcState /\ 0 <= made
  BY StateFacts DEF UciInv, UciTypes, Inode
<1> DEFINE r == [proc[p] EXCEPT !.pc = "load", !.ino = conf, !.loaded = FALSE, !.pkg = {}, !.new = {}]
<1>2. Moved(p, r)
  <2>1. r \in ProcState
    BY <1>1, StateFacts DEF ProcState
  <2>2. proc' = [proc EXCEPT ![p] = r]
    BY <1>1 DEF uci_load, Call, Open, UciTypes, ProcState
  <2> QED
    BY <1>1, <2>1, <2>2, MovedIs
<1>3. /\ proc'[p].pc = "load" /\ proc'[p].ino = conf /\ proc'[p].loaded = FALSE
      /\ proc'[p].pkg = {} /\ proc'[p].new = {} /\ proc'[p].parsed = proc[p].parsed
      /\ proc'[p].tmp = proc[p].tmp /\ proc'[p].keep = proc[p].keep
      /\ proc'[p].want = proc[p].want
      /\ \A q \in Proc \ {p} : proc'[q] = proc[q]
  BY <1>1, <1>2 DEF Moved, ProcState
<1>4. /\ proc[p].pc = "idle" /\ conf' = conf /\ made' = made /\ file' = file
      /\ delta' = delta /\ dlock' = dlock /\ saved' = saved /\ reverted' = reverted
      /\ exposed' = exposed
  BY DEF uci_load, Call, Open, At, files, deltafile, history
<1>5. UciTypes'
  <2>1. proc' \in [Proc -> ProcState]
    BY <1>2 DEF Moved
  <2> QED
    BY <1>1, <1>4, <2>1, StateFacts DEF UciTypes, ProcState
<1>6. TmpPrivate'
  BY <1>1, <1>3, <1>4, <1>5, TmpStays DEF Writing
<1>7. DeltaLocked'
  BY <1>3, <1>4 DEF UciInv, DeltaLocked
<1>8. CommitHas'
  BY <1>3, <1>4 DEF UciInv, CommitHas, Emptied
<1>9. SameContents'
  BY <1>1, <1>3, <1>4, LiveStays DEF Committing, Locked
<1>10. FlushKnows'
  BY <1>3, <1>4 DEF UciInv, FlushKnows
<1>11. LostOnlyInWindow'
  BY <1>3, <1>4 DEF UciInv, LostOnlyInWindow, Emptied
<1>12. LoadProtected'
  <2>1. LoadOK(p)'
    BY <1>3, <1>4 DEF LoadOK
  <2>2. \A c : c \in delta \/ (\E q \in Proc : c \in proc[q].keep) =>
          c \in reverted' \cup exposed' \/ c \in delta' \/ (\E q \in Proc : c \in proc'[q].keep)
    BY <1>3, <1>4
  <2> QED
    BY <1>3, <1>4, <2>1, <2>2, LoadStays DEF Committing, Locked
<1> QED
  BY <1>5, <1>6, <1>7, <1>8, <1>9, <1>10, <1>11, <1>12 DEF UciInv

(* Changes are appended to the delta file.                                   *)
LEMMA SaveKeeps ==
  ASSUME UciInv, NEW p \in Proc, uci_save(p)
  PROVE  UciInv'
<1>1. UciTypes /\ proc[p] \in ProcState /\ 0 <= made
  BY StateFacts DEF UciInv, UciTypes, Inode
<1> DEFINE r == [proc[p] EXCEPT !.new = {}]
<1>2. Moved(p, r)
  <2>1. r \in ProcState
    BY <1>1, StateFacts DEF ProcState
  <2>2. proc' = [proc EXCEPT ![p] = r]
    BY <1>1 DEF uci_save, Call, UciTypes, ProcState
  <2> QED
    BY <1>1, <2>1, <2>2, MovedIs
<1>3. /\ proc'[p].pc = proc[p].pc /\ proc'[p].ino = proc[p].ino
      /\ proc'[p].loaded = proc[p].loaded /\ proc'[p].pkg = proc[p].pkg
      /\ proc'[p].new = {} /\ proc'[p].parsed = proc[p].parsed
      /\ proc'[p].tmp = proc[p].tmp /\ proc'[p].keep = proc[p].keep
      /\ proc'[p].want = proc[p].want
      /\ \A q \in Proc \ {p} : proc'[q] = proc[q]
  BY <1>1, <1>2 DEF Moved, ProcState
<1>0. PICK W \in SUBSET proc[p].new : Appended(p, W)
  BY <1>1, SaveAppends DEF uci_save
<1>4. /\ proc[p].pc = "idle" /\ dlock = None /\ conf' = conf /\ made' = made
      /\ file' = file /\ delta' = delta \cup W /\ dlock' = dlock
      /\ saved' = saved \cup proc[p].new /\ reverted' = reverted
      /\ exposed' = exposed \cup (IF \E q \in Proc : proc[q].pc = "flush" THEN proc[p].new ELSE proc[p].new \ W)
  BY <1>0 DEF Appended, uci_save, Call, At, files, deltafile, history
<1>5. UciTypes'
  <2>1. proc' \in [Proc -> ProcState]
    BY <1>2 DEF Moved
  <2> QED
    BY <1>1, <1>4, <2>1, StateFacts DEF UciTypes, ProcState
<1>6. TmpPrivate'
  BY <1>1, <1>3, <1>4, <1>5, TmpStays DEF Writing
<1>7. DeltaLocked'
  BY <1>3, <1>4 DEF UciInv, DeltaLocked
<1>8. CommitHas'
  BY <1>3, <1>4 DEF UciInv, CommitHas, Emptied
<1>9. SameContents'
  BY <1>1, <1>3, <1>4, LiveStays DEF Committing, Locked
<1>10. FlushKnows'
  BY <1>3, <1>4 DEF UciInv, FlushKnows
<1>11. LostOnlyInWindow'
  BY <1>3, <1>4 DEF UciInv, LostOnlyInWindow, Emptied
<1>12. LoadProtected'
  BY <1>3, <1>4 DEF UciInv, LoadProtected, LoadOK, Committing, Locked
<1> QED
  BY <1>5, <1>6, <1>7, <1>8, <1>9, <1>10, <1>11, <1>12 DEF UciInv

(* A revert begins.                                                          *)
LEMMA RevertKeeps ==
  ASSUME UciInv, NEW p \in Proc, uci_revert(p)
  PROVE  UciInv'
<1>1. UciTypes /\ proc[p] \in ProcState /\ 0 <= made
  BY StateFacts DEF UciInv, UciTypes, Inode
<1> DEFINE r == [Fresh EXCEPT !.pc = "filter"]
<1>2. Moved(p, r)
  <2>1. r \in ProcState
    BY <1>1, StateFacts DEF ProcState, Fresh
  <2>2. proc' = [proc EXCEPT ![p] = r]
    BY <1>1 DEF uci_revert, Call, Fresh, UciTypes, ProcState
  <2> QED
    BY <1>1, <2>1, <2>2, MovedIs
<1>3. /\ proc'[p].pc = "filter" /\ proc'[p].ino = 0 /\ proc'[p].loaded = FALSE
      /\ proc'[p].pkg = {} /\ proc'[p].new = {} /\ proc'[p].parsed = {} /\ proc'[p].tmp = 0
      /\ proc'[p].keep = {} /\ proc'[p].want = {}
      /\ \A q \in Proc \ {p} : proc'[q] = proc[q]
  BY <1>1, <1>2 DEF Moved, ProcState, Fresh
<1>0. PICK W \in SUBSET proc[p].new : Appended(p, W)
  BY <1>1, SaveAppends DEF uci_revert
<1>4. /\ proc[p].pc = "idle" /\ dlock = None /\ conf' = conf /\ made' = made
      /\ file' = file /\ delta' = delta \cup W /\ dlock' = dlock
      /\ saved' = saved \cup proc[p].new /\ reverted' = reverted
      /\ exposed' = exposed \cup (IF \E q \in Proc : proc[q].pc = "flush" THEN proc[p].new ELSE proc[p].new \ W)
  BY <1>0 DEF Appended, uci_revert, Call, Fresh, At, files, deltafile, history
<1>5. UciTypes'
  <2>1. proc' \in [Proc -> ProcState]
    BY <1>2 DEF Moved
  <2> QED
    BY <1>1, <1>4, <2>1, StateFacts DEF UciTypes, ProcState
<1>6. TmpPrivate'
  BY <1>1, <1>3, <1>4, <1>5, TmpStays DEF Writing
<1>7. DeltaLocked'
  BY <1>3, <1>4 DEF UciInv, DeltaLocked
<1>8. CommitHas'
  BY <1>3, <1>4 DEF UciInv, CommitHas, Emptied
<1>9. SameContents'
  BY <1>1, <1>3, <1>4, LiveStays DEF Committing, Locked
<1>10. FlushKnows'
  BY <1>3, <1>4 DEF UciInv, FlushKnows
<1>11. LostOnlyInWindow'
  BY <1>3, <1>4, UciAssumption DEF UciInv, TmpPrivate, DeltaLocked, CommitHas, SameContents,
     LiveFile, FlushKnows, LostOnlyInWindow, Emptied, Committing, Locked, Writing
<1>12. LoadProtected'
  BY <1>3, <1>4, UciAssumption DEF UciInv, DeltaLocked, LostOnlyInWindow, LoadProtected,
     LoadOK, Emptied, Committing, Locked
<1> QED
  BY <1>5, <1>6, <1>7, <1>8, <1>9, <1>10, <1>11, <1>12 DEF UciInv

(* A commit begins: it opens the file in place.                              *)
LEMMA CommitKeeps ==
  ASSUME UciInv, NEW p \in Proc, uci_commit(p)
  PROVE  UciInv'
<1>1. UciTypes /\ proc[p] \in ProcState /\ 0 <= made
  BY StateFacts DEF UciInv, UciTypes, Inode
<1> DEFINE r == [proc[p] EXCEPT !.pc = "open", !.ino = conf]
<1>2. Moved(p, r)
  <2>1. r \in ProcState
    BY <1>1, StateFacts DEF ProcState
  <2>2. proc' = [proc EXCEPT ![p] = r]
    BY <1>1 DEF uci_commit, Call, Open, UciTypes, ProcState
  <2> QED
    BY <1>1, <2>1, <2>2, MovedIs
<1>3. /\ proc'[p].pc = "open" /\ proc'[p].ino = conf /\ proc'[p].loaded = proc[p].loaded
      /\ proc'[p].pkg = proc[p].pkg /\ proc'[p].new = proc[p].new
      /\ proc'[p].parsed = proc[p].parsed /\ proc'[p].tmp = proc[p].tmp
      /\ proc'[p].keep = proc[p].keep /\ proc'[p].want = proc[p].want
      /\ \A q \in Proc \ {p} : proc'[q] = proc[q]
  BY <1>1, <1>2 DEF Moved, ProcState
<1>4. /\ proc[p].pc = "idle" /\ conf' = conf /\ made' = made /\ file' = file
      /\ delta' = delta /\ dlock' = dlock /\ saved' = saved /\ reverted' = reverted
      /\ exposed' = exposed
  BY DEF uci_commit, Call, Open, At, files, deltafile, history
<1>5. UciTypes'
  <2>1. proc' \in [Proc -> ProcState]
    BY <1>2 DEF Moved
  <2> QED
    BY <1>1, <1>4, <2>1, StateFacts DEF UciTypes, ProcState
<1>6. TmpPrivate'
  BY <1>1, <1>3, <1>4, <1>5, TmpStays DEF Writing
<1>7. DeltaLocked'
  BY <1>3, <1>4 DEF UciInv, DeltaLocked
<1>8. CommitHas'
  BY <1>3, <1>4 DEF UciInv, CommitHas, Emptied
<1>9. SameContents'
  BY <1>1, <1>3, <1>4, LiveStays DEF Committing, Locked
<1>10. FlushKnows'
  BY <1>3, <1>4 DEF UciInv, FlushKnows
<1>11. LostOnlyInWindow'
  BY <1>3, <1>4 DEF UciInv, LostOnlyInWindow, Emptied
<1>12. LoadProtected'
  <2>1. LoadOK(p)'
    BY <1>3, <1>4 DEF LoadOK
  <2>2. \A c : c \in delta \/ (\E q \in Proc : c \in proc[q].keep) =>
          c \in reverted' \cup exposed' \/ c \in delta' \/ (\E q \in Proc : c \in proc'[q].keep)
    BY <1>3, <1>4
  <2> QED
    BY <1>3, <1>4, <2>1, <2>2, LoadStays DEF Committing, Locked
<1> QED
  BY <1>5, <1>6, <1>7, <1>8, <1>9, <1>10, <1>11, <1>12 DEF UciInv

(* A change in memory.                                                       *)
LEMMA SetKeeps ==
  ASSUME UciInv, NEW p \in Proc, NEW c \in Change, uci_set(p, c)
  PROVE  UciInv'
<1>1. UciTypes /\ proc[p] \in ProcState /\ 0 <= made
  BY StateFacts DEF UciInv, UciTypes, Inode
<1> DEFINE r == [proc[p] EXCEPT !.new = proc[p].new \cup {c}, !.pkg = proc[p].pkg \cup {c}]
<1>2. Moved(p, r)
  <2>1. r \in ProcState
    BY <1>1, StateFacts DEF ProcState
  <2>2. proc' = [proc EXCEPT ![p] = r]
    BY <1>1 DEF uci_set, UciTypes, ProcState
  <2> QED
    BY <1>1, <2>1, <2>2, MovedIs
<1>3. /\ proc'[p].pc = proc[p].pc /\ proc'[p].ino = proc[p].ino
      /\ proc'[p].loaded = proc[p].loaded /\ proc'[p].pkg = proc[p].pkg \cup {c}
      /\ proc'[p].new = proc[p].new \cup {c} /\ proc'[p].parsed = proc[p].parsed
      /\ proc'[p].tmp = proc[p].tmp /\ proc'[p].keep = proc[p].keep
      /\ proc'[p].want = proc[p].want
      /\ \A q \in Proc \ {p} : proc'[q] = proc[q]
  BY <1>1, <1>2 DEF Moved, ProcState
<1>4. /\ proc[p].pc = "idle" /\ conf' = conf /\ made' = made /\ file' = file
      /\ delta' = delta /\ dlock' = dlock /\ saved' = saved /\ reverted' = reverted
      /\ exposed' = exposed
  BY DEF uci_set, At, files, deltafile, history
<1>5. UciTypes'
  <2>1. proc' \in [Proc -> ProcState]
    BY <1>2 DEF Moved
  <2> QED
    BY <1>1, <1>4, <2>1, StateFacts DEF UciTypes, ProcState
<1>6. TmpPrivate'
  BY <1>1, <1>3, <1>4, <1>5, TmpStays DEF Writing
<1>7. DeltaLocked'
  BY <1>3, <1>4 DEF UciInv, DeltaLocked
<1>8. CommitHas'
  BY <1>3, <1>4 DEF UciInv, CommitHas, Emptied
<1>9. SameContents'
  BY <1>1, <1>3, <1>4, LiveStays DEF Committing, Locked
<1>10. FlushKnows'
  BY <1>3, <1>4 DEF UciInv, FlushKnows
<1>11. LostOnlyInWindow'
  BY <1>3, <1>4 DEF UciInv, LostOnlyInWindow, Emptied
<1>12. LoadProtected'
  BY <1>3, <1>4 DEF UciInv, LoadProtected, LoadOK, Committing, Locked
<1> QED
  BY <1>5, <1>6, <1>7, <1>8, <1>9, <1>10, <1>11, <1>12 DEF UciInv

(* A process is killed.                                                      *)
LEMMA CrashKeeps ==
  ASSUME UciInv, NEW p \in Proc, Crash(p)
  PROVE  UciInv'
<1>1. UciTypes /\ proc[p] \in ProcState /\ 0 <= made
  BY StateFacts DEF UciInv, UciTypes, Inode
<1> DEFINE r == Fresh
<1>2. Moved(p, r)
  <2>1. r \in ProcState
    BY <1>1, StateFacts DEF ProcState, Fresh
  <2>2. proc' = [proc EXCEPT ![p] = r]
    BY <1>1 DEF Crash, Fresh, UciTypes, ProcState
  <2> QED
    BY <1>1, <2>1, <2>2, MovedIs
<1>3. /\ proc'[p].pc = "idle" /\ proc'[p].ino = 0 /\ proc'[p].loaded = FALSE
      /\ proc'[p].pkg = {} /\ proc'[p].new = {} /\ proc'[p].parsed = {} /\ proc'[p].tmp = 0
      /\ proc'[p].keep = {} /\ proc'[p].want = {}
      /\ \A q \in Proc \ {p} : proc'[q] = proc[q]
  BY <1>1, <1>2 DEF Moved, ProcState, Fresh
<1>4. /\ conf' = conf /\ made' = made /\ file' = file /\ delta' = delta
      /\ dlock' = dlock /\ saved' = saved /\ reverted' = reverted /\ proc[p].pc # "rebuild"
      /\ exposed' = exposed \cup (IF proc[p].pc \in Emptied THEN proc[p].parsed ELSE {})
  BY DEF Crash, Fresh, At, files, deltafile, history
<1>5. UciTypes'
  <2>1. proc' \in [Proc -> ProcState]
    BY <1>2 DEF Moved
  <2> QED
    BY <1>1, <1>4, <2>1, StateFacts DEF UciTypes, ProcState
<1>6. TmpPrivate'
  BY <1>1, <1>3, <1>4, <1>5, TmpStays DEF Writing
<1>7. DeltaLocked'
  BY <1>3, <1>4, UciAssumption DEF UciInv, DeltaLocked
<1>8. CommitHas'
  BY <1>3, <1>4 DEF UciInv, CommitHas, Emptied
<1>9. SameContents'
  BY <1>1, <1>3, <1>4, LiveStays DEF Committing, Locked
<1>10. FlushKnows'
  BY <1>3, <1>4 DEF UciInv, FlushKnows
<1>13. proc[p].keep = {}
  BY <1>4 DEF UciInv, DeltaLocked
<1>11. LostOnlyInWindow'
  BY <1>3, <1>4, <1>13 DEF UciInv, LostOnlyInWindow, Emptied
<1>12. LoadProtected'
  BY <1>3, <1>4, <1>13 DEF UciInv, LoadProtected, LoadOK, Committing, Locked
<1> QED
  BY <1>5, <1>6, <1>7, <1>8, <1>9, <1>10, <1>11, <1>12 DEF UciInv

(* A process is killed while it saves.                                       *)
LEMMA CrashInSaveKeeps ==
  ASSUME UciInv, NEW p \in Proc, CrashInSave(p)
  PROVE  UciInv'
<1>1. UciTypes /\ proc[p] \in ProcState /\ 0 <= made
  BY StateFacts DEF UciInv, UciTypes, Inode
<1> DEFINE r == Fresh
<1>2. Moved(p, r)
  <2>1. r \in ProcState
    BY <1>1, StateFacts DEF ProcState, Fresh
  <2>2. proc' = [proc EXCEPT ![p] = r]
    BY <1>1 DEF CrashInSave, Fresh, UciTypes, ProcState
  <2> QED
    BY <1>1, <2>1, <2>2, MovedIs
<1>3. /\ proc'[p].pc = "idle" /\ proc'[p].ino = 0 /\ proc'[p].loaded = FALSE
      /\ proc'[p].pkg = {} /\ proc'[p].new = {} /\ proc'[p].parsed = {} /\ proc'[p].tmp = 0
      /\ proc'[p].keep = {} /\ proc'[p].want = {}
      /\ \A q \in Proc \ {p} : proc'[q] = proc[q]
  BY <1>1, <1>2 DEF Moved, ProcState, Fresh
<1>0. PICK W \in SUBSET proc[p].new : Appended(p, W)
  BY <1>1, SaveAppends DEF CrashInSave
<1>4. /\ proc[p].pc \in {"idle", "save"} /\ dlock = None /\ conf' = conf /\ made' = made
      /\ file' = file /\ delta' = delta \cup W /\ dlock' = dlock
      /\ saved' = saved \cup proc[p].new /\ reverted' = reverted
      /\ exposed' = exposed \cup (IF \E q \in Proc : proc[q].pc = "flush" THEN proc[p].new ELSE proc[p].new \ W)
  BY <1>0 DEF Appended, CrashInSave, files
<1>5. UciTypes'
  <2>1. proc' \in [Proc -> ProcState]
    BY <1>2 DEF Moved
  <2> QED
    BY <1>1, <1>4, <2>1, StateFacts DEF UciTypes, ProcState
<1>6. TmpPrivate'
  BY <1>1, <1>3, <1>4, <1>5, TmpStays DEF Writing
<1>7. DeltaLocked'
  BY <1>3, <1>4, UciAssumption DEF UciInv, DeltaLocked
<1>8. CommitHas'
  BY <1>3, <1>4 DEF UciInv, CommitHas, Emptied
<1>9. SameContents'
  BY <1>1, <1>3, <1>4, LiveStays DEF Committing, Locked
<1>10. FlushKnows'
  BY <1>3, <1>4 DEF UciInv, FlushKnows
<1>13. proc[p].keep = {}
  BY <1>4 DEF UciInv, DeltaLocked
<1>11. LostOnlyInWindow'
  BY <1>3, <1>4, <1>13 DEF UciInv, LostOnlyInWindow, Emptied
<1>12. LoadProtected'
  BY <1>3, <1>4, <1>13 DEF UciInv, LoadProtected, LoadOK, Committing, Locked
<1> QED
  BY <1>5, <1>6, <1>7, <1>8, <1>9, <1>10, <1>11, <1>12 DEF UciInv

(* A process is killed while it writes the delta file again.                 *)
LEMMA CrashInRebuildKeeps ==
  ASSUME UciInv, NEW p \in Proc, CrashInRebuild(p)
  PROVE  UciInv'
<1>1. UciTypes /\ proc[p] \in ProcState /\ 0 <= made
  BY StateFacts DEF UciInv, UciTypes, Inode
<1> DEFINE r == Fresh
<1>2. Moved(p, r)
  <2>1. r \in ProcState
    BY <1>1, StateFacts DEF ProcState, Fresh
  <2>2. proc' = [proc EXCEPT ![p] = r]
    BY <1>1 DEF CrashInRebuild, Fresh, UciTypes, ProcState
  <2> QED
    BY <1>1, <2>1, <2>2, MovedIs
<1>3. /\ proc'[p].pc = "idle" /\ proc'[p].ino = 0 /\ proc'[p].loaded = FALSE
      /\ proc'[p].pkg = {} /\ proc'[p].new = {} /\ proc'[p].parsed = {} /\ proc'[p].tmp = 0
      /\ proc'[p].keep = {} /\ proc'[p].want = {}
      /\ \A q \in Proc \ {p} : proc'[q] = proc[q]
  BY <1>1, <1>2 DEF Moved, ProcState, Fresh
<1>0. PICK W \in SUBSET proc[p].keep : \E cut : Rewrite(proc[p].keep, cut, W)
  BY DEF CrashInRebuild
<1>4. /\ proc[p].pc = "rebuild" /\ conf' = conf /\ made' = made /\ file' = file
      /\ delta' = W /\ dlock' = None /\ saved' = saved /\ reverted' = reverted
      /\ exposed' = exposed \cup (proc[p].keep \ W)
  BY <1>0 DEF CrashInRebuild, Rewrite, At, files
<1>5. UciTypes'
  <2>1. proc' \in [Proc -> ProcState]
    BY <1>2 DEF Moved
  <2> QED
    BY <1>1, <1>4, <2>1, StateFacts DEF UciTypes, ProcState
<1>6. TmpPrivate'
  BY <1>1, <1>3, <1>4, <1>5, TmpStays DEF Writing
<1>7. DeltaLocked'
  BY <1>3, <1>4, UciAssumption DEF UciInv, DeltaLocked
<1>8. CommitHas'
  BY <1>3, <1>4 DEF UciInv, CommitHas, Emptied
<1>9. SameContents'
  BY <1>1, <1>3, <1>4, LiveStays DEF Committing, Locked
<1>10. FlushKnows'
  BY <1>3, <1>4 DEF UciInv, FlushKnows
<1>11. LostOnlyInWindow'
  BY <1>3, <1>4, UciAssumption DEF UciInv, TmpPrivate, DeltaLocked, CommitHas, SameContents,
     LiveFile, FlushKnows, LostOnlyInWindow, Emptied, Committing, Locked, Writing
<1>12. LoadProtected'
  <2>1. LoadOK(p)'
    BY <1>3, <1>4 DEF UciInv, LoadProtected, LoadOK
  <2>2. \A c : c \in delta \/ (\E q \in Proc : c \in proc[q].keep) =>
          c \in reverted' \cup exposed' \/ c \in delta' \/ (\E q \in Proc : c \in proc'[q].keep)
    <3>1. dlock = p /\ dlock # None /\ \A q \in Proc : proc[q].keep # {} => q = p
      BY <1>4, UciAssumption DEF UciInv, DeltaLocked
    <3> QED
      BY <1>4, <3>1 DEF UciInv, DeltaLocked
  <2> QED
    BY <1>3, <1>4, <2>1, <2>2, LoadStays DEF Committing, Locked
<1> QED
  BY <1>5, <1>6, <1>7, <1>8, <1>9, <1>10, <1>11, <1>12 DEF UciInv

(* The invariants hold before any process starts.                           *)
LEMMA UciInitially == Init => UciInv /\ TmpWhole
<1> SUFFICES ASSUME Init PROVE UciInv /\ TmpWhole
  OBVIOUS
<1>1. 0 \in Inode /\ "idle" \in Where
  BY UciAssumption DEF Inode, Where
<1>2. Fresh \in ProcState
  BY <1>1 DEF Fresh, ProcState
<1>3. UciTypes
  BY <1>1, <1>2 DEF Init, UciTypes, Inode
<1>4. \A p \in Proc : /\ proc[p].pc = "idle" /\ proc[p].ino = 0 /\ proc[p].keep = {}
  BY DEF Init, Fresh
<1>5. TmpPrivate /\ DeltaLocked /\ CommitHas /\ FlushKnows /\ LoadProtected /\ LostOnlyInWindow
  BY <1>1, <1>4, UciAssumption DEF Init, TmpPrivate, DeltaLocked, CommitHas, FlushKnows, LoadProtected,
     LoadOK, LostOnlyInWindow, Writing, Emptied
<1>6. SameContents
  BY <1>4 DEF Init, SameContents, LiveFile, Committing, Locked
<1>7. TmpWhole
  BY <1>1, <1>4 DEF Init, TmpWhole, Inode
<1> QED
  BY <1>3, <1>5, <1>6, <1>7 DEF UciInv

(* Every step of every process keeps the invariant.                         *)
LEMMA UciStep == UciInv /\ [Next]_vars => UciInv'
<1> SUFFICES ASSUME UciInv, [Next]_vars PROVE UciInv'
  OBVIOUS
<1>1. CASE UNCHANGED vars
  BY <1>1 DEF vars, files, deltafile, history, UciInv, UciTypes, TmpPrivate, DeltaLocked, CommitHas,
     SameContents, LiveFile, FlushKnows, LostOnlyInWindow, LoadProtected, LoadOK
<1>2. ASSUME NEW p \in Proc, Step(p) PROVE UciInv'
  <2>1. ASSUME NEW K \in Match, uci_filter_delta(p, K) PROVE UciInv'
    <3>1. K \in SUBSET Change
      BY DEF Match
    <3> QED
      BY <2>1, <3>1, FilterKeeps
  <2>2. ASSUME FlushDelta(p) PROVE UciInv'
    BY <2>2, FlushKeeps, FlushNothingKeeps
  <2> QED
    BY <1>2, <2>1, <2>2, FileLoadKeeps, LoadDeltaKeeps, RebuildKeeps, LockKeeps, SaveReloadKeeps,
       ParseKeeps, MkstempKeeps, MkstempFailsKeeps, ExportKeeps, CloseKeeps, RenameKeeps,
       RenameFailsKeeps, FilterFailsKeeps DEF Step
<1>3. ASSUME NEW p \in Proc,
             \/ uci_load(p) \/ uci_save(p) \/ uci_revert(p) \/ uci_commit(p)
             \/ (\E c \in Change : uci_set(p, c))
             \/ Crash(p) \/ CrashInSave(p) \/ CrashInRebuild(p)
      PROVE  UciInv'
  BY <1>3, LoadKeeps, SaveKeeps, RevertKeeps, CommitKeeps, SetKeeps, CrashKeeps,
     CrashInSaveKeeps, CrashInRebuildKeeps
<1> QED
  BY <1>1, <1>2, <1>3 DEF Next

----------------------------------------------------------------------------
(* A change that was saved is lost only in one of the windows that            *)
(* LostOnlyInWindow lists: those of uci_file_commit (its rename included),    *)
(* of uci_load_delta, and of a uci_save or uci_filter_delta that is killed or *)
(* follows one that was; for any number of processes and changes, also if the *)
(* disk is full.                                                            *)
THEOREM ChangesKept == Spec => []LostOnlyInWindow
<1>1. UciInv => LostOnlyInWindow
  BY DEF UciInv
<1> QED
  BY <1>1, UciInitially, UciStep, PTL DEF Spec

(* What a step does to the processes that do not take it: nothing.          *)
LEMMA OthersStay ==
  ASSUME UciTypes, NEW p \in Proc, NEW q \in Proc \ {p},
         \/ Step(p) \/ uci_load(p) \/ uci_save(p) \/ uci_revert(p) \/ uci_commit(p)
         \/ (\E c \in Change : uci_set(p, c))
         \/ Crash(p) \/ CrashInSave(p) \/ CrashInRebuild(p)
  PROVE  proc'[q] = proc[q]
<1> USE DEF UciTypes
<1>1. CASE uci_file_load(p) \/ LoadDelta(p) \/ RebuildDelta(p) \/ LockConfig(p)
  BY <1>1 DEF uci_file_load, LoadDelta, RebuildDelta, LockConfig, Open
<1>2. CASE SaveAndReload(p) \/ ParseDelta(p) \/ FlushDelta(p) \/ mkstemp(p)
  BY <1>2 DEF SaveAndReload, ParseDelta, FlushDelta, mkstemp
<1>3. CASE MkstempFails(p) \/ uci_export(p) \/ CloseConfig(p) \/ rename(p) \/ RenameFails(p)
  BY <1>3 DEF MkstempFails, uci_export, CloseConfig, rename, RenameFails
<1>7. CASE FilterFails(p)
  BY <1>7 DEF FilterFails, Open
<1>4. ASSUME NEW K, uci_filter_delta(p, K) PROVE proc'[q] = proc[q]
  BY <1>4 DEF uci_filter_delta
<1>5. CASE uci_load(p) \/ uci_save(p) \/ uci_revert(p) \/ uci_commit(p)
  BY <1>5 DEF uci_load, uci_save, uci_revert, uci_commit, Open
<1>6. CASE (\E c \in Change : uci_set(p, c)) \/ Crash(p) \/ CrashInSave(p) \/ CrashInRebuild(p)
  BY <1>6 DEF uci_set, Crash, CrashInSave, CrashInRebuild
<1> QED
  BY <1>1, <1>2, <1>3, <1>4, <1>5, <1>6, <1>7 DEF Step

(* uci_load: a load that got its lock on the file in place with no commit     *)
(* past its own returns every change saved before.                          *)
THEOREM LoadsComplete == Spec => LoadsSeeSaved
<1> DEFINE Sees == \A p \in Proc : At(p, "load_delta") /\ proc'[p].loaded =>
                     proc[p].want \ (reverted \cup exposed) \subseteq proc'[p].pkg
<1>1. ASSUME UciInv, [Next]_vars PROVE [Sees]_vars
  <2> SUFFICES ASSUME NEW p \in Proc, proc[p].pc = "load_delta", proc'[p].loaded, Next
               PROVE  proc[p].want \ (reverted \cup exposed) \subseteq proc'[p].pkg
    BY <1>1 DEF At
  <2>1. UciTypes /\ LoadOK(p) /\ ~proc[p].loaded
    BY <1>1 DEF UciInv, LoadProtected, LoadOK
  <2>2. PICK q \in Proc : \/ Step(q) \/ uci_load(q) \/ uci_save(q) \/ uci_revert(q) \/ uci_commit(q)
                          \/ (\E c \in Change : uci_set(q, c))
                          \/ Crash(q) \/ CrashInSave(q) \/ CrashInRebuild(q)
    BY DEF Next
  <2>3. q = p
    BY <2>1, <2>2, OthersStay
  <2>4. LoadDelta(p) \/ Crash(p)
    BY <2>2, <2>3 DEF Step, Call, At, uci_file_load, uci_filter_delta, RebuildDelta, LockConfig,
       SaveAndReload, ParseDelta, FlushDelta, mkstemp, MkstempFails, uci_export, CloseConfig, rename,
       RenameFails, FilterFails, CrashInSave, CrashInRebuild, uci_load, uci_save, uci_revert,
       uci_commit, uci_set
  <2>5. LoadDelta(p)
    BY <2>1, <2>4 DEF Crash, Fresh, UciTypes
  <2>6. dlock = None /\ proc'[p].pkg = proc[p].pkg \cup delta
    BY <2>1, <2>5 DEF LoadDelta, Fresh, UciTypes
  <2>7. \A r \in Proc : proc[r].keep = {}
    BY <1>1, <2>6, UciAssumption DEF UciInv, DeltaLocked
  <2> QED
    BY <2>1, <2>6, <2>7 DEF LoadOK
<1> QED
  BY <1>1, UciInitially, UciStep, PTL DEF Spec, LoadsSeeSaved

(* As long as the temporary file is written completely, the path of the      *)
(* config file names a file that was exported completely (uci_file_commit),  *)
(* whatever is killed and whenever.                                         *)
THEOREM ConfigSafe == ~DiskFull /\ Spec => []ConfigWhole
<1>1. ASSUME ~DiskFull, UciInv, TmpWhole, [Next]_vars PROVE TmpWhole'
  <2>0. UciTypes
    BY <1>1 DEF UciInv
  <2> DEFINE Quiet(p) == /\ file' = file /\ conf' = conf
                         /\ proc'[p].pc \in {"close", "rename"} =>
                              proc[p].pc \in {"close", "rename"} /\ proc'[p].tmp = proc[p].tmp
             By(p) == \/ Step(p) \/ uci_load(p) \/ uci_save(p) \/ uci_revert(p) \/ uci_commit(p)
                      \/ (\E c \in Change : uci_set(p, c))
                      \/ Crash(p) \/ CrashInSave(p) \/ CrashInRebuild(p)
  <2>1. ASSUME NEW p \in Proc, uci_export(p) PROVE TmpWhole'
    <3>1. /\ file' = [file EXCEPT ![proc[p].tmp] = [has |-> proc[p].pkg, whole |-> TRUE]]
          /\ conf' = conf /\ proc[p].pc = "export" /\ proc' = [proc EXCEPT ![p].pc = "close"]
      BY <1>1, <2>1 DEF uci_export, At
    <3>2. proc[p].tmp \in Inode /\ proc[p].tmp # conf
      BY <1>1, <2>0, <3>1 DEF UciInv, TmpPrivate, Writing, UciTypes, ProcState
    <3>3. file'[conf'].whole
      BY <1>1, <2>0, <3>1, <3>2 DEF TmpWhole, UciTypes
    <3>4. ASSUME NEW q \in Proc, proc'[q].pc \in {"close", "rename"} PROVE file'[proc'[q].tmp].whole
      <4>1. CASE q = p
        BY <2>0, <3>1, <3>2, <4>1 DEF UciTypes, ProcState
      <4>2. CASE q # p
        <5>1. proc'[q] = proc[q] /\ proc[q].tmp \in Inode
          BY <2>0, <3>1, <4>2 DEF UciTypes, ProcState
        <5> QED
          BY <1>1, <2>0, <3>1, <3>2, <3>4, <5>1 DEF TmpWhole, UciTypes
      <4> QED
        BY <4>1, <4>2
    <3> QED
      BY <3>3, <3>4 DEF TmpWhole
  <2>2. ASSUME NEW p \in Proc, rename(p) PROVE TmpWhole'
    <3>1. /\ file' = file /\ conf' = proc[p].tmp /\ proc[p].pc = "rename"
          /\ proc'[p].pc = "idle" /\ \A q \in Proc \ {p} : proc'[q] = proc[q]
      BY <2>0, <2>2 DEF rename, At, UciTypes, ProcState
    <3> QED
      BY <1>1, <3>1 DEF TmpWhole
  <2>3. ASSUME NEW p \in Proc, By(p), ~uci_export(p), ~rename(p) PROVE Quiet(p)
    <3> USE DEF files, UciTypes, ProcState
    <3>1. CASE uci_file_load(p) \/ LockConfig(p)
      BY <2>0, <3>1 DEF uci_file_load, LockConfig
    <3>9. CASE LoadDelta(p)
      <4>1. proc'[p] = [Fresh EXCEPT !.loaded = TRUE, !.pkg = proc[p].pkg \cup delta]
        BY <2>0, <3>9 DEF LoadDelta
      <4>2. proc'[p].pc = "idle"
        BY <4>1 DEF Fresh
      <4> QED
        BY <3>9, <4>2 DEF LoadDelta
    <3>10. CASE RebuildDelta(p) \/ FilterFails(p)
      BY <2>0, <3>10 DEF RebuildDelta, FilterFails, Open
    <3>2. CASE SaveAndReload(p) \/ FlushDelta(p)
      BY <2>0, <3>2 DEF SaveAndReload, FlushDelta
    <3>11. CASE ParseDelta(p)
      BY <2>0, <3>11 DEF ParseDelta
    <3>3. CASE mkstemp(p) \/ MkstempFails(p) \/ RenameFails(p)
      BY <2>0, <3>3 DEF mkstemp, MkstempFails, RenameFails
    <3>8. CASE CloseConfig(p)
      BY <2>0, <3>8 DEF CloseConfig, At
    <3>4. ASSUME NEW K, uci_filter_delta(p, K) PROVE Quiet(p)
      BY <2>0, <3>4 DEF uci_filter_delta
    <3>5. CASE uci_load(p) \/ uci_save(p) \/ uci_revert(p) \/ uci_commit(p)
      BY <2>0, <3>5 DEF uci_load, uci_save, uci_revert, uci_commit, Open, Fresh, Call, At
    <3>6. ASSUME NEW c \in Change, uci_set(p, c) PROVE Quiet(p)
      BY <2>0, <3>6 DEF uci_set, At
    <3>7. CASE Crash(p) \/ CrashInSave(p) \/ CrashInRebuild(p)
      BY <2>0, <3>7 DEF Crash, CrashInSave, CrashInRebuild, Fresh
    <3> QED
      BY <2>3, <3>1, <3>2, <3>3, <3>4, <3>5, <3>6, <3>7, <3>8, <3>9, <3>10, <3>11 DEF Step
  <2>4. ASSUME NEW p \in Proc, By(p), ~uci_export(p), ~rename(p) PROVE TmpWhole'
    <3>1. Quiet(p) /\ \A q \in Proc \ {p} : proc'[q] = proc[q]
      BY <2>0, <2>3, <2>4, OthersStay
    <3> QED
      BY <1>1, <3>1 DEF TmpWhole
  <2>5. CASE UNCHANGED vars
    BY <1>1, <2>5 DEF vars, files, TmpWhole
  <2>6. [Next]_vars => UNCHANGED vars \/ \E p \in Proc : By(p)
    BY DEF Next
  <2> QED
    BY <1>1, <2>1, <2>2, <2>4, <2>5, <2>6
<1>2. TmpWhole => ConfigWhole
  BY DEF TmpWhole, ConfigWhole
<1>3. ~DiskFull /\ UciInv /\ TmpWhole /\ [Next]_vars => TmpWhole'
  BY <1>1
<1>4. CASE DiskFull
  BY <1>4
<1>5. CASE ~DiskFull
  <2>1. UciInv /\ TmpWhole /\ [Next]_vars => TmpWhole'
    BY <1>3, <1>5
  <2> QED
    BY <1>2, <2>1, UciInitially, UciStep, PTL DEF Spec
<1> QED
  BY <1>4, <1>5
=============================================================================
