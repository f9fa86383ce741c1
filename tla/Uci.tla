-------------------------------- MODULE Uci ---------------------------------
(***************************************************************************)
(* One uci package shared by several processes: the config file, its delta  *)
(* file, and the locks under which uci_load, uci_save, uci_revert and        *)
(* uci_commit work on them.                                                 *)
(*                                                                          *)
(* A change is a model value and a file is the set of changes it holds (they *)
(* concern different options, so their order does not matter).  The config   *)
(* file is replaced by rename, so `conf' is the number of the file that the  *)
(* path names, and a process that waits for a lock waits for the lock of the *)
(* file it opened.  The delta file is never replaced.  A process may be      *)
(* killed between any two steps, which releases its locks and no more, and   *)
(* in the middle of writing the delta file, which may leave a line without   *)
(* its end in it: `torn' says that there is one.  The next lines are then    *)
(* read as the rest of that one.  Everybody locks the delta file to read or  *)
(* to write it, so what is done to it under one lock is one step.           *)
(*                                                                          *)
(* `saved', `reverted' and `exposed' are history: the changes that were      *)
(* handed to uci_save, the ones taken out of the delta file, and the ones    *)
(* that were caught in a window in which the code does not protect them.     *)
(***************************************************************************)
EXTENDS Naturals, FiniteSets

CONSTANTS Proc, Change, None,
          MaxCalls,   \* bound: calls of the library
          MaxFiles,   \* bound: files made by mkstemp
          MaxCrash,   \* bound: processes killed
          DiskFull    \* whether what is written may not reach the disk

ASSUME UciAssumption == None \notin Proc /\ MaxFiles \in Nat /\ DiskFull \in BOOLEAN

VARIABLES conf, file, made,
          delta, torn, dlock,    \* the delta file, and who holds its lock
          proc,
          calls, crashes,
          saved, reverted, exposed

files == <<conf, file, made>>
deltafile == <<delta, torn>>
history == <<saved, reverted, exposed>>
vars == <<files, deltafile, dlock, proc, calls, crashes, history>>

\* pc: where the call stands; ino: the config file it has open (f1); pkg: the
\* package in memory; new: p->delta; parsed: the delta that uci_load_delta
\* read; any: whether it counted a change; keep: the list of uci_filter_delta;
\* want: history, what this load must find.
Fresh == [pc |-> "idle", ino |-> 0, loaded |-> FALSE, pkg |-> {}, new |-> {},
          parsed |-> {}, any |-> FALSE, tmp |-> 0, keep |-> {}, want |-> {}]

Init ==
    /\ conf = 0 /\ made = 0
    /\ file = [i \in 0..MaxFiles |-> [has |-> {}, whole |-> i = 0]]
    /\ delta = {} /\ torn = FALSE /\ dlock = None
    /\ proc = [p \in Proc |-> Fresh]
    /\ calls = 0 /\ crashes = 0
    /\ saved = {} /\ reverted = {} /\ exposed = {}

At(p, pc) == proc[p].pc = pc

\* The steps of uci_file_commit during which f1 is open and locked, and all
\* of its steps.
Locked == {"save", "parse", "flush", "mkstemp", "export", "close"}
Committing == Locked \cup {"open", "rename"}
\* The delta is read and emptied, and the new config is not in place yet.
Emptied == {"mkstemp", "export", "close", "rename"}

Call(p) ==
    /\ At(p, "idle")
    /\ calls < MaxCalls
    /\ calls' = calls + 1

\* uci_open_stream opens first and then waits for the lock of what it opened.
Open(p, pc) == [proc EXCEPT ![p].pc = pc, ![p].ino = conf]
Holds(q, i, pcs) == proc[q].ino = i /\ proc[q].pc \in pcs

----------------------------------------------------------------------------
(* uci_load.                                                                *)

uci_load(p) ==
    /\ Call(p)
    /\ proc' = [Open(p, "load") EXCEPT ![p].loaded = FALSE, ![p].pkg = {}, ![p].new = {}]
    /\ UNCHANGED <<files, deltafile, dlock, crashes, history>>

\* The shared lock is granted and the file is read.  What was saved until now
\* must be found if the file is the one the path names and no commit is past
\* its lock, or waits for that of a file that was replaced.
uci_file_load(p) ==
    LET calm == /\ proc[p].ino = conf
                /\ \A q \in Proc : proc[q].pc \in Committing => At(q, "open") /\ proc[q].ino = conf
    IN  /\ At(p, "load")
        /\ ~\E q \in Proc : Holds(q, proc[p].ino, Locked)
        /\ proc' = [proc EXCEPT ![p].pc = "load_delta", ![p].pkg = file[proc[p].ino].has,
                                ![p].want = IF calm THEN saved ELSE {}]
        /\ UNCHANGED <<files, deltafile, dlock, calls, crashes, history>>

\* uci_load_delta without flush, and the config file is closed.
LoadDelta(p) ==
    /\ At(p, "load_delta")
    /\ dlock = None
    /\ proc' = [proc EXCEPT ![p] = [Fresh EXCEPT !.loaded = TRUE, !.pkg = proc[p].pkg \cup delta]]
    /\ UNCHANGED <<files, deltafile, dlock, calls, crashes, history>>

----------------------------------------------------------------------------
(* Changing a package, uci_save and uci_revert.                             *)

uci_set(p, c) ==
    /\ At(p, "idle") /\ proc[p].loaded
    /\ c \notin saved /\ \A q \in Proc : c \notin proc[q].new
    /\ proc' = [proc EXCEPT ![p].new = @ \cup {c}, ![p].pkg = @ \cup {c}]
    /\ UNCHANGED <<files, deltafile, dlock, calls, crashes, history>>

\* Writing the changes S: what of them the delta file then holds, and whether
\* its last line has no end.  The results of fprintf and fflush are not looked
\* at, and behind a torn line any of them may be misread.
Held(S) == IF DiskFull \/ torn THEN SUBSET S ELSE {S}
Cut(S) == {FALSE, DiskFull /\ S # {}}

\* The changes in memory are appended under the lock of the delta file.  They
\* are exposed if they are not held, or if a commit has read the file and is
\* about to empty it.
Append(p, W, cut) ==
    /\ delta' = delta \cup W
    /\ torn' = (torn \/ cut)
    /\ saved' = saved \cup proc[p].new
    /\ exposed' = exposed \cup
                  IF \E q \in Proc : At(q, "flush") THEN proc[p].new ELSE proc[p].new \ W
    /\ UNCHANGED reverted

Save(p) == \E W \in Held(proc[p].new), cut \in Cut(proc[p].new) : Append(p, W, cut)

uci_save(p) ==
    /\ Call(p)
    /\ proc[p].new # {}
    /\ dlock = None
    /\ Save(p)
    /\ proc' = [proc EXCEPT ![p].new = {}]
    /\ UNCHANGED <<files, dlock, crashes>>

\* Saves, and drops the package.
uci_revert(p) ==
    /\ Call(p)
    /\ proc[p].loaded
    /\ dlock = None
    /\ Save(p)
    /\ proc' = [proc EXCEPT ![p] = [Fresh EXCEPT !.pc = "filter"]]
    /\ UNCHANGED <<files, dlock, crashes>>

\* Reads the delta and empties the file; K is what the request matches.
uci_filter_delta(p, K) ==
    /\ At(p, "filter")
    /\ dlock = None
    /\ dlock' = p
    /\ delta' = {} /\ torn' = FALSE
    /\ reverted' = reverted \cup (delta \cap K)
    /\ proc' = [proc EXCEPT ![p].pc = "rebuild", ![p].keep = delta \ K]
    /\ UNCHANGED <<files, calls, crashes, saved, exposed>>

\* A line that cannot be parsed ends the filter before the file is emptied; the
\* error is dropped and the package loaded again.
FilterFails(p) ==
    /\ At(p, "filter")
    /\ dlock = None
    /\ torn
    /\ proc' = Open(p, "load")
    /\ UNCHANGED <<files, deltafile, dlock, calls, crashes, history>>

\* The changes of `keep' are written to the emptied file, which then holds W.
Rewrite(keep, cut, W) ==
    /\ delta' = W
    /\ torn' = cut
    /\ exposed' = exposed \cup (keep \ W)
    /\ UNCHANGED <<saved, reverted>>

\* Fault: the package is loaded again before the stream is closed.
RebuildKeepsLock(p) ==
    /\ At(p, "rebuild")
    /\ Rewrite(proc[p].keep, FALSE, proc[p].keep)
    /\ proc' = [Open(p, "load") EXCEPT ![p].keep = {}]
    /\ UNCHANGED <<files, dlock, calls, crashes>>

\* Writes the rest back, closes the delta file and loads the package again.
RebuildDelta(p) ==
    /\ At(p, "rebuild")
    /\ \E W \in Held(proc[p].keep), cut \in Cut(proc[p].keep) : Rewrite(proc[p].keep, cut, W)
    /\ dlock' = None
    /\ proc' = [Open(p, "load") EXCEPT ![p].keep = {}]
    /\ UNCHANGED <<files, calls, crashes>>

----------------------------------------------------------------------------
(* uci_commit of a loaded package: uci_file_commit without overwrite.       *)

uci_commit(p) ==
    /\ Call(p)
    /\ proc[p].loaded
    /\ proc' = Open(p, "open")
    /\ UNCHANGED <<files, deltafile, dlock, crashes, history>>

\* Fault: the lock is a shared one.
LockShared(p) ==
    /\ At(p, "open")
    /\ ~\E q \in Proc : Holds(q, proc[p].ino, Locked)
    /\ proc' = [proc EXCEPT ![p].pc = "save"]
    /\ UNCHANGED <<files, deltafile, dlock, calls, crashes, history>>

LockConfig(p) ==
    /\ At(p, "open")
    /\ ~\E q \in Proc : Holds(q, proc[p].ino, Locked \cup {"load_delta"})
    /\ proc' = [proc EXCEPT ![p].pc = "save"]
    /\ UNCHANGED <<files, deltafile, dlock, calls, crashes, history>>

\* Fault: the package is committed as it was loaded.
SaveOnly(p) ==
    /\ At(p, "save")
    /\ proc[p].new # {} => dlock = None
    /\ Save(p)
    /\ proc' = [proc EXCEPT ![p].pc = "parse", ![p].new = {}]
    /\ UNCHANGED <<files, dlock, calls, crashes>>

\* The own changes go to the delta file, and the package is read from f1.
SaveAndReload(p) ==
    /\ At(p, "save")
    /\ proc[p].new # {} => dlock = None
    /\ Save(p)
    /\ proc' = [proc EXCEPT ![p].pc = "parse", ![p].new = {}, ![p].pkg = file[proc[p].ino].has]
    /\ UNCHANGED <<files, dlock, calls, crashes>>

\* uci_load_delta with flush: reads the delta under a shared lock and counts the
\* changes, to which a torn line may add one ...
ParseDelta(p) ==
    /\ At(p, "parse")
    /\ dlock = None
    /\ \E any \in {delta # {}, torn \/ delta # {}} :
         proc' = [proc EXCEPT ![p].pc = "flush", ![p].parsed = delta, ![p].any = any,
                              ![p].pkg = @ \cup delta]
    /\ UNCHANGED <<files, deltafile, dlock, calls, crashes, history>>

\* ... closes it, opens it again with an exclusive lock and empties it if
\* anything was read.  If not, the commit is over.
FlushDelta(p) ==
    /\ At(p, "flush")
    /\ dlock = None
    /\ IF proc[p].any
       THEN /\ proc' = [proc EXCEPT ![p].pc = "mkstemp", ![p].any = FALSE]
            /\ delta' = {} /\ torn' = FALSE
       ELSE /\ proc' = [proc EXCEPT ![p].pc = "idle", ![p].ino = 0]
            /\ UNCHANGED deltafile
    /\ UNCHANGED <<files, dlock, calls, crashes, history>>

\* Fault: the config file itself is rewritten.
RewriteInPlace(p) ==
    /\ At(p, "mkstemp")
    /\ file' = [file EXCEPT ![proc[p].ino] = [has |-> {}, whole |-> FALSE]]
    /\ proc' = [proc EXCEPT ![p].pc = "export", ![p].tmp = proc[p].ino]
    /\ UNCHANGED <<conf, made, deltafile, dlock, calls, crashes, history>>

mkstemp(p) ==
    /\ At(p, "mkstemp")
    /\ made < MaxFiles
    /\ made' = made + 1
    /\ proc' = [proc EXCEPT ![p].pc = "export", ![p].tmp = made + 1]
    /\ UNCHANGED <<conf, file, deltafile, dlock, calls, crashes, history>>

\* The commit gives up with the delta already gone from its file.
MkstempFails(p) ==
    /\ At(p, "mkstemp")
    /\ proc' = [proc EXCEPT ![p].pc = "idle", ![p].ino = 0, ![p].parsed = {}]
    /\ exposed' = exposed \cup proc[p].parsed
    /\ UNCHANGED <<files, deltafile, dlock, calls, crashes, saved, reverted>>

\* uci_export, fflush and fsync, whose results are not looked at.
uci_export(p) ==
    /\ At(p, "export")
    /\ \E whole \in {TRUE, ~DiskFull} :
         file' = [file EXCEPT ![proc[p].tmp] = [has |-> proc[p].pkg, whole |-> whole]]
    /\ proc' = [proc EXCEPT ![p].pc = "close"]
    /\ UNCHANGED <<conf, made, deltafile, dlock, calls, crashes, history>>

\* uci_close_stream(f1): the lock is gone before the new file is in place.
CloseConfig(p) ==
    /\ At(p, "close")
    /\ proc' = [proc EXCEPT ![p].pc = "rename"]
    /\ UNCHANGED <<files, deltafile, dlock, calls, crashes, history>>

\* A commit that ends while another one is under way may be undone by it.
rename(p) ==
    /\ At(p, "rename")
    /\ conf' = proc[p].tmp
    /\ proc' = [proc EXCEPT ![p].pc = "idle", ![p].ino = 0, ![p].parsed = {}, ![p].tmp = 0]
    /\ exposed' = exposed \cup
                  IF \E q \in Proc \ {p} : proc[q].pc \in Committing THEN proc[p].parsed ELSE {}
    /\ UNCHANGED <<file, made, deltafile, dlock, calls, crashes, saved, reverted>>

\* realpath, stat, chmod or rename fails: the new file is removed and the commit
\* gives up, with the delta gone from its file.
RenameFails(p) ==
    /\ At(p, "rename")
    /\ proc' = [proc EXCEPT ![p].pc = "idle", ![p].ino = 0, ![p].parsed = {}, ![p].tmp = 0]
    /\ exposed' = exposed \cup proc[p].parsed
    /\ UNCHANGED <<files, deltafile, dlock, calls, crashes, saved, reverted>>

----------------------------------------------------------------------------
\* The process is killed: a commit between emptying the delta and the rename
\* takes the changes with it.
Crash(p) ==
    /\ crashes < MaxCrash
    /\ crashes' = crashes + 1
    /\ ~At(p, "rebuild")
    /\ proc' = [proc EXCEPT ![p] = Fresh]
    /\ exposed' = exposed \cup
                  IF proc[p].pc \in Emptied THEN proc[p].parsed ELSE {}
    /\ UNCHANGED <<files, deltafile, dlock, calls, saved, reverted>>

\* It is killed in uci_save, called by itself, by uci_revert or by the commit:
\* some of the changes are written, the last one perhaps in part.
CrashInSave(p) ==
    /\ crashes < MaxCrash
    /\ crashes' = crashes + 1
    /\ proc[p].pc \in {"idle", "save"} /\ proc[p].new # {}
    /\ dlock = None
    /\ \E W \in SUBSET proc[p].new, cut \in BOOLEAN : Append(p, W, cut)
    /\ proc' = [proc EXCEPT ![p] = Fresh]
    /\ UNCHANGED <<files, dlock, calls>>

\* A revert is killed while it writes the rest of the delta back.
CrashInRebuild(p) ==
    /\ crashes < MaxCrash
    /\ crashes' = crashes + 1
    /\ At(p, "rebuild")
    /\ \E W \in SUBSET proc[p].keep, cut \in BOOLEAN :
         /\ cut => proc[p].keep # {}
         /\ Rewrite(proc[p].keep, cut, W)
    /\ proc' = [proc EXCEPT ![p] = Fresh]
    /\ dlock' = None
    /\ UNCHANGED <<files, calls>>

Match == {{c} : c \in Change} \cup {Change}

Step(p) ==
    \/ uci_file_load(p) \/ LoadDelta(p)
    \/ \E K \in Match : uci_filter_delta(p, K)
    \/ FilterFails(p) \/ RebuildDelta(p)
    \/ LockConfig(p) \/ SaveAndReload(p) \/ ParseDelta(p) \/ FlushDelta(p)
    \/ mkstemp(p) \/ MkstempFails(p) \/ uci_export(p) \/ CloseConfig(p)
    \/ rename(p) \/ RenameFails(p)

Next ==
    \E p \in Proc :
      \/ Step(p)
      \/ uci_load(p) \/ uci_save(p) \/ uci_revert(p) \/ uci_commit(p)
      \/ \E c \in Change : uci_set(p, c)
      \/ Crash(p) \/ CrashInSave(p) \/ CrashInRebuild(p)

Spec == Init /\ [][Next]_vars /\ \A p \in Proc : WF_vars(Step(p))

----------------------------------------------------------------------------
(* Whatever is killed and whenever, the path of the config file names a file *)
(* that was exported completely (uci_file_commit writes a temporary file and *)
(* renames it).  With DiskFull this is false: the results of fflush and      *)
(* fsync are not looked at.                                                 *)
ConfigWhole == file[conf].whole

(* A change that was saved is in the config file, still in the delta file,   *)
(* or in the hands of the commit or revert that took it out under its lock,  *)
(* unless it was reverted or met one of these windows: it was saved between  *)
(* a commit's reading and emptying the delta file; its commit died or failed *)
(* after emptying it, the rename included; its commit ended while another    *)
(* was under way; the save or the revert that wrote it was killed; it was    *)
(* appended to a line that a killed writer left without its end; with        *)
(* DiskFull, it was not written.                                            *)
LostOnlyInWindow ==
    \A c \in saved \ (reverted \cup exposed) :
      \/ c \in delta \cup file[conf].has
      \/ \E p \in Proc : c \in proc[p].keep \/ (proc[p].pc \in Emptied /\ c \in proc[p].parsed)

(* A load that got its lock on the file in place, with no commit past its    *)
(* own, returns a package with every change saved before: the shared lock    *)
(* keeps a commit from moving changes from the delta file to the config file *)
(* between the reading of the two.                                          *)
LoadsSeeSaved ==
    [][\A p \in Proc : At(p, "load_delta") /\ proc'[p].loaded =>
         proc[p].want \ (reverted \cup exposed) \subseteq proc'[p].pkg]_vars

(* No call waits for ever: the locks of the config file and of the delta     *)
(* file are taken in this order only, and nothing is kept locked.           *)
CallsEnd == \A p \in Proc : ~At(p, "idle") ~> At(p, "idle")
=============================================================================
