----------------------------- MODULE Workspace -----------------------------
(***************************************************************************)
(* One agent's workspace: the operations of internal/workspace/manager.go  *)
(* and the calls the gateway (tool.exec) and the HTTP handlers make on     *)
(* them.                                                                   *)
(*                                                                         *)
(* The manager locks its map of records only while it reads or writes it.  *)
(* Everything an operation does to the file system happens outside the     *)
(* lock, with the record it read at the start.  A call is therefore the    *)
(* sequence of file system steps it has yet to do (todo), steps of         *)
(* concurrent calls interleave, and each step may fail and end the call.   *)
(* The removal of the directory and the writing of the base layer go file  *)
(* by file; the copies, removeChildren and the row of mkdirs are one step  *)
(* each, since they touch merged and out only (or make lower), and what is *)
(* said of overlapping calls is about lower, the mounts and the record.    *)
(*                                                                         *)
(* A directory is the set of files in it, or NoDir.  The upper layer of an *)
(* overlay holds the files a tool added and what hides base files: a       *)
(* whiteout each, or an opaque directory, which a tool leaves when it      *)
(* removes a directory of the base layer and makes it again.  upper stands *)
(* for upper and work, which are always removed and made together; out is  *)
(* the output directory with its manifest.                                 *)
(***************************************************************************)
EXTENDS Integers, Sequences, SequencesExt

CONSTANTS
    Base,      \* the files of the base layer (writeDefaultLower or a snapshot)
    Nested,    \* the ones in a directory of the base layer
    Written,   \* files a tool may add
    Link,      \* the one of them that is a symbolic link, leading out of the root
    NoDir,     \* no such directory
    NoMode,    \* no record
    Callers,   \* goroutines serving HTTP requests and worker connections
    Settings,  \* the machines and loads considered, see setting
    MaxMounts  \* bound on the overlays stacked on one directory

ASSUME WorkspaceAssumption ==
    /\ Link \in Written
    /\ Base \cap Written = {}
    /\ Base # {}
    /\ Nested \subseteq Base
    /\ \A d \in SUBSET (Base \cup Written) : d # NoDir
    /\ Settings \subseteq
         [overlay : BOOLEAN,   \* overlayfs can be mounted
          serial : BOOLEAN,    \* no two calls at a time
          ops : SUBSET {"tool", "ensure", "rollback", "commit", "destroy", "rmfault"},
          calls : Nat,         \* bound on the calls made
          faults : Nat]        \* bound on the steps the machine makes fail
    /\ MaxMounts \in Nat

VARIABLES
    lower, upper, merged, out,   \* the directories under the runtime root
    mounts,    \* the overlays stacked on merged; "dead": its upper was removed
    reg,       \* the registered record: its mode, or NoMode
    op, todo,  \* the call each caller makes and the steps it has left
    left,      \* the base files a caller that creates has yet to write
    mode,      \* the mode in the caller's copy of the record
    status,    \* how the caller's last call ended
    erred,     \* a call has failed before it had written the base layer it makes
    calls, faults,
    setting    \* the member of Settings that holds; it never changes

dirs == <<lower, upper, merged, out, mounts>>
control == <<op, left, calls, setting>>
wvars == <<lower, upper, merged, out, mounts, reg, op, todo, left, mode, status, erred,
           calls, faults, setting>>

Files == Base \cup Written
NoChange == [add |-> {}, hide |-> {}, opaque |-> {}]
NoOutput == [files |-> {}, manifest |-> NoDir]
Entries(d) == IF d = NoDir THEN {} ELSE d

\* What a process sees in the merged directory.
View ==
    CASE mounts = <<>> -> Entries(merged)
      [] mounts # <<>> /\ Last(mounts) = "live" /\ upper # NoDir ->
             (Entries(lower) \ (upper.hide \cup upper.opaque)) \cup upper.add
      [] OTHER -> Entries(lower)

WInit ==
    /\ lower = NoDir /\ upper = NoDir /\ merged = NoDir /\ out = NoDir
    /\ mounts = <<>>
    /\ reg = NoMode
    /\ op = [k \in Callers |-> "none"]
    /\ todo = [k \in Callers |-> <<>>]
    /\ left = [k \in Callers |-> {}]
    /\ mode = [k \in Callers |-> NoMode]
    /\ status = [k \in Callers |-> "none"]
    /\ erred = FALSE
    /\ calls = 0
    /\ faults = 0
    /\ setting \in Settings

-----------------------------------------------------------------------------
(* The programs of the operations. *)

CreateSteps == <<"rmRoot", "mkDirs", "seed", "mount">>
CopySteps == <<"fill", "store">>
CommitSteps == <<"rmOut", "copyOut", "manifest">>
RemountSteps == <<"umount", "rmUpper", "mkUpper", "remount">>
DegradeSteps == <<"rmMerged", "mkMerged", "fill", "store">>

\* Fault: the base layer is copied over what the tool left.
RestoreOver == <<"fill">>
\* Fault: the workspace's directory is removed with everything in it.
RestoreAll == <<"rmRoot", "fill">>
RestoreSteps == <<"clear", "fill">>

RollbackSteps(m) == IF m = "overlay" THEN RemountSteps ELSE RestoreSteps

\* Fault: the record is deleted before the directory is.
ForgetFirst(m) == (IF m = "overlay" THEN <<"umount">> ELSE <<>>) \o <<"forget", "rmRoot">>
DestroySteps(m) == (IF m = "overlay" THEN <<"umount">> ELSE <<>>) \o <<"rmRoot", "forget">>

\* The workspace is made from a snapshot, emptied and rolled back.
InjectSteps == CreateSteps \o <<"clear", "fetchRollback">>
FaultSteps == <<"snapshot">> \o InjectSteps

\* What each call starts with; fetch... reads the record under the lock.
Program(o) ==
    CASE o = "tool" -> <<"lookup", "mkMerged", "tool">>
      [] o = "ensure" -> <<"lookup">>
      [] o = "rollback" -> <<"fetchRollback">>
      [] o = "commit" -> <<"fetchCommit">>
      [] o = "destroy" -> <<"fetchDestroy">>
      [] o = "rmfault" -> FaultSteps

Begin(k) ==
    /\ todo[k] = <<>>
    /\ setting.serial => \A j \in Callers : todo[j] = <<>>
    /\ calls < setting.calls
    /\ calls' = calls + 1
    /\ \E o \in setting.ops :
          /\ op' = [op EXCEPT ![k] = o]
          /\ todo' = [todo EXCEPT ![k] = Program(o)]
    /\ status' = [status EXCEPT ![k] = "running"]
    /\ mode' = [mode EXCEPT ![k] = NoMode]
    /\ UNCHANGED <<dirs, reg, left, erred, faults, setting>>

\* The call goes on with the steps rest, or ends well when there are none.
\* A tool that failed has its workspace rolled back, and the call reports the
\* tool's failure whatever becomes of the rollback.
Continue(k, rest) ==
    /\ todo' = [todo EXCEPT ![k] = rest]
    /\ status' = [status EXCEPT ![k] = CASE rest = <<>> /\ @ = "running" -> "ok"
                                          [] rest = <<>> /\ @ = "failed" -> "restored"
                                          [] OTHER -> @]
    /\ UNCHANGED erred

Abort(k) ==
    /\ todo' = [todo EXCEPT ![k] = <<>>]
    /\ status' = [status EXCEPT ![k] = "error"]
    /\ erred' = (erred \/ Head(todo[k]) \in {"rmRoot", "mkDirs", "seed"})

At(k, step) == todo[k] # <<>> /\ Head(todo[k]) = step
Rest(k) == Tail(todo[k])

\* The step fails: the machine makes it, or another call that works on the same
\* directory (an entry that is gone, a directory that is not empty).
Fault(k) ==
    \/ faults < setting.faults /\ faults' = faults + 1
    \/ /\ ~setting.serial /\ \E j \in Callers \ {k} : todo[j] # <<>>
       /\ UNCHANGED faults
NoFault == UNCHANGED faults

-----------------------------------------------------------------------------
(* Steps on the record. *)

\* WorkspaceDir and ensureAgentWorkspace: look the record up, create if absent.
Lookup(k) ==
    /\ At(k, "lookup")
    /\ Continue(k, (IF reg = NoMode THEN CreateSteps ELSE <<>>) \o Rest(k))
    /\ UNCHANGED <<dirs, reg, mode, control, faults>>

Fetch(k, step, steps) ==
    /\ At(k, step)
    /\ IF reg = NoMode THEN Abort(k) ELSE Continue(k, steps)
    /\ mode' = [mode EXCEPT ![k] = reg]
    /\ UNCHANGED <<dirs, reg, control, faults>>

FetchRollback(k) == Fetch(k, "fetchRollback", RollbackSteps(reg))
FetchCommit(k) == Fetch(k, "fetchCommit", CommitSteps)
FetchDestroy(k) == Fetch(k, "fetchDestroy", DestroySteps(reg))

SetWorkspace(k) ==
    /\ At(k, "store")
    /\ reg' = mode[k]
    /\ Continue(k, Rest(k))
    /\ UNCHANGED <<dirs, mode, control, faults>>

Forget(k) ==
    /\ At(k, "forget")
    /\ reg' = NoMode
    /\ Continue(k, Rest(k))
    /\ UNCHANGED <<dirs, mode, control, faults>>

-----------------------------------------------------------------------------
(* Steps on the file system. *)

\* The snapshot is a directory of its own; without it PrepareAgent refuses.
Snapshot(k) ==
    /\ At(k, "snapshot")
    /\ \/ NoFault /\ Continue(k, Rest(k))
       \/ Fault(k) /\ Abort(k)
    /\ UNCHANGED <<dirs, reg, mode, control>>

\* RemoveAll goes on after an entry it cannot remove and then reports the error.
\* A mount point cannot be removed, but what is under it is; and what another
\* call has made again in the meantime stays.
RemoveRoot(k) ==
    /\ At(k, "rmRoot")
    /\ \/ /\ mounts = <<>> /\ NoFault
          /\ lower' = NoDir /\ upper' = NoDir /\ merged' = NoDir /\ out' = NoDir
          /\ Continue(k, Rest(k))
       \/ /\ mounts # <<>> /\ NoFault
          /\ lower' = NoDir /\ upper' = NoDir /\ out' = NoDir
          /\ UNCHANGED merged
          /\ Abort(k)
       \/ /\ mounts = <<>> /\ Fault(k)
          /\ upper' = NoDir /\ out' = NoDir
          /\ \/ lower' \in SUBSET Entries(lower) /\ merged' = NoDir
             \/ merged' \in SUBSET Entries(merged) /\ lower' = NoDir
          /\ Abort(k)
       \/ /\ mounts = <<>> /\ ~setting.serial /\ Fault(k)
          /\ UNCHANGED <<lower, upper, merged, out>>
          /\ Abort(k)
    /\ mounts' = [i \in DOMAIN mounts |-> "dead"]
    /\ UNCHANGED <<reg, mode, control>>

\* RemoveAll on its way: entries of one directory are gone, and other calls may
\* make them again before it comes to its end.
RemovePart(k) ==
    /\ At(k, "rmRoot") /\ ~setting.serial /\ mounts = <<>>
    /\ \/ lower' \in {NoDir} \cup SUBSET Entries(lower) /\ UNCHANGED <<upper, merged, out>>
       \/ merged' \in {NoDir} \cup SUBSET Entries(merged) /\ UNCHANGED <<lower, upper, out>>
       \/ upper' = NoDir /\ UNCHANGED <<lower, merged, out>>
       \/ out' = NoDir /\ UNCHANGED <<lower, upper, merged>>
    /\ UNCHANGED <<mounts, reg, todo, mode, status, erred, control, faults>>

\* mkdir in order; a failure leaves the ones made before it.
MakeDirs(k) ==
    /\ At(k, "mkDirs")
    /\ \E n \in 0..4 :
          /\ lower' = IF lower = NoDir /\ n >= 1 THEN {} ELSE lower
          /\ upper' = IF upper = NoDir /\ n >= 2 THEN NoChange ELSE upper
          /\ merged' = IF merged = NoDir /\ n >= 3 THEN {} ELSE merged
          /\ out' = IF out = NoDir /\ n >= 4 THEN NoOutput ELSE out
          /\ IF n = 4
             THEN NoFault /\ Continue(k, Rest(k)) /\ left' = [left EXCEPT ![k] = Base]
             ELSE Fault(k) /\ Abort(k) /\ UNCHANGED left
    /\ UNCHANGED <<mounts, reg, mode, op, calls, setting>>

\* The next file of the base layer, in any order, its directory made again when
\* it is gone.
Seed(k) ==
    /\ At(k, "seed")
    /\ \E f \in left[k] :
          \/ /\ NoFault /\ lower' = Entries(lower) \cup {f}
             /\ left' = [left EXCEPT ![k] = @ \ {f}]
             /\ Continue(k, IF left[k] = {f} THEN Rest(k) ELSE todo[k])
          \/ /\ Fault(k) /\ lower' \in {Entries(lower), Entries(lower) \cup {f}}
             /\ left' = [left EXCEPT ![k] = {}]
             /\ Abort(k)
    /\ UNCHANGED <<upper, merged, out, mounts, reg, mode, op, calls, setting>>

\* mountOverlay in create and in Rollback: when it fails the workspace degrades
\* to a copy of the base layer, made by the steps fallback.
MountOr(k, step, success, fallback) ==
    /\ At(k, step)
    /\ LET possible == setting.overlay /\ NoDir \notin {lower, upper, merged}
       IN  \/ /\ possible /\ Len(mounts) < MaxMounts /\ NoFault
              /\ mounts' = Append(mounts, "live")
              /\ mode' = [mode EXCEPT ![k] = "overlay"]
              /\ Continue(k, success)
           \/ /\ IF possible THEN Fault(k) ELSE NoFault
              /\ mode' = [mode EXCEPT ![k] = "copy"]
              /\ Continue(k, fallback)
              /\ UNCHANGED mounts
    /\ UNCHANGED <<lower, upper, merged, out, reg, control>>

Mount(k) == MountOr(k, "mount", <<"store">> \o Rest(k), CopySteps \o Rest(k))
Remount(k) == MountOr(k, "remount", Rest(k), DegradeSteps \o Rest(k))

\* The error of umount is ignored.
Unmount(k) ==
    /\ At(k, "umount")
    /\ \/ NoFault /\ mounts' = (IF mounts = <<>> THEN <<>> ELSE Front(mounts))
       \/ mounts # <<>> /\ Fault(k) /\ UNCHANGED mounts
    /\ Continue(k, Rest(k))
    /\ UNCHANGED <<lower, upper, merged, out, reg, mode, control>>

RemoveUpper(k) ==
    /\ At(k, "rmUpper")
    /\ \/ /\ NoFault /\ upper' = NoDir
          /\ mounts' = [i \in DOMAIN mounts |-> "dead"]
          /\ Continue(k, Rest(k))
       \/ /\ upper # NoDir /\ Fault(k)
          /\ \E add \in SUBSET upper.add, hide \in SUBSET upper.hide, opaque \in SUBSET upper.opaque :
                upper' = [add |-> add, hide |-> hide, opaque |-> opaque]
          /\ UNCHANGED mounts
          /\ Abort(k)
    /\ UNCHANGED <<lower, merged, out, reg, mode, control>>

MakeUpper(k) ==
    /\ At(k, "mkUpper")
    /\ \/ NoFault /\ upper' = (IF upper = NoDir THEN NoChange ELSE upper) /\ Continue(k, Rest(k))
       \/ Fault(k) /\ UNCHANGED upper /\ Abort(k)
    /\ UNCHANGED <<lower, merged, out, mounts, reg, mode, control>>

MakeMerged(k) ==
    /\ At(k, "mkMerged")
    /\ \/ NoFault /\ merged' = Entries(merged) /\ Continue(k, Rest(k))
       \/ Fault(k) /\ UNCHANGED merged /\ Abort(k)
    /\ UNCHANGED <<lower, upper, out, mounts, reg, mode, control>>

\* The base files that only an opaque directory hides.
Opaque == IF upper = NoDir THEN {} ELSE upper.opaque

\* The merged directory comes to show the files v.  Of the base files that are
\* no longer to be seen, those in o are hidden by an opaque directory, the others
\* by a whiteout each.
SetView(v, o) ==
    /\ merged' = IF mounts = <<>> THEN v ELSE merged
    /\ upper' = IF mounts # <<>> /\ Last(mounts) = "live" /\ upper # NoDir
                THEN [add |-> (v \ Entries(lower)) \cup (v \cap (upper.add \cup upper.hide \cup upper.opaque)),
                      hide |-> Entries(lower) \ (v \cup o),
                      opaque |-> (Entries(lower) \cap o) \ v]
                ELSE upper

\* RemoveAll of merged fails on a mount point once it has emptied it.
RemoveMerged(k) ==
    /\ At(k, "rmMerged")
    /\ \/ mounts = <<>> /\ NoFault /\ merged' = NoDir /\ UNCHANGED upper /\ Continue(k, Rest(k))
       \/ mounts # <<>> /\ NoFault /\ SetView({}, {}) /\ Abort(k)
       \/ /\ mounts = <<>> /\ Fault(k)
          /\ merged' \in SUBSET Entries(merged)
          /\ UNCHANGED upper
          /\ Abort(k)
    /\ UNCHANGED <<lower, out, mounts, reg, mode, control>>

\* removeChildren, of Rollback in a copy and of the injected rm -rf: it refuses
\* a link that leads out of the root, once it has removed the entries before it.
Clear(k) ==
    /\ At(k, "clear")
    /\ \/ /\ merged # NoDir /\ Link \notin View /\ NoFault
          /\ SetView({}, {})
          /\ Continue(k, Rest(k))
       \/ merged = NoDir /\ NoFault /\ UNCHANGED <<merged, upper>> /\ Abort(k)
       \/ /\ merged # NoDir
          /\ IF Link \in View THEN NoFault ELSE Fault(k)
          /\ \E v \in SUBSET View, o \in SUBSET Opaque : (Link \in View => Link \in v) /\ SetView(v, o)
          /\ Abort(k)
    /\ UNCHANGED <<lower, out, mounts, reg, mode, control>>

\* copyTree from lower to merged.
Fill(k) ==
    /\ At(k, "fill")
    /\ \/ lower # NoDir /\ NoFault /\ SetView(View \cup lower, Opaque) /\ Continue(k, Rest(k))
       \/ lower = NoDir /\ NoFault /\ UNCHANGED <<merged, upper>> /\ Abort(k)
       \/ /\ lower # NoDir /\ Fault(k)
          /\ \E some \in SUBSET lower : SetView(View \cup some, Opaque)
          /\ Abort(k)
    /\ UNCHANGED <<lower, out, mounts, reg, mode, control>>

\* The previous output goes before the new one is there.
RemoveOutput(k) ==
    /\ At(k, "rmOut")
    /\ \/ NoFault /\ out' = NoOutput /\ Continue(k, Rest(k))
       \/ Fault(k) /\ out' \in {out, NoDir} /\ Abort(k)
    /\ UNCHANGED <<lower, upper, merged, mounts, reg, mode, control>>

\* Fault: whiteouts are skipped.
SkipWhiteouts(m) ==
    IF m = "overlay"
    THEN IF upper = NoDir THEN [dir |-> FALSE] ELSE
             [dir |-> TRUE, files |-> upper.add, copyable |-> Link \notin upper.add]
    ELSE IF merged = NoDir THEN [dir |-> FALSE] ELSE
             [dir |-> TRUE, files |-> View, copyable |-> Link \notin View]

\* What Commit copies: the changes in the upper layer, or the whole copy.
\* A link is refused, and a whiteout cannot be opened; an opaque directory is
\* copied like any other.
CommitSource(m) ==
    IF m = "overlay"
    THEN IF upper = NoDir THEN [dir |-> FALSE] ELSE
             [dir |-> TRUE, files |-> upper.add, copyable |-> upper.hide = {} /\ Link \notin upper.add]
    ELSE IF merged = NoDir THEN [dir |-> FALSE] ELSE
             [dir |-> TRUE, files |-> View, copyable |-> Link \notin View]

CopyOutput(k) ==
    /\ At(k, "copyOut")
    /\ LET src == CommitSource(mode[k])
           kept == IF out = NoDir THEN NoOutput ELSE out
           Copied(files) == out' = [kept EXCEPT !.files = @ \cup files]
       IN  \/ src.dir /\ src.copyable /\ NoFault /\ Copied(src.files) /\ Continue(k, Rest(k))
           \/ ~src.dir /\ NoFault /\ UNCHANGED out /\ Abort(k)
           \/ /\ src.dir
              /\ IF src.copyable THEN Fault(k) ELSE NoFault
              /\ \E some \in SUBSET (src.files \ {Link}) : Copied(some)
              /\ Abort(k)
    /\ UNCHANGED <<lower, upper, merged, mounts, reg, mode, control>>

WriteManifest(k) ==
    /\ At(k, "manifest")
    /\ \/ out # NoDir /\ NoFault /\ out' = [out EXCEPT !.manifest = out.files] /\ Continue(k, Rest(k))
       \/ out = NoDir /\ NoFault /\ UNCHANGED out /\ Abort(k)
       \/ Fault(k) /\ UNCHANGED out /\ Abort(k)
    /\ UNCHANGED <<lower, upper, merged, mounts, reg, mode, control>>


-----------------------------------------------------------------------------
\* The tool of tool.exec runs in merged and leaves it showing any files; a tool
\* that exits with zero in time is committed, any other one rolled back.
RunTool(k) ==
    /\ At(k, "tool")
    /\ \/ /\ merged # NoDir
          /\ \E v \in SUBSET Files, o \in SUBSET Nested : SetView(v, o)
          /\ Continue(k, <<"fetchCommit">>)
       \/ /\ \/ merged = NoDir /\ UNCHANGED <<merged, upper>>
             \/ merged # NoDir /\ \E v \in SUBSET Files, o \in SUBSET Nested : SetView(v, o)
          /\ todo' = [todo EXCEPT ![k] = <<"fetchRollback">>]
          /\ status' = [status EXCEPT ![k] = "failed"]
          /\ UNCHANGED erred
    /\ UNCHANGED <<lower, out, mounts, reg, mode, control, faults>>

RecordStep(k) ==
    \/ Lookup(k) \/ SetWorkspace(k) \/ Forget(k)
    \/ FetchRollback(k) \/ FetchCommit(k) \/ FetchDestroy(k)

FileStep(k) ==
    \/ Snapshot(k) \/ RemoveRoot(k) \/ RemovePart(k) \/ MakeDirs(k) \/ Seed(k) \/ Mount(k)
    \/ Unmount(k) \/ RemoveUpper(k) \/ MakeUpper(k) \/ Remount(k)
    \/ RemoveMerged(k) \/ MakeMerged(k) \/ Clear(k) \/ Fill(k)
    \/ RemoveOutput(k) \/ CopyOutput(k) \/ WriteManifest(k)
    \/ RunTool(k)

WNext == \E k \in Callers : Begin(k) \/ RecordStep(k) \/ FileStep(k)

WSpec == WInit /\ [][WNext]_wvars

-----------------------------------------------------------------------------
(* Properties. *)

AtRest == \A k \in Callers : todo[k] = <<>>
Ended(k) == todo[k] # <<>> /\ todo'[k] = <<>>

\* A Rollback that reports no error leaves the workspace showing the base layer
\* and nothing of what a tool left there, in both modes, whatever failed in this
\* workspace before (manager.go Rollback, also after a tool that failed), as long
\* as no two calls work on it at a time.
RollbackRestores ==
    [][\A k \in Callers :
          /\ setting.serial /\ Ended(k)
          /\ status'[k] = "restored" \/ (status'[k] = "ok" /\ op[k] \in {"rollback", "rmfault"})
          => View' = Entries(lower')]_wvars

\* Nothing went wrong that an earlier call reported: what is mounted is what the
\* record says, with the upper layer that is there now.
Intact == IF reg = "overlay" THEN mounts # <<>> /\ Last(mounts) = "live" ELSE mounts = <<>>

\* A commit or a tool.exec that reports success has put what the tool left into
\* the output, listed in the manifest: all of it, or its changes to the base
\* layer when the workspace is an overlay, where the only change that may be
\* missing is the loss of files in a directory that was removed and made again
\* (manager.go Commit, gateway.go toolExec).  No two calls work on the workspace
\* at a time, and no earlier call reported an error that left it not Intact.
CommitFaithful ==
    [][\A k \in Callers :
          setting.serial /\ Ended(k) /\ status'[k] = "ok" /\ op[k] \in {"tool", "commit"} /\ Intact
          => /\ out'.manifest = out'.files
             /\ View' = out'.files \cup (IF reg = "overlay" THEN Entries(lower') \ Opaque' ELSE {})]_wvars

\* While no call is in progress, a mounted workspace is one that Destroy will
\* unmount: otherwise its directory can never be removed (manager.go Destroy
\* unmounts only what is registered as an overlay).
DestroyableAtRest == AtRest /\ mounts # <<>> => reg = "overlay"

\* No Destroy works on the directory together with another call.
NoLateDestroy == setting.serial \/ "destroy" \notin setting.ops

\* Calls that find no workspace create one each, and the later one deletes the
\* files the earlier one is writing (server.go WorkspaceDir, ensureAgentWorkspace);
\* once they are done the registered workspace has its complete base layer, where
\* no mounted overlay keeps directories from being deleted, unless a call was
\* refused before it had written its own base layer, or a Destroy overlapped.
CreatesConverge ==
    ~setting.overlay /\ NoLateDestroy /\ ~erred /\ AtRest /\ reg # NoMode => lower = Base
=============================================================================
