----------------------------- MODULE SpeechModel -----------------------------
(***************************************************************************)
(* The speech model shared by several running copies of Thoughts: the      *)
(* installer and its repair, which change one revision directory under a   *)
(* lock directory, and in each process the setup service, the transcriber  *)
(* that maps the saved files and its one stream.                           *)
(*                                                                         *)
(* The files of the revision are one value.  A cancelled context and a     *)
(* failing file operation end a call at the same places and are one        *)
(* outcome.  Closing a lock file's descriptor does not fail.               *)
(***************************************************************************)
EXTENDS Integers, FiniteSets

CONSTANT Process   \* running copies of Thoughts that share the model directory

VARIABLES
  content,      \* files of the approved revision's directory
  marker,       \* its .complete directory exists
  locked,       \* .install.lock exists
  step,         \* where the process's setup call is
  call,         \* which setup call that is, or was
  installed,    \* the call's install or repair returned no error
  staged,       \* the staging directory of the call
  use,          \* the installation use of the call or of the transcriber
  abandoned,    \* an InstallationUse that is never closed
  transcriber,  \* browserSpeechSetup.transcriber and modelReleaseErr
  stream,       \* transcriberState.activeStream and the runtime gate
  closed,       \* browserSpeechSetup.closed
  lost          \* history: native resources whose cleanup failed

disk == <<content, marker, locked>>
setup == <<step, call, installed, staged>>
native == <<transcriber, stream, lost>>
modelVars == <<disk, setup, use, abandoned, native, closed>>

\* "damaged" by somebody else, "broken" by a removal that did not finish.
Content == {"absent", "intact", "broken", "damaged"}

ClaimedSteps == {"checking", "revoking", "removing", "releasing"}
InstallSteps == {"installing", "downloading", "publishing", "marking"}
LockedSteps == ClaimedSteps \cup InstallSteps \cup {"claiming", "unlocking"}
LoadSteps == {"opening", "verifying", "loading"}

\* Every value has its type, and a repair's exclusive use ends with the repair.
ModelTypeOK ==
  /\ content \in Content /\ marker \in BOOLEAN /\ locked \in BOOLEAN
  /\ step \in [Process -> {"idle", "retiring", "locking"} \cup LockedSteps \cup LoadSteps]
  /\ call \in [Process -> {"load", "install", "repair"}]
  /\ installed \in [Process -> BOOLEAN]
  /\ staged \in [Process -> {"absent", "intact"}]
  /\ use \in [Process -> {"none", "shared", "exclusive"}]
  /\ abandoned \in [Process -> BOOLEAN]
  /\ transcriber \in [Process -> {"none", "loaded", "unreleased"}]
  /\ stream \in [Process -> {"none", "open", "inferring"}]
  /\ closed \in [Process -> BOOLEAN]
  /\ lost \in [Process -> SUBSET {"model", "stream"}]
  /\ \A p \in Process : use[p] = "exclusive" =>
       call[p] = "repair" /\ step[p] \in ClaimedSteps \cup InstallSteps

ModelInit ==
  /\ content \in {"absent", "intact", "damaged"}
  /\ marker = (content # "absent")
  /\ locked = FALSE
  /\ step = [p \in Process |-> "idle"]
  /\ call = [p \in Process |-> "load"]
  /\ installed = [p \in Process |-> FALSE]
  /\ staged = [p \in Process |-> "absent"]
  /\ use = [p \in Process |-> "none"]
  /\ abandoned = [p \in Process |-> FALSE]
  /\ transcriber = [p \in Process |-> "none"]
  /\ stream = [p \in Process |-> "none"]
  /\ closed = [p \in Process |-> FALSE]
  /\ lost = [p \in Process |-> {}]
-----------------------------------------------------------------------------
Goto(p, s) == step' = [step EXCEPT ![p] = s]
Moves(p, from, to) == step[p] = from /\ Goto(p, to)

Shared(p) == use[p] = "shared" \/ abandoned[p]

\* verifyManifestInstallation finds nothing wrong.
Valid == marker /\ content = "intact"

\* The files of the revision are mapped, or may still be.
Mapped(p) == transcriber[p] # "none" \/ abandoned[p]
-----------------------------------------------------------------------------
(* The setup service starts a call.  Calls of one process are serialized.  *)

StartCall(p, c) ==
  /\ step[p] = "idle" /\ ~closed[p]
  /\ call' = [call EXCEPT ![p] = c]
  /\ installed' = [installed EXCEPT ![p] = FALSE]
  /\ UNCHANGED <<disk, staged, use, abandoned, native, closed>>

LoadInstalledSpeechModel(p) ==
  /\ transcriber[p] = "none"
  /\ StartCall(p, "load")
  /\ Goto(p, "opening")

InstallAndEnable(p) ==
  /\ transcriber[p] = "none"
  /\ StartCall(p, "install")
  /\ Goto(p, "locking")

RepairAndEnable(p) ==
  /\ transcriber[p] # "unreleased"
  /\ StartCall(p, "repair")
  /\ Goto(p, IF transcriber[p] = "loaded" THEN "retiring" ELSE "locking")
-----------------------------------------------------------------------------
(* Transcriber.Close: the stream, the native model, then the use.          *)

\* Mutant of ModelClosed: the active stream is left to its recording.
ModelClosedUnderStream(p) ==
  /\ transcriber' = [transcriber EXCEPT ![p] = "none"]
  /\ use' = [use EXCEPT ![p] = "none"]
  /\ UNCHANGED <<stream, lost>>

ModelClosed(p) ==
  /\ transcriber' = [transcriber EXCEPT ![p] = "none"]
  /\ stream' = [stream EXCEPT ![p] = "none"]
  /\ use' = [use EXCEPT ![p] = "none"]
  /\ UNCHANGED lost

\* A cleanup that failed keeps the use, and the setup keeps the transcriber.
ModelNotClosed(p) ==
  /\ transcriber' = [transcriber EXCEPT ![p] = "unreleased"]
  /\ stream' = [stream EXCEPT ![p] = "none"]
  /\ lost' = [lost EXCEPT ![p] = @ \cup {"model"}]
  /\ UNCHANGED use

\* Close waits for a native call to return.
Retire(p) ==
  /\ stream[p] # "inferring"
  /\ \/ Moves(p, "retiring", "locking") /\ ModelClosed(p)
     \/ Moves(p, "retiring", "idle") /\ ModelNotClosed(p)
  /\ UNCHANGED <<disk, call, installed, staged, abandoned, closed>>
-----------------------------------------------------------------------------
(* The installer's mutation lock and the exclusive use of a repair.        *)

\* Mutant of Lock: MkdirAll accepts a lock directory that is already there.
LockAnyway(p) ==
  /\ locked' = TRUE
  /\ Moves(p, "locking", IF call[p] = "repair" THEN "claiming" ELSE "installing")
  /\ UNCHANGED <<content, marker, call, installed, staged, use, abandoned, native, closed>>

Lock(p) ==
  /\ ~locked /\ locked' = TRUE
  /\ Moves(p, "locking", IF call[p] = "repair" THEN "claiming" ELSE "installing")
  /\ UNCHANGED <<content, marker, call, installed, staged, use, abandoned, native, closed>>

\* Mutant of Unused: the lock is taken in the shared mode, which others hold too.
Claimable(p) == \A q \in Process : use[q] # "exclusive"

Unused(p) == \A q \in Process : use[q] # "exclusive" /\ ~Shared(q)

Claim(p) ==
  /\ Unused(p)
  /\ Moves(p, "claiming", "checking")
  /\ use' = [use EXCEPT ![p] = "exclusive"]
  /\ UNCHANGED <<disk, call, installed, staged, abandoned, native, closed>>

Release(p) ==
  /\ Moves(p, "releasing", "unlocking")
  /\ use' = [use EXCEPT ![p] = "none"]
  /\ UNCHANGED <<disk, call, installed, staged, abandoned, native, closed>>

\* A lock directory that cannot be removed stays, and the call fails.
Unlock(p) ==
  /\ \/ locked' = FALSE /\ Moves(p, "unlocking", IF installed[p] THEN "opening" ELSE "idle")
     \/ UNCHANGED locked /\ Moves(p, "unlocking", "idle")
  /\ UNCHANGED <<content, marker, call, installed, staged, use, abandoned, native, closed>>
-----------------------------------------------------------------------------
(* RepairWithProgress between the locks, and installManifestWithProgress.  *)

\* The deferred releases of the call, in their order.
Unwind(p) == Goto(p, IF call[p] = "repair" THEN "releasing" ELSE "unlocking")

\* The staging directory goes when installManifestWithProgress returns.
Succeeds(p) == Unwind(p) /\ installed' = [installed EXCEPT ![p] = TRUE]
                         /\ staged' = [staged EXCEPT ![p] = "absent"]

\* Mutant of FoundInvalid: a verification that was cancelled counts as a failed one.
FoundInvalidOrGaveUp == TRUE

FoundInvalid == ~Valid

Check(p) ==
  /\ step[p] = "checking"
  /\ \/ content = "absent" /\ Goto(p, "installing") /\ UNCHANGED <<installed, staged>>
     \/ content # "absent" /\ FoundInvalid /\ Goto(p, "revoking")
          /\ UNCHANGED <<installed, staged>>
     \/ Valid /\ Succeeds(p)
  /\ UNCHANGED <<disk, call, use, abandoned, native, closed>>

\* Mutant of Revoke: the marker goes with the rest of the directory.
RevokeLater(p) ==
  /\ Moves(p, "revoking", "removing")
  /\ UNCHANGED <<disk, call, installed, staged, use, abandoned, native, closed>>

Revoke(p) ==
  /\ Moves(p, "revoking", "removing")
  /\ marker' = FALSE
  /\ UNCHANGED <<content, locked, call, installed, staged, use, abandoned, native, closed>>

\* RemoveAll takes one file after the other.
Remove(p) ==
  /\ step[p] = "removing"
  /\ \/ content # "broken" /\ content' = "broken" /\ UNCHANGED <<step, marker>>
     \/ content' = "absent" /\ marker' = FALSE /\ Goto(p, "installing")
  /\ UNCHANGED <<locked, call, installed, staged, use, abandoned, native, closed>>

\* A directory that exists is verified and reused, never overwritten.
Install(p) ==
  /\ step[p] = "installing"
  /\ \/ content = "absent" /\ Goto(p, "downloading") /\ UNCHANGED <<installed, staged>>
     \/ Valid /\ Succeeds(p)
     \/ content # "absent" /\ ~Valid /\ Unwind(p) /\ UNCHANGED <<installed, staged>>
  /\ UNCHANGED <<disk, call, use, abandoned, native, closed>>

\* Only files whose size and digest are those of the manifest are kept.
Download(p) ==
  /\ Moves(p, "downloading", "publishing")
  /\ staged' = [staged EXCEPT ![p] = "intact"]
  /\ UNCHANGED <<disk, call, installed, use, abandoned, native, closed>>

PublishFiles(p) ==
  /\ content = "absent"
  /\ content' = staged[p]
  /\ Moves(p, "publishing", "marking")
  /\ staged' = [staged EXCEPT ![p] = "absent"]
  /\ UNCHANGED <<marker, locked, call, installed, use, abandoned, native, closed>>

Mark(p) ==
  /\ step[p] = "marking"
  /\ content # "absent" /\ marker' = TRUE
  /\ Succeeds(p)
  /\ UNCHANGED <<content, locked, call, use, abandoned, native, closed>>

\* The lock or the use is busy, a file operation or the download fails, or the
\* context has ended.
GiveUp(p) ==
  /\ \/ Moves(p, "locking", "idle")
     \/ Moves(p, "claiming", "unlocking")
     \/ step[p] \in (ClaimedSteps \cup InstallSteps) \ {"releasing"} /\ Unwind(p)
  /\ staged' = [staged EXCEPT ![p] = "absent"]
  /\ UNCHANGED <<disk, call, installed, use, abandoned, native, closed>>
-----------------------------------------------------------------------------
(* moonshine.Open and loadInstalledTranscriber.                            *)

Open(p) ==
  /\ \A q \in Process : use[q] # "exclusive"
  /\ Moves(p, "opening", "verifying")
  /\ use' = [use EXCEPT ![p] = "shared"]
  /\ UNCHANGED <<disk, call, installed, staged, abandoned, native, closed>>

Verify(p) ==
  /\ Valid
  /\ Moves(p, "verifying", "loading")
  /\ UNCHANGED <<disk, call, installed, staged, use, abandoned, native, closed>>

Load(p) ==
  /\ Moves(p, "loading", "idle")
  /\ transcriber' = [transcriber EXCEPT ![p] = "loaded"]
  /\ UNCHANGED <<disk, call, installed, staged, use, abandoned, stream, lost, closed>>

\* Everything the load acquired is released again.
LoadFails(p) ==
  /\ \E s \in LoadSteps : Moves(p, s, "idle")
  /\ use' = [use EXCEPT ![p] = "none"]
  /\ UNCHANGED <<disk, call, installed, staged, abandoned, native, closed>>

\* Mutant of LoadCleanupFails: a failed load always closes its use.
LoadCleanupForgotten(p) ==
  /\ Moves(p, "loading", "idle")
  /\ use' = [use EXCEPT ![p] = "none"]
  /\ lost' = [lost EXCEPT ![p] = @ \cup {"model"}]
  /\ UNCHANGED <<disk, call, installed, staged, abandoned, transcriber, stream, closed>>

\* Open cannot release what it mapped: it returns without closing its use.
LoadCleanupFails(p) ==
  /\ Moves(p, "loading", "idle")
  /\ use' = [use EXCEPT ![p] = "none"]
  /\ abandoned' = [abandoned EXCEPT ![p] = TRUE]
  /\ lost' = [lost EXCEPT ![p] = @ \cup {"model"}]
  /\ UNCHANGED <<disk, call, installed, staged, transcriber, stream, closed>>

\* The context ended after the load, and the new transcriber does not close.
LoadedTooLate(p) ==
  /\ Moves(p, "loading", "idle")
  /\ ModelNotClosed(p)
  /\ UNCHANGED <<disk, call, installed, staged, abandoned, closed>>
-----------------------------------------------------------------------------
(* The stream of a recording.  Native calls share the runtime gate.        *)

OnlyNative(p) == UNCHANGED <<disk, setup, use, abandoned, transcriber, closed>>

\* RecordingConsumerFactory and Transcriber.StartStream.
StartStream(p) ==
  /\ ~closed[p] /\ transcriber[p] = "loaded" /\ stream[p] = "none"
  /\ stream' = [stream EXCEPT ![p] = "open"]
  /\ UNCHANGED lost
  /\ OnlyNative(p)

\* The context ended meanwhile, and the new stream does not close.
StreamTooLate(p) ==
  /\ ~closed[p] /\ transcriber[p] = "loaded" /\ stream[p] = "none"
  /\ lost' = [lost EXCEPT ![p] = @ \cup {"stream"}]
  /\ UNCHANGED stream
  /\ OnlyNative(p)

AddAudio(p) ==
  /\ stream[p] = "open"
  /\ stream' = [stream EXCEPT ![p] = "inferring"]
  /\ UNCHANGED lost
  /\ OnlyNative(p)

\* Mutant of AudioAdded: a native error returns without releasing the runtime gate.
KeepsGate(p) == stream[p] = "inferring" /\ UNCHANGED modelVars

AudioAdded(p) ==
  /\ stream[p] = "inferring"
  /\ stream' = [stream EXCEPT ![p] = "open"]
  /\ UNCHANGED lost
  /\ OnlyNative(p)

CloseStream(p) ==
  /\ stream[p] = "open"
  /\ stream' = [stream EXCEPT ![p] = "none"]
  /\ lost' \in {lost, [lost EXCEPT ![p] = @ \cup {"stream"}]}
  /\ OnlyNative(p)
-----------------------------------------------------------------------------
(* The end of a process, and what others do to the model directory.        *)

\* browserSpeechSetup.Close, once Serve has joined commands and recordings.
Close(p) ==
  /\ ~closed[p] /\ step[p] = "idle" /\ stream[p] = "none"
  /\ closed' = [closed EXCEPT ![p] = TRUE]
  /\ IF transcriber[p] = "loaded" THEN ModelClosed(p) \/ ModelNotClosed(p)
                                  ELSE UNCHANGED <<use, native>>
  /\ UNCHANGED <<disk, setup, abandoned>>

\* At any moment; the next process starts anew.  The system closes its files.
Exit(p) ==
  /\ Goto(p, "idle")
  /\ call' = [call EXCEPT ![p] = "load"]
  /\ installed' = [installed EXCEPT ![p] = FALSE]
  /\ staged' = [staged EXCEPT ![p] = "absent"]
  /\ use' = [use EXCEPT ![p] = "none"]
  /\ abandoned' = [abandoned EXCEPT ![p] = FALSE]
  /\ transcriber' = [transcriber EXCEPT ![p] = "none"]
  /\ stream' = [stream EXCEPT ![p] = "none"]
  /\ closed' = [closed EXCEPT ![p] = FALSE]
  /\ lost' = [lost EXCEPT ![p] = {}]
  /\ UNCHANGED disk

\* By hand, and only while no installer is running.
RemoveStaleLock ==
  /\ locked /\ \A p \in Process : step[p] \notin LockedSteps
  /\ locked' = FALSE
  /\ UNCHANGED <<content, marker, setup, use, abandoned, native, closed>>

\* Saved files fail or are changed by others, loaded or not.
Damage ==
  /\ content = "intact" /\ content' = "damaged"
  /\ UNCHANGED <<marker, locked, setup, use, abandoned, native, closed>>
-----------------------------------------------------------------------------
SetupStep(p) ==
  \/ Lock(p) \/ Claim(p) \/ Release(p) \/ Unlock(p) \/ GiveUp(p)
  \/ Check(p) \/ Revoke(p) \/ Remove(p)
  \/ Install(p) \/ Download(p) \/ PublishFiles(p) \/ Mark(p)
  \/ Open(p) \/ Verify(p) \/ Load(p)
  \/ LoadFails(p) \/ LoadCleanupFails(p) \/ LoadedTooLate(p)

Calls(p) == LoadInstalledSpeechModel(p) \/ InstallAndEnable(p) \/ RepairAndEnable(p)

StreamStep(p) ==
  \/ StartStream(p) \/ StreamTooLate(p) \/ AddAudio(p) \/ AudioAdded(p) \/ CloseStream(p)

ModelNext ==
  \/ \E p \in Process : \/ Calls(p) \/ Retire(p) \/ SetupStep(p) \/ StreamStep(p)
                        \/ Close(p) \/ Exit(p)
  \/ RemoveStaleLock
  \/ Damage

ModelSpec == ModelInit /\ [][ModelNext]_modelVars

\* A call goes on, a native call returns, and the gate is a channel whose waiting
\* senders are served in turn.
ModelFairness == \A p \in Process :
  WF_modelVars(SetupStep(p)) /\ WF_modelVars(AudioAdded(p)) /\ SF_modelVars(Retire(p))

ModelFairSpec == ModelSpec /\ ModelFairness
-----------------------------------------------------------------------------
(* Properties                                                              *)

\* At most one process is between taking and releasing the mutation lock, and
\* the lock directory exists meanwhile, whatever crashed before
\* (Installer.acquireMutationLock and its manual recovery).
OneMutator == \A p \in Process : step[p] \in LockedSteps =>
  locked /\ \A q \in Process \ {p} : step[q] \notin LockedSteps

\* Whenever a process dies or fails, a revision with a completion marker has all
\* of its verified files, unless somebody else damaged them (publication in
\* installManifestWithProgress, removal in RepairWithProgress).
MarkedIsComplete == marker => content \in {"intact", "damaged"}

\* A stream exists only on a loaded model (RecordingConsumerFactory against
\* repair, Transcriber.Close).
StreamHasModel == \A p \in Process : stream[p] # "none" => transcriber[p] = "loaded"

\* Once the cleanup of a model has failed, no process repairs the files until that
\* process has ended ("Retain ownership", Transcriber.Close and Open).
LostModelStopsRepair == \A p, q \in Process : "model" \in lost[p] => use[q] # "exclusive"

\* A complete valid revision is never removed or invalidated by Thoughts
\* ("Valid revisions are reused", RepairWithProgress).
ValidModelSurvives == [][Valid => content' # "absent" /\ content' # "broken" /\ marker']_modelVars

\* While a transcriber maps the files, or may still map them, no process removes or
\* replaces them, even when they are damaged (InstallationUse, Transcriber.Close).
UsedModelStays == [][(\E p \in Process : Mapped(p)) =>
  marker' = marker /\ content' \in {content, "damaged"}]_modelVars

\* Every setup call returns, also when it has to wait for a native call.
CallsReturn == \A p \in Process : step[p] # "idle" ~> step[p] = "idle"

\* docs/moonshine.md: "If native resource cleanup fails, repair stops; restart
\* Thoughts before retrying."  Streams are native resources too.
LostResourceStopsRepair == \A p, q \in Process : lost[p] # {} => use[q] # "exclusive"
=============================================================================
