--------------------------- MODULE RadarRecording ---------------------------
(***************************************************************************)
(* From a sample of the game to a line of a recording.  Three threads meet: *)
(*   - the data thread of main.cpp samples (esp::updateEntities), and in    *)
(*     its own rhythm publishes the newest snapshot to SnapshotRecorder;    *)
(*   - the main thread switches the recorder on and off (sync);             *)
(*   - the recorder's writer appends to the file (writeLoop).               *)
(* A snapshot is its sequence number.  All frames have one size, and sizes  *)
(* are counted in frames.  The two throttles of the data thread, capture    *)
(* (lastRadarSnapshotRefresh) and publication (nextRadarTime), are kept as  *)
(* the time since the first and the time until the second, in ticks.        *)
(* Another consumer of snapshots, the local overlay, keeps sampling on.     *)
(***************************************************************************)
EXTENDS Integers, Sequences

CONSTANTS
    Interval,       \* radar interval, in ticks
    MaxStep,        \* longest duration, in ticks, of a wait or of a sample
    MaxSequence,    \* bound of the model: snapshots taken
    MaxStarts,      \* bound of the model: recordings
    MaximumFrames   \* the size limit of a file

ASSUME RecordingAssumption ==
    /\ {Interval, MaxStep} \subseteq Nat \ {0}
    /\ {MaxSequence, MaxStarts, MaximumFrames} \subseteq Nat

VARIABLES
    \* the data thread
    dpc,        \* "sample", or "publish" with the sample complete
    snapshot,   \* sequence of gameSnapshot, that is snapshotSequence
    readFailures,   \* consecutiveReadFailures
    age,        \* since the last capture; Interval stands for "long ago or never"
    due,        \* until nextRadarTime
    inactive,   \* stateClearedWhileInactive
    config,     \* its copy of config.radarRecordingEnabled
    \* SnapshotRecorder
    enabled,    \* config.radarRecordingEnabled
    starts,
    spc,        \* where the main thread is in sync()
    recorderRunning, stopping,  \* running_ and stopping_
    recording,  \* status_.recording
    written,    \* status_.framesWritten, and bytesWritten in frames
    replaced,   \* status_.replacedFrames
    pending,    \* <<>> or the one pending frame
    wpc,        \* the writer
    hand,       \* <<>> or the frame the writer took
    file,       \* the frames of the newest recording
    accepted    \* history: frames publish() has accepted for it

sampler == <<dpc, snapshot, readFailures, age, due, inactive, config>>
owner == <<enabled, starts, spc>>
status == <<recorderRunning, stopping, recording, written, replaced>>
writer == <<wpc, hand, file>>
recordingVars == <<sampler, owner, status, pending, writer, accepted>>

Frame == 0..MaxSequence
MaybeFrame == {<<>>} \cup {<<f>> : f \in Frame}

RecordingTypeOK ==
    /\ dpc \in {"sample", "publish"} /\ snapshot \in Frame /\ readFailures \in 0..2
    /\ age \in 0..Interval /\ due \in 0..Interval
    /\ inactive \in BOOLEAN /\ config \in BOOLEAN
    /\ enabled \in BOOLEAN /\ starts \in 0..MaxStarts /\ spc \in {"idle", "join", "reset"}
    /\ recorderRunning \in BOOLEAN /\ stopping \in BOOLEAN /\ recording \in BOOLEAN
    /\ written \in Nat /\ replaced \in Nat /\ accepted \in Nat
    /\ pending \in MaybeFrame /\ hand \in MaybeFrame
    /\ wpc \in {"none", "open", "wait", "held", "count", "ended"}
    /\ file \in Seq(Frame)

RecordingInit ==
    /\ dpc = "sample" /\ snapshot = 0 /\ readFailures = 0 /\ age = Interval /\ due = 0
    /\ inactive = FALSE /\ config = FALSE
    /\ enabled = FALSE /\ starts = 0 /\ spc = "idle"
    /\ recorderRunning = FALSE /\ stopping = FALSE /\ recording = FALSE
    /\ written = 0 /\ replaced = 0 /\ pending = <<>>
    /\ wpc = "none" /\ hand = <<>> /\ file = <<>> /\ accepted = 0
-----------------------------------------------------------------------------
(* The data thread.                                                         *)

Smaller(a, b) == IF a < b THEN a ELSE b

SequenceAfterClear == snapshot + 1

(* esp::clearRuntimeState publishes a snapshot that says "not connected".   *)
Clear ==
    /\ snapshot' = SequenceAfterClear
    /\ readFailures' = 0 /\ age' = Interval

KeepsState_OnceMore == readFailures <= 2
KeepsState == readFailures < 2

(* A read failed; the third failure in a row clears the state.              *)
SampleFails(wait, duration) ==
    /\ IF KeepsState
       THEN /\ readFailures' = readFailures + 1
            /\ age' = Smaller(age + wait + duration, Interval)
            /\ UNCHANGED snapshot
       ELSE Clear

(* The sample succeeds; a snapshot is captured when Interval has passed     *)
(* since the last capture, as seen at the start of the sample.              *)
SampleSucceeds(wait, duration) ==
    /\ readFailures' = 0
    /\ IF age + wait >= Interval
       THEN snapshot' = snapshot + 1 /\ age' = Smaller(duration, Interval)
       ELSE age' = Smaller(age + wait + duration, Interval) /\ UNCHANGED snapshot

(* One round of the loop: the configuration is read, then, after a wait,    *)
(* esp::updateEntities runs; the time is read again at its end.             *)
SampleRound ==
    /\ dpc = "sample" /\ snapshot < MaxSequence
    /\ config' = enabled /\ inactive' = FALSE
    /\ \E wait, duration \in 0..MaxStep :
        /\ SampleFails(wait, duration) \/ SampleSucceeds(wait, duration)
        /\ due' = IF due > wait + duration THEN due - wait - duration ELSE 0
        /\ dpc' = IF due' = 0 THEN "publish" ELSE "sample"
    /\ UNCHANGED <<owner, status, pending, writer, accepted>>

(* The game is in the background and nothing is shared: state is cleared.   *)
Unfocused ==
    /\ dpc = "sample" /\ ~inactive /\ snapshot < MaxSequence
    /\ Clear /\ due' = 0 /\ inactive' = TRUE /\ config' = enabled
    /\ UNCHANGED <<dpc, owner, status, pending, writer, accepted>>

(* SnapshotRecorder::publish of the newest snapshot, new or not; due again  *)
(* one interval later.                                                      *)
PublishNewest ==
    /\ dpc = "publish"
    /\ dpc' = "sample" /\ due' = Interval
    /\ IF config /\ recorderRunning /\ ~stopping
       THEN /\ pending' = <<snapshot>>
            /\ replaced' = replaced + Len(pending)
            /\ accepted' = accepted + 1
       ELSE UNCHANGED <<pending, replaced, accepted>>
    /\ UNCHANGED <<snapshot, readFailures, age, inactive, config, owner, recorderRunning, stopping,
                   recording, written, writer>>
-----------------------------------------------------------------------------
(* The main thread.                                                         *)

Toggle ==
    /\ spc = "idle" /\ (enabled \/ starts < MaxStarts)
    /\ enabled' = ~enabled
    /\ UNCHANGED <<sampler, starts, spc, status, pending, writer, accepted>>

(* start(); a directory that cannot be made leaves the recorder off.        *)
Start ==
    /\ spc = "idle" /\ enabled /\ ~recorderRunning /\ starts < MaxStarts
    /\ starts' = starts + 1
    /\ recorderRunning' = TRUE /\ stopping' = FALSE /\ recording' = TRUE
    /\ written' = 0 /\ replaced' = 0
    /\ wpc' = "open" /\ file' = <<>> /\ accepted' = 0
    /\ UNCHANGED <<sampler, enabled, spc, pending, hand>>

StopBegin ==
    /\ spc = "idle" /\ ~enabled /\ recorderRunning
    /\ stopping' = TRUE /\ spc' = "join"
    /\ UNCHANGED <<sampler, enabled, starts, recorderRunning, recording, written, replaced,
                   pending, writer, accepted>>

Join ==
    /\ spc = "join" /\ wpc = "ended"
    /\ wpc' = "none" /\ spc' = "reset"
    /\ UNCHANGED <<sampler, enabled, starts, status, pending, hand, file, accepted>>

StopEnd ==
    /\ spc = "reset"
    /\ recorderRunning' = FALSE /\ stopping' = FALSE /\ recording' = FALSE /\ pending' = <<>>
    /\ spc' = "idle"
    /\ UNCHANGED <<sampler, enabled, starts, written, replaced, writer, accepted>>
-----------------------------------------------------------------------------
(* The writer.                                                              *)

(* The file could not be opened, or a write failed.                         *)
Fail_StillRecording == UNCHANGED recording /\ stopping' = TRUE /\ pending' = <<>>
Fail == recording' = FALSE /\ stopping' = TRUE /\ pending' = <<>>

Open ==
    /\ wpc = "open"
    /\ wpc' = "wait"
    /\ UNCHANGED <<sampler, owner, status, pending, hand, file, accepted>>

OpenFails ==
    /\ wpc = "open"
    /\ Fail
    /\ wpc' = "ended"
    /\ UNCHANGED <<sampler, owner, recorderRunning, written, replaced, hand, file, accepted>>

Leaves_AtOnce == stopping
Leaves == stopping /\ pending = <<>>

Wakes_OnFrameOnly == pending # <<>>
Wakes == stopping \/ pending # <<>>

Wait ==
    /\ wpc = "wait" /\ Wakes
    /\ IF Leaves
       THEN wpc' = "ended" /\ UNCHANGED <<pending, hand>>
       ELSE wpc' = "held" /\ hand' = pending /\ pending' = <<>>
    /\ UNCHANGED <<sampler, owner, status, file, accepted>>

Fits == written + 1 <= MaximumFrames

LimitReached ==
    /\ wpc = "held" /\ ~Fits
    /\ Fail
    /\ hand' = <<>> /\ wpc' = "ended"
    /\ UNCHANGED <<sampler, owner, recorderRunning, written, replaced, file, accepted>>

Write ==
    /\ wpc = "held" /\ Fits
    /\ file' = Append(file, hand[1])
    /\ wpc' = "count"
    /\ UNCHANGED <<sampler, owner, status, pending, hand, accepted>>

WriteFails ==
    /\ wpc = "held" /\ Fits
    /\ Fail
    /\ hand' = <<>> /\ wpc' = "ended"
    /\ UNCHANGED <<sampler, owner, recorderRunning, written, replaced, file, accepted>>

Count ==
    /\ wpc = "count"
    /\ written' = written + 1
    /\ hand' = <<>> /\ wpc' = "wait"
    /\ UNCHANGED <<sampler, owner, recorderRunning, stopping, recording, replaced, pending,
                   file, accepted>>
-----------------------------------------------------------------------------
DataThread == SampleRound \/ Unfocused \/ PublishNewest

MainThread == Toggle \/ Start \/ StopBegin \/ Join \/ StopEnd

Writer == Open \/ OpenFails \/ Wait \/ LimitReached \/ Write \/ WriteFails \/ Count

RecordingNext == DataThread \/ MainThread \/ Writer

RecordingSpec == RecordingInit /\ [][RecordingNext]_recordingVars
-----------------------------------------------------------------------------
(* The file never exceeds its limit, and the status counts what is in it.   *)
SizeLimited ==
    /\ Len(file) <= MaximumFrames
    /\ wpc = "wait" => written = Len(file)

(* Unless the recording fails, each accepted frame is written, replaced by  *)
(* a newer one before it was, or on its way; a stop writes the last of them.*)
NothingSkipped ==
    recording =>
        /\ accepted = Len(file) + replaced + Len(pending)
                      + (IF wpc = "held" THEN 1 ELSE 0)
        /\ wpc \in {"ended", "none"} => pending = <<>>

(* A file never goes back to an older snapshot; it may hold one twice.       *)
RecordedInOrder ==
    \A i \in 1..Len(file) - 1 : file[i] <= file[i + 1]

(* What the page asks of a recording it loads (web-radar/src/lib/replay.ts): *)
(* the sequence numbers strictly increase.  The program does not keep it:    *)
(* after a failed sample the same snapshot is due, and recorded, once more.  *)
RecordedStrictly ==
    \A i \in 1..Len(file) - 1 : file[i] < file[i + 1]

(* The file of a recording holds what its status says, never going back.    *)
FileAccounted == SizeLimited /\ NothingSkipped /\ RecordedInOrder

(* A recorder whose writer has failed does not claim to record.             *)
StatusIsTrue ==
    recording => recorderRunning /\ (wpc = "ended" => stopping /\ spc # "idle")

(* What the recorder tells of itself is so: its state, its counts, its file.*)
RecorderIsHonest == RecordingTypeOK /\ FileAccounted /\ StatusIsTrue

(* Switching the recorder off ends: no sync() waits for ever for the writer.*)
StopEnds == []<>(spc = "idle")
=============================================================================
