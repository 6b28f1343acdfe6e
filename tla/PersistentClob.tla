--------------------------- MODULE PersistentClob ---------------------------
(***************************************************************************)
(* PersistentClob: the journal, the snapshot file and the crashes between  *)
(* the steps of submit, checkpoint and open (persist.rs, wal.rs, the files *)
(* of snapshot.rs).                                                        *)
(*                                                                         *)
(* The engine is deterministic, so a Clob is the sequence of the commands  *)
(* it has executed, its length the current_seq; module Snapshot shows that *)
(* a snapshot reproduces it.  A command is a number, its place in the      *)
(* order of submission.  A frame is written, then synced; a crash between  *)
(* the two leaves it whole, or in part, or not at all.  The .tmp files are *)
(* truncated before every use and never read, and are left out.            *)
(***************************************************************************)
EXTENDS Integers, Frames

CONSTANTS
    MaxCommands,    \* bound: commands in a behaviour
    MaxBatch,       \* bound: commands in one submit_batch
    MaxFrames,      \* bound: frames in the journal
    Faults          \* what else may go wrong: see FaultAssumption

\* "torn": a crash may leave a part of what was being appended.
\* "reopen": the new segment may fail to open once it is renamed into place.
\* "retry": a write or sync may fail and the process goes on all the same.
ASSUME FaultAssumption ==
    /\ Faults \subseteq {"torn", "reopen", "retry"}
    /\ {MaxCommands, MaxBatch, MaxFrames} \subseteq Nat

VARIABLES
    journal,    \* the journal file
    cached,     \* the last write to the journal is not synced
    block,      \* Journal.block: the commands appended and not committed
    snap,       \* the snapshot file
    attached,   \* the file last written to is the one at Journal.path
    pc,         \* where the process is
    clob,       \* the engine: the commands it has executed
    batch,      \* the commands of the call under way
    misplaced,  \* since the last snapshot or restart, a frame went where no
                \* restart will read it
    submitted,  \* how many commands there have been
    promised    \* the state clients have been shown last

vars == <<journal, cached, block, snap, attached, misplaced, pc, clob, batch,
          submitted, promised>>

NoFile == [header |-> "none", base |-> 0, frames |-> <<>>]
Segment(base) == [header |-> "whole", base |-> base, frames |-> <<>>]
NoSnapshot == [found |-> FALSE, commands |-> <<>>]

Init ==
    /\ journal = NoFile
    /\ cached = FALSE
    /\ block = <<>>
    /\ snap = NoSnapshot
    /\ attached = TRUE
    /\ misplaced = FALSE
    /\ pc = "down"
    /\ clob = <<>>
    /\ batch = <<>>
    /\ submitted = 0
    /\ promised = <<>>

----------------------------------------------------------------------------
(* Recovery *)

SegmentCommands == CommandsIn(journal.frames)

\* Mutant of Covered: the whole segment is replayed onto the snapshot.
Covered_None(base, applied) == 0

\* How many commands of the segment the snapshot covers.
Covered(base, applied) == Max({0, applied - base})

\* The state open would build from the two files.
Recovered ==
    snap.commands \o
        SubSeq(SegmentCommands,
               Covered(journal.base, Len(snap.commands)) + 1,
               Len(SegmentCommands))

\* A missing or empty journal gets a header; a file with a header is
\* appended to as it is.
Open ==
    /\ pc = "down"
    /\ journal.header # "torn"
    /\ clob' = Recovered
    /\ promised' = Recovered
    /\ block' = <<>>
    /\ attached' = TRUE
    /\ misplaced' = FALSE
    /\ IF journal.header = "none"
       THEN /\ journal' = Segment(Len(snap.commands))
            /\ cached' = TRUE
            /\ pc' = "header"
       ELSE /\ pc' = "idle"
            /\ UNCHANGED <<journal, cached>>
    /\ UNCHANGED <<snap, batch, submitted>>

SyncHeader ==
    /\ pc = "header"
    /\ cached' = FALSE
    /\ pc' = "idle"
    /\ UNCHANGED <<journal, block, snap, attached, misplaced, clob, batch,
                   submitted, promised>>

----------------------------------------------------------------------------
(* submit and submit_batch: append, write, sync, and only then execute *)

Batches == {[i \in 1..k |-> submitted + i] : k \in 1..MaxBatch}

\* A frame that is written now will be replayed as what it is: it goes to
\* the journal, no torn frame is before it, it holds no commands of an
\* earlier call, and its commands get the numbers they are executed under.
WillBeRead ==
    /\ attached
    /\ \A i \in DOMAIN journal.frames : journal.frames[i].whole
    /\ block = <<>>
    /\ journal.base + Len(SegmentCommands) = Len(clob)

\* Mutant of FramesOf: every command has a frame of its own.
FramesOf_Each(commands) ==
    [i \in DOMAIN commands |-> WholeFrame(<<commands[i]>>)]

\* What commit writes: a block is one frame.
FramesOf(commands) == <<WholeFrame(commands)>>

\* The frame holds the whole block: these commands, and before them those of
\* a commit that failed.
WriteFrame(commands) ==
    /\ pc = "idle"
    /\ Len(journal.frames) < MaxFrames
    /\ block' = block \o commands
    /\ batch' = commands
    /\ journal' = IF attached
                  THEN [journal EXCEPT !.frames = @ \o FramesOf(block')]
                  ELSE journal
    /\ cached' = attached
    /\ misplaced' = (misplaced \/ ~WillBeRead)
    /\ pc' = "written"
    /\ UNCHANGED <<snap, attached, clob, promised>>

SubmitBatch(commands) ==
    /\ submitted + Len(commands) <= MaxCommands
    /\ submitted' = submitted + Len(commands)
    /\ WriteFrame(commands)

\* flush, and the commit a checkpoint begins with: without a block there is
\* nothing to write.
Flush ==
    /\ block # <<>>
    /\ WriteFrame(<<>>)
    /\ UNCHANGED submitted

SyncFrame ==
    /\ pc = "written"
    /\ cached' = FALSE
    /\ block' = <<>>
    /\ pc' = "synced"
    /\ UNCHANGED <<journal, snap, attached, misplaced, clob, batch, submitted,
                   promised>>

\* Mutant of Durable: the call does not wait for the disk.
Durable_NotAwaited == pc \in {"written", "synced"}

Durable == pc = "synced"

Execute ==
    /\ Durable
    /\ clob' = clob \o batch
    /\ promised' = clob'
    /\ batch' = <<>>
    /\ pc' = "idle"
    /\ UNCHANGED <<journal, cached, block, snap, attached, misplaced, submitted>>

----------------------------------------------------------------------------
(* checkpoint: the snapshot is renamed into place, then a fresh segment *)

\* The segment numbers commands past the last one executed.
SegmentPastClob == journal.base + Len(SegmentCommands) > Len(clob)

SaveSnapshot ==
    /\ pc = "idle"
    /\ block = <<>>
    /\ snap' = [found |-> TRUE, commands |-> clob]
    /\ misplaced' = SegmentPastClob
    /\ pc' = "rotate"
    /\ UNCHANGED <<journal, cached, block, attached, clob, batch, submitted,
                   promised>>

\* Mutant of BaseSeq: the fresh segment forgets how far the clob is.
BaseSeq_Zero == 0

BaseSeq == Len(clob)

\* Mutant of ReplaceSegment: the header is written in place, not renamed in.
ReplaceSegment_InPlace ==
    /\ pc = "rotate"
    /\ journal' = Segment(BaseSeq)
    /\ cached' = TRUE
    /\ misplaced' = FALSE
    /\ pc' = "idle"
    /\ UNCHANGED <<block, snap, clob, batch, submitted, promised>>

ReplaceSegment ==
    /\ pc = "rotate"
    /\ journal' = Segment(BaseSeq)
    /\ cached' = FALSE
    /\ misplaced' = FALSE
    /\ pc' = "idle"
    /\ UNCHANGED <<block, snap, clob, batch, submitted, promised>>

Rotate == ReplaceSegment /\ attached' = TRUE

\* rotate fails before its rename: checkpoint returns the error.
RotateFails ==
    /\ pc = "rotate"
    /\ pc' = "idle"
    /\ UNCHANGED <<journal, cached, block, snap, attached, misplaced, clob,
                   batch, submitted, promised>>

\* rotate fails after its rename: file stays the old segment, which has no
\* name any more.
ReopenFails ==
    /\ "reopen" \in Faults
    /\ ReplaceSegment
    /\ attached' = FALSE

----------------------------------------------------------------------------
(* A crash: memory is gone, and of an append that was not synced the file   *)
(* has everything, nothing or a part.  An error of write or sync leaves the *)
(* same files; the documents ask for a restart then, the code does not.     *)

Outcomes == {"whole", "lost"} \cup (Faults \cap {"torn"})

After(outcome) ==
    LET n == Len(journal.frames)
    IN  CASE outcome = "whole" -> journal
          [] outcome = "lost" ->
                IF n = 0 THEN NoFile
                ELSE [journal EXCEPT !.frames = SubSeq(@, 1, n - 1)]
          [] outcome = "torn" ->
                IF n = 0 THEN [NoFile EXCEPT !.header = "torn"]
                ELSE [journal EXCEPT !.frames[n].whole = FALSE]

Crash ==
    /\ pc # "down"
    /\ IF cached THEN \E outcome \in Outcomes : journal' = After(outcome)
       ELSE UNCHANGED journal
    /\ cached' = FALSE
    /\ pc' = "down"
    /\ block' = <<>>
    /\ clob' = <<>>
    /\ batch' = <<>>
    /\ UNCHANGED <<snap, attached, misplaced, submitted, promised>>

\* commit returns the error before it clears the block, submit before it
\* executes anything.
CommitFails ==
    /\ "retry" \in Faults
    /\ pc = "written"
    /\ IF cached THEN \E outcome \in Outcomes : journal' = After(outcome)
       ELSE UNCHANGED journal
    /\ cached' = FALSE
    /\ batch' = <<>>
    /\ pc' = "idle"
    /\ UNCHANGED <<block, snap, attached, misplaced, clob, submitted, promised>>

----------------------------------------------------------------------------
Next ==
    \/ Open
    \/ SyncHeader
    \/ \E commands \in Batches : SubmitBatch(commands)
    \/ Flush
    \/ SyncFrame
    \/ Execute
    \/ SaveSnapshot
    \/ Rotate
    \/ RotateFails
    \/ ReopenFails
    \/ Crash
    \/ CommitFails

Spec == Init /\ [][Next]_vars

----------------------------------------------------------------------------
\* A restart between calls, or in the middle of a checkpoint, rebuilds the
\* running state exactly: no command is executed twice, skipped or moved,
\* whichever of the two files is ahead.
RestartIsExact == pc \in {"idle", "rotate"} => Recovered = clob

\* What a client has been shown survives a crash at any step.
AckedSurvives == IsPrefix(promised, Recovered)

\* Whatever crashes and faults there are, an acknowledged command is lost
\* only if a frame was written behind a torn one, to a file that is not the
\* journal any more, with commands of a call that had failed, or under
\* numbers that commands of such a call or the snapshot have taken.
LostOnlyIfMisplaced == ~misplaced => AckedSurvives

\* A restart finds the running state and, behind it, at most the commands of
\* one call: all of those submit_batch was given or none, be the call under
\* way or refused because its commit failed.
CallsAreWhole ==
    ~misplaced /\ pc # "down" =>
        Recovered \in {clob, clob \o block, clob \o batch}

\* Once its snapshot is in place, a checkpoint has made the running state
\* durable, whatever became of the segment before: torn frames with others
\* behind them, an unnamed file, one that fell behind the snapshot.  Only a
\* segment with the commands of failed calls spoils it, when they take it
\* past the running state: until the rotation a restart would execute them.
CheckpointHeals == pc = "rotate" /\ ~SegmentPastClob => Recovered = clob

\* A journal that open refuses for its header never held a command, nor is
\* there a snapshot beside it.
TornHeaderHoldsNothing ==
    journal.header = "torn" => promised = <<>> /\ ~snap.found

\* With no other fault than crashes the two files are a durable log.
Log == INSTANCE DurableLog WITH log <- Recovered
ImplementsDurableLog == Log!Spec
==============================================================================
