------------------------------- MODULE Frames -------------------------------
(***************************************************************************)
(* A journal segment as a sequence of frames, each of them whole or torn,  *)
(* and what read_segment finds in it.  PersistentClob is written with      *)
(* frames; JournalFile shows that the bytes of the file read like this.    *)
(***************************************************************************)
EXTENDS SequencesExt

WholeFrame(commands) == [commands |-> commands, whole |-> TRUE]
TornFrame(commands) == [commands |-> commands, whole |-> FALSE]

\* read_segment stops at the first frame that is not whole.
IntactFrames(frames) ==
    LET torn == {i \in DOMAIN frames : ~frames[i].whole}
    IN  IF torn = {} THEN frames ELSE SubSeq(frames, 1, Min(torn) - 1)

CommandsIn(frames) ==
    LET intact == IntactFrames(frames)
    IN  FlattenSeq([i \in DOMAIN intact |-> intact[i].commands])
==============================================================================
