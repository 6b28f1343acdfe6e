-------------------------- MODULE PersistentProofs --------------------------
(***************************************************************************)
(* What a crash leaves of the journal and the snapshot, and what a restart *)
(* makes of it: for every number and size of batches and frames, and for   *)
(* every set of faults unless a theorem says otherwise.                    *)
(***************************************************************************)
EXTENDS PersistentClob, Sums, SequenceTheorems

----------------------------------------------------------------------------
(* What FlattenSeq computes *)

\* g joins the first i sequences, for every i.
IsFlattening(seqs, n, g) ==
    g = [i \in 1..n |-> IF i = 1 THEN seqs[i] ELSE g[i - 1] \o seqs[i]]

LEMMA FlatteningExists ==
    ASSUME NEW seqs, NEW n \in Nat
    PROVE  \E g : IsFlattening(seqs, n, g)
<1> DEFINE Lengths == {k \in Nat : \E g : IsFlattening(seqs, k, g)}
<1>1. 0 \in Lengths
  <2>1. IsFlattening(seqs, 0, [i \in 1..0 |-> i])
    BY DEF IsFlattening
  <2>. QED  BY <2>1
<1>2. ASSUME NEW k \in Nat, k \in Lengths
      PROVE  k + 1 \in Lengths
  <2>1. PICK g : IsFlattening(seqs, k, g)
    BY <1>2
  <2> DEFINE last == IF k = 0 THEN seqs[1] ELSE g[k] \o seqs[k + 1]
             h == [i \in 1..(k + 1) |-> IF i = k + 1 THEN last ELSE g[i]]
  <2>2. ASSUME NEW i \in 1..(k + 1)
        PROVE  h[i] = IF i = 1 THEN seqs[i] ELSE h[i - 1] \o seqs[i]
    <3>1. CASE i = k + 1
      <4>1. CASE k = 0
        BY <3>1, <4>1
      <4>2. CASE k # 0
        <5>1. /\ k \in 1..(k + 1)
              /\ k # k + 1
              /\ i # 1
              /\ i - 1 = k
          BY <3>1, <4>2
        <5>2. h[i - 1] = g[k]
          BY <5>1
        <5>. QED  BY <3>1, <4>2, <5>1, <5>2
      <4>. QED  BY <4>1, <4>2
    <3>2. CASE i # k + 1
      <4>1. i \in 1..k
        BY <3>2
      <4>2. g[i] = IF i = 1 THEN seqs[i] ELSE g[i - 1] \o seqs[i]
        <5>1. g = [j \in 1..k |-> IF j = 1 THEN seqs[j]
                                  ELSE g[j - 1] \o seqs[j]]
          BY <2>1 DEF IsFlattening
        <5>. QED  BY <4>1, <5>1
      <4>3. i # 1 => i - 1 \in 1..(k + 1) /\ i - 1 # k + 1
        BY <4>1
      <4>. QED  BY <3>2, <4>2, <4>3
    <3>. QED  BY <3>1, <3>2
  <2>3. IsFlattening(seqs, k + 1, h)
    <3>1. h = [i \in 1..(k + 1) |-> h[i]]
      OBVIOUS
    <3>. HIDE DEF h
    <3>. QED  BY <2>2, <3>1 DEF IsFlattening
  <2>. QED  BY <2>3
<1>. HIDE DEF Lengths
<1>3. n \in Lengths
  BY <1>1, <1>2, NatInductive
<1>. QED  BY <1>3 DEF Lengths

LEMMA FlatteningsAgree ==
    \A seqs, more, g, h : \A m, n \in Nat :
        /\ IsFlattening(seqs, m, g)
        /\ IsFlattening(more, n, h)
        /\ m <= n
        /\ \A i \in 1..m : seqs[i] = more[i]
        => \A i \in 1..m : g[i] = h[i]
<1>. SUFFICES ASSUME NEW seqs, NEW more, NEW g, NEW h,
                     NEW m \in Nat, NEW n \in Nat,
                     IsFlattening(seqs, m, g),
                     IsFlattening(more, n, h),
                     m <= n,
                     \A i \in 1..m : seqs[i] = more[i]
              PROVE  \A i \in 1..m : g[i] = h[i]
  OBVIOUS
<1> DEFINE Places == {k \in Nat : k \in 1..m => g[k] = h[k]}
<1>1. 0 \in Places
  OBVIOUS
<1>2. ASSUME NEW k \in Nat, k \in Places, k + 1 \in 1..m
      PROVE  g[k + 1] = h[k + 1]
  <2>1. k + 1 \in 1..n
    BY <1>2
  <2>2. /\ g[k + 1] = IF k + 1 = 1 THEN seqs[k + 1]
                      ELSE g[(k + 1) - 1] \o seqs[k + 1]
        /\ h[k + 1] = IF k + 1 = 1 THEN more[k + 1]
                      ELSE h[(k + 1) - 1] \o more[k + 1]
    <3>1. \A x, len, s : IsFlattening(s, len, x) =>
             \A i \in 1..len : x[i] = IF i = 1 THEN s[i]
                                     ELSE x[i - 1] \o s[i]
      BY DEF IsFlattening
    <3>. QED  BY <1>2, <2>1, <3>1
  <2>3. k # 0 => g[k] = h[k]
    BY <1>2
  <2>. QED  BY <1>2, <2>2, <2>3
<1>3. \A k \in Nat : k \in Places => k + 1 \in Places
  BY <1>2
<1>. HIDE DEF Places
<1>4. Nat \subseteq Places
  BY <1>1, <1>3, NatInductive
<1>. QED  BY <1>4 DEF Places

LEMMA FlattenSteps ==
    ASSUME NEW S, NEW seqs \in Seq(S), seqs # <<>>
    PROVE  \E g : /\ IsFlattening(seqs, Len(seqs), g)
                  /\ FlattenSeq(seqs) = g[Len(seqs)]
<1> DEFINE g == CHOOSE x : IsFlattening(seqs, Len(seqs), x)
<1>1. Len(seqs) \in Nat \ {0}
  BY EmptySeq
<1>2. IsFlattening(seqs, Len(seqs), g)
  BY <1>1, FlatteningExists
<1>3. FlattenSeq(seqs) = g[Len(seqs)]
  BY <1>1 DEF FlattenSeq, IsFlattening
<1>. QED  BY <1>2, <1>3

LEMMA FlattenTyped ==
    ASSUME NEW S, NEW seqs \in Seq(Seq(S))
    PROVE  FlattenSeq(seqs) \in Seq(S)
<1>1. CASE seqs = <<>>
  BY <1>1 DEF FlattenSeq
<1>2. CASE seqs # <<>>
  <2>1. PICK g : /\ IsFlattening(seqs, Len(seqs), g)
                 /\ FlattenSeq(seqs) = g[Len(seqs)]
    BY <1>2, FlattenSteps
  <2>2. Len(seqs) \in Nat \ {0} /\ \A i \in 1..Len(seqs) : seqs[i] \in Seq(S)
    BY <1>2, EmptySeq
  <2>3. \A i \in 1..Len(seqs) : g[i] = IF i = 1 THEN seqs[i]
                                      ELSE g[i - 1] \o seqs[i]
    BY <2>1 DEF IsFlattening
  <2> DEFINE Places == {k \in Nat : k \in 1..Len(seqs) => g[k] \in Seq(S)}
  <2>4. 0 \in Places
    OBVIOUS
  <2>5. ASSUME NEW k \in Nat, k \in Places, k + 1 \in 1..Len(seqs)
        PROVE  g[k + 1] \in Seq(S)
    <3>1. CASE k = 0
      BY <2>2, <2>3, <2>5, <3>1
    <3>2. CASE k # 0
      <4>1. /\ k \in 1..Len(seqs)
            /\ (k + 1) - 1 = k
            /\ k + 1 # 1
        BY <2>2, <2>5, <3>2
      <4>2. g[k] \in Seq(S) /\ seqs[k + 1] \in Seq(S)
        BY <2>2, <2>5, <4>1
      <4>3. g[k + 1] = g[k] \o seqs[k + 1]
        BY <2>3, <2>5, <4>1
      <4>. QED  BY <4>2, <4>3, ConcatProperties
    <3>. QED  BY <3>1, <3>2
  <2>6. ASSUME NEW k \in Nat, k \in Places
        PROVE  k + 1 \in Places
    <3>1. k + 1 \in Nat
      OBVIOUS
    <3>2. k + 1 \in 1..Len(seqs) => g[k + 1] \in Seq(S)
      BY <2>5, <2>6
    <3>. QED  BY <3>1, <3>2
  <2>. HIDE DEF Places
  <2>7. Len(seqs) \in Places
    BY <2>2, <2>4, <2>6, NatInductive
  <2>. QED  BY <2>1, <2>2, <2>7 DEF Places
<1>. QED  BY <1>1, <1>2

LEMMA FlattenAppend ==
    ASSUME NEW S, NEW seqs \in Seq(Seq(S)), NEW s \in Seq(S)
    PROVE  FlattenSeq(Append(seqs, s)) = FlattenSeq(seqs) \o s
<1> DEFINE more == Append(seqs, s)
<1>1. /\ more \in Seq(Seq(S))
      /\ more # <<>>
      /\ Len(more) = Len(seqs) + 1
      /\ \A i \in 1..Len(seqs) : seqs[i] = more[i]
      /\ more[Len(seqs) + 1] = s
      /\ Len(seqs) \in Nat
  BY AppendProperties
<1>. HIDE DEF more
<1>2. PICK h : IsFlattening(more, Len(more), h) /\ FlattenSeq(more) = h[Len(more)]
  BY <1>1, FlattenSteps
<1>3. h[Len(more)] = IF Len(more) = 1 THEN more[Len(more)]
                     ELSE h[Len(more) - 1] \o more[Len(more)]
  <2>1. Len(more) \in 1..Len(more)
    BY <1>1
  <2>. QED  BY <1>2, <2>1 DEF IsFlattening
<1>4. CASE seqs = <<>>
  <2>1. FlattenSeq(seqs) = <<>> /\ Len(seqs) = 0
    BY <1>4 DEF FlattenSeq
  <2>. QED  BY <1>1, <1>2, <1>3, <2>1, ConcatEmptySeq DEF more
<1>5. CASE seqs # <<>>
  <2>1. PICK g : IsFlattening(seqs, Len(seqs), g) /\ FlattenSeq(seqs) = g[Len(seqs)]
    BY <1>5, FlattenSteps
  <2>2. Len(seqs) \in Nat \ {0}
    BY <1>5, EmptySeq
  <2>3. g[Len(seqs)] = h[Len(seqs)]
    <3>1. Len(seqs) <= Len(more) /\ Len(more) \in Nat
      BY <1>1
    <3>2. PICK m \in Nat, n \in Nat : m = Len(seqs) /\ n = Len(more)
      BY <2>2, <3>1
    <3>3. /\ m <= n
          /\ IsFlattening(seqs, m, g)
          /\ IsFlattening(more, n, h)
          /\ \A i \in 1..m : seqs[i] = more[i]
      BY <1>1, <1>2, <2>1, <3>1, <3>2
    <3>4. \A i \in 1..m : g[i] = h[i]
      BY <3>3, FlatteningsAgree
    <3>. QED  BY <2>2, <3>2, <3>4
  <2>4. Len(more) - 1 = Len(seqs) /\ Len(more) # 1
    BY <1>1, <2>2
  <2>. QED  BY <1>1, <1>2, <1>3, <2>1, <2>3, <2>4 DEF more
<1>. QED  BY <1>4, <1>5

----------------------------------------------------------------------------
(* A journal with a torn header holds nothing: the header is on disk before *)
(* the process that wrote it accepts a command or saves a snapshot.         *)

Frame == [commands : Seq(Nat), whole : BOOLEAN]

FilesOK ==
    /\ submitted \in Nat
    /\ block \in Seq(Nat)
    /\ journal = [header |-> journal.header, base |-> journal.base,
                  frames |-> journal.frames]
    /\ journal.header \in {"none", "torn", "whole"}
    /\ journal.frames \in Seq(Frame)
    /\ ~snap.found => snap.commands = <<>>

\* What a crash may cut: a header nobody was told of, or the frame just
\* written.
OnlyTheLastWrite ==
    cached => \/ pc = "header"
              \/ pc = "written" /\ journal.frames # <<>>

\* Until the header is synced there is nothing to lose.
NothingYet ==
    /\ journal.header # "whole" => /\ pc = "down"
                                   /\ journal.frames = <<>>
                                   /\ journal.base = 0
    /\ journal.header # "whole" \/ pc = "header"
          => promised = <<>> /\ ~snap.found

HeaderInv == FilesOK /\ OnlyTheLastWrite /\ NothingYet

----------------------------------------------------------------------------
\* The state open builds from nothing.
LEMMA NothingRecovered ==
    ASSUME journal.frames = <<>>, journal.base = 0, snap.commands = <<>>
    PROVE  Recovered = <<>>
<1>1. IntactFrames(journal.frames) = <<>>
  BY DEF IntactFrames
<1>2. SegmentCommands = <<>>
  <2>1. [i \in DOMAIN <<>> |-> <<>>[i].commands] = <<>>
    OBVIOUS
  <2>2. FlattenSeq(<<>>) = <<>>
    BY DEF FlattenSeq
  <2>. QED  BY <1>1, <2>1, <2>2 DEF SegmentCommands, CommandsIn
<1>3. Len(snap.commands) = 0 /\ Len(SegmentCommands) = 0
  BY <1>2
<1>4. Covered(0, 0) = 0
  <2>1. {0, 0 - 0} = {0}
    OBVIOUS
  <2>. QED  BY <2>1 DEF Covered, Max
<1>5. SubSeq(<<>>, 0 + 1, 0) = <<>>
  OBVIOUS
<1>. QED  BY <1>2, <1>3, <1>4, <1>5 DEF Recovered

\* One more frame.
LEMMA FrameAdded ==
    ASSUME FilesOK, NEW commands \in Seq(Nat)
    PROVE  LET frames == journal.frames \o FramesOf(commands)
           IN  frames \in Seq(Frame) /\ frames # <<>>
<1>. DEFINE frame == WholeFrame(commands)
            old == journal.frames
<1>1. frame \in Frame
  BY DEF WholeFrame, Frame
<1>2. old \in Seq(Frame)
  BY DEF FilesOK
<1>. HIDE DEF frame, old
<1>3. old \o <<frame>> \in Seq(Frame) /\ Len(old \o <<frame>>) = Len(old) + 1
  BY <1>1, <1>2
<1>4. old \o <<frame>> # <<>>
  BY <1>2, <1>3
<1>. QED  BY <1>3, <1>4 DEF FramesOf, frame, old

LEMMA OneReplaced ==
    ASSUME NEW S, NEW q \in Seq(S), NEW i \in 1..Len(q), NEW x \in S
    PROVE  [q EXCEPT ![i] = x] \in Seq(S)
OBVIOUS

\* What a crash or an error leaves of the journal: without frames its header
\* may go, with frames the last of them.
LEMMA AfterKeeps ==
    ASSUME FilesOK, NEW outcome \in Outcomes, NEW left, left = After(outcome)
    PROVE  /\ left = [header |-> left.header, base |-> left.base,
                      frames |-> left.frames]
           /\ left.header \in {"none", "torn", "whole"}
           /\ left.frames \in Seq(Frame)
           /\ journal.frames # <<>> =>
                 left.header = journal.header /\ left.base = journal.base
           /\ left.header # "whole" /\ journal.header = "whole" =>
                 left.frames = <<>> /\ left.base = 0
<1>. DEFINE n == Len(journal.frames)
            frames == journal.frames
<1>1. outcome \in {"whole", "lost", "torn"}
  BY DEF Outcomes
<1>2. /\ journal = [header |-> journal.header, base |-> journal.base,
                    frames |-> frames]
      /\ journal.header \in {"none", "torn", "whole"}
      /\ frames \in Seq(Frame) /\ n \in Nat
      /\ n = 0 <=> frames = <<>>
  BY DEF FilesOK
<1>3. CASE outcome = "whole"
  BY <1>2, <1>3 DEF After
<1>4. CASE n = 0 /\ outcome \in {"lost", "torn"}
  <2>1. /\ left.frames = <<>> /\ left.base = 0
        /\ left.header \in {"none", "torn"}
        /\ left = [header |-> left.header, base |-> left.base,
                   frames |-> left.frames]
    BY <1>4 DEF After, NoFile
  <2>. QED  BY <2>1, <1>2, <1>4
<1>5. CASE n # 0 /\ outcome = "lost"
  <2>. DEFINE kept == SubSeq(frames, 1, n - 1)
  <2>1. kept \in Seq(Frame)
    BY <1>2, <1>5
  <2>2. left = [journal EXCEPT !.frames = kept]
    BY <1>5 DEF After
  <2>. HIDE DEF kept
  <2>3. left = [header |-> journal.header, base |-> journal.base,
                frames |-> kept]
    BY <2>2, <1>2
  <2>. QED  BY <2>1, <2>3, <1>2, <1>5
<1>6. CASE n # 0 /\ outcome = "torn"
  <2>. DEFINE cut == [frames EXCEPT ![n].whole = FALSE]
  <2>1. frames[n] \in Frame
    BY <1>2, <1>6
  <2>2. [frames[n] EXCEPT !.whole = FALSE] \in Frame
    BY <2>1 DEF Frame
  <2>3. cut \in Seq(Frame)
    <3>. DEFINE last == [frames[n] EXCEPT !.whole = FALSE]
    <3>1. cut = [frames EXCEPT ![n] = last]
      BY <1>2, <1>6
    <3>2. last \in Frame /\ n \in 1..Len(frames) /\ frames \in Seq(Frame)
      BY <2>2, <1>2, <1>6
    <3>. HIDE DEF last, cut, frames, n
    <3>3. [frames EXCEPT ![n] = last] \in Seq(Frame)
      BY <3>2, OneReplaced
    <3>. QED  BY <3>1, <3>3
  <2>4. left = [journal EXCEPT !.frames = cut]
    BY <1>6 DEF After
  <2>. HIDE DEF cut
  <2>5. left = [header |-> journal.header, base |-> journal.base,
                frames |-> cut]
    BY <2>4, <1>2
  <2>. QED  BY <2>3, <2>5, <1>2, <1>6
<1>. QED  BY <1>1, <1>2, <1>3, <1>4, <1>5, <1>6

----------------------------------------------------------------------------
LEMMA OpenKeeps ==
    ASSUME HeaderInv, Open
    PROVE  HeaderInv'
<1>1. ~cached
  BY DEF HeaderInv, OnlyTheLastWrite, Open
<1>2. /\ promised' = Recovered /\ block' = <<>>
      /\ snap' = snap /\ submitted' = submitted
  BY DEF Open
<1>3. CASE journal.header = "none"
  <2>1. /\ journal' = [header |-> "whole", base |-> Len(snap.commands),
                       frames |-> <<>>]
        /\ pc' = "header"
    BY <1>3 DEF Open, Segment
  <2>2. promised' = <<>> /\ ~snap.found
    BY <1>2, <1>3, NothingRecovered DEF HeaderInv, FilesOK, NothingYet
  <2>3. <<>> \in Seq(Nat) /\ <<>> \in Seq(Frame)
    OBVIOUS
  <2>. QED  BY <2>1, <2>2, <2>3, <1>2
            DEF HeaderInv, FilesOK, OnlyTheLastWrite, NothingYet
<1>4. CASE journal.header = "whole"
  <2>1. UNCHANGED <<journal, cached>> /\ pc' = "idle"
    BY <1>4 DEF Open
  <2>2. <<>> \in Seq(Nat)
    OBVIOUS
  <2>. QED  BY <2>1, <2>2, <1>1, <1>2, <1>4
            DEF HeaderInv, FilesOK, OnlyTheLastWrite, NothingYet
<1>. QED  BY <1>3, <1>4 DEF Open, HeaderInv, FilesOK

LEMMA WriteKeeps ==
    ASSUME HeaderInv, NEW commands \in Seq(Nat), WriteFrame(commands),
           submitted' \in Nat
    PROVE  HeaderInv'
<1>. DEFINE frames == journal.frames \o FramesOf(block')
<1>1. block' \in Seq(Nat)
  <2>1. block' = block \o commands /\ block \in Seq(Nat)
    BY DEF WriteFrame, HeaderInv, FilesOK
  <2>. QED  BY <2>1
<1>2. frames \in Seq(Frame) /\ frames # <<>>
  BY <1>1, FrameAdded DEF HeaderInv
<1>. HIDE DEF frames
<1>3. /\ pc = "idle" /\ pc' = "written"
      /\ snap' = snap /\ cached' = attached
      /\ journal' = IF attached THEN [journal EXCEPT !.frames = frames]
                    ELSE journal
  BY DEF WriteFrame, frames
<1>4. journal.header = "whole"
  BY <1>3 DEF HeaderInv, FilesOK, NothingYet
<1>5. /\ journal' = [header |-> "whole", base |-> journal.base,
                     frames |-> journal'.frames]
      /\ journal'.frames \in Seq(Frame)
      /\ cached' => journal'.frames # <<>>
  <2>1. /\ journal = [header |-> journal.header, base |-> journal.base,
                      frames |-> journal.frames]
        /\ journal.frames \in Seq(Frame)
    BY DEF HeaderInv, FilesOK
  <2>2. CASE attached
    <3>1. journal' = [header |-> "whole", base |-> journal.base,
                      frames |-> frames]
      BY <2>1, <2>2, <1>3, <1>4
    <3>. QED  BY <3>1, <1>2
  <2>3. CASE ~attached
    BY <2>1, <2>3, <1>3, <1>4
  <2>. QED  BY <2>2, <2>3
<1>. QED  BY <1>1, <1>3, <1>5
          DEF HeaderInv, FilesOK, OnlyTheLastWrite, NothingYet

LEMMA BatchKeeps ==
    ASSUME HeaderInv, NEW commands \in Batches, SubmitBatch(commands)
    PROVE  HeaderInv'
<1>1. PICK k \in 1..MaxBatch : commands = [i \in 1..k |-> submitted + i]
  BY DEF Batches
<1>2. submitted \in Nat /\ k \in Nat
  BY <1>1, FaultAssumption DEF HeaderInv, FilesOK
<1>3. commands \in Seq(Nat) /\ Len(commands) = k
  BY <1>1, <1>2
<1>4. submitted' \in Nat /\ WriteFrame(commands)
  BY <1>2, <1>3 DEF SubmitBatch
<1>. QED  BY <1>3, <1>4, WriteKeeps

LEMMA FlushKeeps ==
    ASSUME HeaderInv, Flush
    PROVE  HeaderInv'
<1>1. <<>> \in Seq(Nat) /\ submitted' \in Nat /\ WriteFrame(<<>>)
  BY DEF Flush, HeaderInv, FilesOK
<1>. QED  BY <1>1, WriteKeeps

\* A fresh segment has its header before it has its name.
LEMMA ReplaceKeeps ==
    ASSUME HeaderInv, ReplaceSegment
    PROVE  HeaderInv'
<1>1. /\ journal' = [header |-> "whole", base |-> BaseSeq, frames |-> <<>>]
      /\ ~cached' /\ pc' = "idle"
      /\ UNCHANGED <<block, snap, submitted>>
  BY DEF ReplaceSegment, Segment
<1>2. <<>> \in Seq(Frame)
  OBVIOUS
<1>. QED  BY <1>1, <1>2
          DEF HeaderInv, FilesOK, OnlyTheLastWrite, NothingYet

\* What a crash or a failed commit does to the journal.
LEMMA CutKeeps ==
    ASSUME HeaderInv, pc # "down",
           IF cached THEN \E outcome \in Outcomes : journal' = After(outcome)
           ELSE UNCHANGED journal
    PROVE  /\ journal' = [header |-> journal'.header, base |-> journal'.base,
                          frames |-> journal'.frames]
           /\ journal'.header \in {"none", "torn", "whole"}
           /\ journal'.frames \in Seq(Frame)
           /\ journal'.header # "whole" =>
                 /\ pc = "header"
                 /\ journal'.frames = <<>> /\ journal'.base = 0
                 /\ promised = <<>> /\ ~snap.found
<1>1. journal.header = "whole"
  BY DEF HeaderInv, FilesOK, NothingYet
<1>2. CASE ~cached
  BY <1>1, <1>2 DEF HeaderInv, FilesOK
<1>3. CASE cached
  <2>1. PICK outcome \in Outcomes : journal' = After(outcome)
    BY <1>3
  <2>2. /\ journal' = [header |-> journal'.header, base |-> journal'.base,
                       frames |-> journal'.frames]
        /\ journal'.header \in {"none", "torn", "whole"}
        /\ journal'.frames \in Seq(Frame)
        /\ journal.frames # <<>> => journal'.header = journal.header
        /\ journal'.header # "whole" =>
              journal'.frames = <<>> /\ journal'.base = 0
    BY <2>1, <1>1, AfterKeeps DEF HeaderInv
  <2>3. CASE pc = "header"
    BY <2>2, <2>3 DEF HeaderInv, NothingYet
  <2>4. CASE journal.frames # <<>>
    BY <2>2, <2>4, <1>1
  <2>. QED  BY <2>3, <2>4, <1>3 DEF HeaderInv, OnlyTheLastWrite
<1>. QED  BY <1>2, <1>3

LEMMA CrashKeeps ==
    ASSUME HeaderInv, Crash
    PROVE  HeaderInv'
<1>1. /\ pc # "down" /\ pc' = "down" /\ ~cached' /\ block' = <<>>
      /\ UNCHANGED <<snap, submitted, promised>>
      /\ IF cached THEN \E outcome \in Outcomes : journal' = After(outcome)
         ELSE UNCHANGED journal
  BY DEF Crash
<1>2. <<>> \in Seq(Nat)
  OBVIOUS
<1>. QED  BY <1>1, <1>2, CutKeeps
          DEF HeaderInv, FilesOK, OnlyTheLastWrite, NothingYet

LEMMA CommitFailsKeeps ==
    ASSUME HeaderInv, CommitFails
    PROVE  HeaderInv'
<1>1. /\ pc = "written" /\ pc' = "idle" /\ ~cached'
      /\ UNCHANGED <<block, snap, submitted, promised>>
      /\ IF cached THEN \E outcome \in Outcomes : journal' = After(outcome)
         ELSE UNCHANGED journal
  BY DEF CommitFails
<1>2. journal'.header = "whole"
  BY <1>1, CutKeeps
<1>. QED  BY <1>1, <1>2, CutKeeps
          DEF HeaderInv, FilesOK, OnlyTheLastWrite, NothingYet

LEMMA HeaderKept == HeaderInv /\ [Next]_vars => HeaderInv'
<1>. SUFFICES ASSUME HeaderInv, [Next]_vars
              PROVE  HeaderInv'
  OBVIOUS
<1>. USE DEF HeaderInv, FilesOK, OnlyTheLastWrite, NothingYet
<1>1. CASE SyncHeader
  BY <1>1 DEF SyncHeader
<1>2. CASE SyncFrame
  <2>1. <<>> \in Seq(Nat)
    OBVIOUS
  <2>. QED  BY <2>1, <1>2 DEF SyncFrame
<1>3. CASE Execute
  BY <1>3 DEF Execute, Durable
<1>4. CASE SaveSnapshot
  BY <1>4 DEF SaveSnapshot
<1>5. CASE RotateFails
  BY <1>5 DEF RotateFails
<1>6. CASE Rotate \/ ReopenFails
  BY <1>6, ReplaceKeeps DEF Rotate, ReopenFails
<1>7. CASE UNCHANGED vars
  BY <1>7 DEF vars
<1>. QED  BY <1>1, <1>2, <1>3, <1>4, <1>5, <1>6, <1>7, OpenKeeps, BatchKeeps,
             FlushKeeps, CrashKeeps, CommitFailsKeeps DEF Next

----------------------------------------------------------------------------
\* A journal that open refuses for its header never held a command that was
\* acknowledged, and there is no snapshot beside it: deleting it loses
\* nothing, under every set of faults.
THEOREM TornHeaderIsEmpty == Spec => []TornHeaderHoldsNothing
<1>1. Init => HeaderInv
  <2>. SUFFICES ASSUME Init
                PROVE  HeaderInv
    OBVIOUS
  <2>1. <<>> \in Seq(Nat) /\ <<>> \in Seq(Frame)
    OBVIOUS
  <2>. QED  BY <2>1 DEF Init, NoFile, NoSnapshot, HeaderInv, FilesOK,
                        OnlyTheLastWrite, NothingYet
<1>2. HeaderInv => TornHeaderHoldsNothing
  BY DEF HeaderInv, NothingYet, TornHeaderHoldsNothing
<1>. QED  BY <1>1, <1>2, HeaderKept, PTL DEF Spec

----------------------------------------------------------------------------
(* What a segment holds *)

AllWhole(frames) == \A i \in DOMAIN frames : frames[i].whole

LEMMA WholeIsIntact ==
    ASSUME NEW frames, AllWhole(frames)
    PROVE  IntactFrames(frames) = frames
BY DEF AllWhole, IntactFrames

LEMMA IntactTyped ==
    ASSUME NEW frames \in Seq(Frame)
    PROVE  IntactFrames(frames) \in Seq(Frame)
<1> DEFINE torn == {i \in DOMAIN frames : ~frames[i].whole}
<1>1. CASE torn = {}
  BY <1>1 DEF IntactFrames
<1>2. CASE torn # {}
  <2>1. torn \in SUBSET Nat
    OBVIOUS
  <2>2. \E n \in torn : \A m \in torn : n <= m
    <3>. HIDE DEF torn
    <3>. QED  BY <1>2, <2>1, NatHasMin
  <2>3. Min(torn) \in torn
    BY <2>2 DEF Min
  <2>4. Min(torn) \in 1..Len(frames)
    BY <2>3
  <2>5. \A i \in 1..(Min(torn) - 1) : frames[i] \in Frame
    BY <2>4
  <2>6. SubSeq(frames, 1, Min(torn) - 1) \in Seq(Frame)
    <3>. HIDE DEF torn
    <3>. QED  BY <2>4, <2>5, SubSeqProperties
  <2>. QED  BY <1>2, <2>6 DEF IntactFrames
<1>. QED  BY <1>1, <1>2

CommandLists(frames) == [i \in DOMAIN frames |-> frames[i].commands]

LEMMA ListsTyped ==
    ASSUME NEW frames \in Seq(Frame)
    PROVE  /\ CommandLists(frames) \in Seq(Seq(Nat))
           /\ Len(CommandLists(frames)) = Len(frames)
<1>1. \A i \in 1..Len(frames) : frames[i].commands \in Seq(Nat)
  <2>1. \A i \in 1..Len(frames) : frames[i] \in Frame
    OBVIOUS
  <2>. QED  BY <2>1 DEF Frame
<1>2. CommandLists(frames) \in [1..Len(frames) -> Seq(Nat)]
  BY <1>1 DEF CommandLists
<1>3. Len(frames) \in Nat
  OBVIOUS
<1>4. CommandLists(frames) \in Seq(Seq(Nat))
  BY <1>2, <1>3
<1>5. DOMAIN CommandLists(frames) = 1..Len(frames)
  BY <1>2
<1>6. Len(CommandLists(frames)) = Len(frames)
  BY <1>3, <1>4, <1>5, LenProperties
<1>. QED  BY <1>4, <1>6

LEMMA CommandsTyped ==
    ASSUME NEW frames \in Seq(Frame)
    PROVE  /\ CommandsIn(frames) \in Seq(Nat)
           /\ Len(CommandsIn(frames)) \in Nat
<1>1. CommandLists(IntactFrames(frames)) \in Seq(Seq(Nat))
  BY IntactTyped, ListsTyped
<1>2. FlattenSeq(CommandLists(IntactFrames(frames))) \in Seq(Nat)
  BY <1>1, FlattenTyped
<1>3. CommandsIn(frames) \in Seq(Nat)
  BY <1>2 DEF CommandsIn, CommandLists
<1>. QED  BY <1>3

\* Behind frames that are whole, a whole frame adds its commands.
LEMMA OneMoreFrame ==
    ASSUME NEW frames \in Seq(Frame), AllWhole(frames), NEW commands \in Seq(Nat)
    PROVE  /\ AllWhole(Append(frames, WholeFrame(commands)))
           /\ CommandsIn(Append(frames, WholeFrame(commands))) =
                 CommandsIn(frames) \o commands
<1> DEFINE frame == WholeFrame(commands)
           more  == Append(frames, frame)
<1>1. frame \in Frame /\ frame.whole /\ frame.commands = commands
  BY DEF WholeFrame, Frame
<1>. HIDE DEF frame
<1>2. /\ DOMAIN frames = 1..Len(frames)
      /\ DOMAIN more = 1..(Len(frames) + 1)
      /\ \A i \in 1..Len(frames) : more[i] = frames[i]
      /\ more[Len(frames) + 1] = frame
      /\ Len(frames) \in Nat
      /\ more \in Seq(Frame)
  BY <1>1
<1>. HIDE DEF more
<1>3. AllWhole(more)
  <2>1. \A i \in 1..Len(frames) : frames[i].whole
    BY <1>2 DEF AllWhole
  <2>2. \A i \in 1..(Len(frames) + 1) : i \in 1..Len(frames) \/ i = Len(frames) + 1
    BY <1>2
  <2>. QED  BY <1>1, <1>2, <2>1, <2>2 DEF AllWhole
<1>4. CommandLists(more) = Append(CommandLists(frames), commands)
  <2> DEFINE lists == CommandLists(frames)
  <2>1. /\ lists \in Seq(Seq(Nat))
        /\ Len(lists) = Len(frames)
        /\ \A i \in 1..Len(frames) : lists[i] = frames[i].commands
    <3>1. lists \in Seq(Seq(Nat)) /\ Len(lists) = Len(frames)
      BY ListsTyped
    <3>. QED  BY <1>2, <3>1 DEF CommandLists
  <2>. HIDE DEF lists
  <2>2. /\ CommandLists(more) \in Seq(Seq(Nat))
        /\ Len(CommandLists(more)) = Len(frames) + 1
    <3>1. Len(more) = Len(frames) + 1
      BY <1>2, LenProperties
    <3>. QED  BY <1>2, <3>1, ListsTyped
  <2>3. /\ Append(lists, commands) \in Seq(Seq(Nat))
        /\ Len(Append(lists, commands)) = Len(frames) + 1
        /\ \A i \in 1..Len(frames) : Append(lists, commands)[i] = lists[i]
        /\ Append(lists, commands)[Len(frames) + 1] = commands
    BY <2>1, AppendProperties
  <2>4. ASSUME NEW i \in 1..(Len(frames) + 1)
        PROVE  CommandLists(more)[i] = Append(lists, commands)[i]
    <3>1. CommandLists(more)[i] = more[i].commands
      BY <1>2 DEF CommandLists
    <3>2. i \in 1..Len(frames) \/ i = Len(frames) + 1
      BY <1>2
    <3>. QED  BY <1>1, <1>2, <2>1, <2>3, <3>1, <3>2
  <2>5. CommandLists(more) = Append(lists, commands)
    BY <2>2, <2>3, <2>4, SeqEqual
  <2>. QED  BY <2>5 DEF lists
<1>5. FlattenSeq(CommandLists(more)) =
         FlattenSeq(CommandLists(frames)) \o commands
  BY <1>4, ListsTyped, FlattenAppend
<1>6. IntactFrames(more) = more /\ IntactFrames(frames) = frames
  BY <1>3, WholeIsIntact
<1>7. CommandsIn(more) = CommandsIn(frames) \o commands
  BY <1>5, <1>6 DEF CommandsIn, CommandLists
<1>. QED  BY <1>3, <1>7 DEF more, frame

\* A torn frame at the end adds nothing.
LEMMA TornFrameAddsNothing ==
    ASSUME NEW frames \in Seq(Frame), AllWhole(frames),
           NEW frame \in Frame, ~frame.whole
    PROVE  CommandsIn(Append(frames, frame)) = CommandsIn(frames)
<1> DEFINE more == Append(frames, frame)
           last == Len(frames) + 1
           torn == {i \in DOMAIN more : ~more[i].whole}
<1>1. /\ DOMAIN frames = 1..Len(frames)
      /\ DOMAIN more = 1..last
      /\ \A i \in 1..Len(frames) : more[i] = frames[i]
      /\ more[last] = frame
      /\ Len(frames) \in Nat
      /\ last \in Nat
  OBVIOUS
<1>2. torn = {last}
  <2>1. \A i \in 1..Len(frames) : more[i].whole
    BY <1>1 DEF AllWhole
  <2>2. \A i \in 1..last : i \in 1..Len(frames) \/ i = last
    BY <1>1
  <2>. HIDE DEF more, last
  <2>3. last \in 1..last
    BY <1>1 DEF last
  <2>. QED  BY <1>1, <2>1, <2>2, <2>3
<1>3. Min(torn) = last
  BY <1>1, <1>2 DEF Min
<1>4. IntactFrames(more) = SubSeq(more, 1, last - 1)
  <2>1. torn # {}
    BY <1>2
  <2>. QED  BY <1>3, <2>1 DEF IntactFrames
<1>5. SubSeq(more, 1, last - 1) = frames
  <2>1. more \in Seq(Frame) /\ last - 1 = Len(frames)
    BY <1>1
  <2>2. /\ SubSeq(more, 1, last - 1) \in Seq(Frame)
        /\ Len(SubSeq(more, 1, last - 1)) = Len(frames)
        /\ \A i \in 1..Len(frames) : SubSeq(more, 1, last - 1)[i] = more[i]
    BY <1>1, <2>1
  <2>. HIDE DEF more, last
  <2>. QED  BY <1>1, <2>2, SeqEqual
<1>6. IntactFrames(frames) = frames
  BY WholeIsIntact
<1>. QED  BY <1>4, <1>5, <1>6 DEF CommandsIn, more

----------------------------------------------------------------------------
(* What a restart makes of a snapshot and a segment *)

LEMMA CoveredFacts ==
    ASSUME NEW base \in Nat, NEW applied \in Nat
    PROVE  Covered(base, applied) =
              IF applied > base THEN applied - base ELSE 0
<1> DEFINE S == {0, applied - base}
           m == IF applied > base THEN applied - base ELSE 0
<1>1. m \in S /\ \A n \in S : n <= m
  OBVIOUS
<1>2. \A n \in S : (\A k \in S : k <= n) => n = m
  BY <1>1
<1>. HIDE DEF m, S
<1>3. Max(S) = m
  BY <1>1, <1>2 DEF Max
<1>. QED  BY <1>3 DEF Covered, S, m

\* The state a restart builds from a snapshot and a segment.
RecoveredFrom(saved, base, frames) ==
    LET logged == CommandsIn(frames)
    IN  saved \o SubSeq(logged, Covered(base, Len(saved)) + 1, Len(logged))

LEMMA RecoveredReads ==
    Recovered = RecoveredFrom(snap.commands, journal.base, journal.frames)
BY DEF Recovered, RecoveredFrom, SegmentCommands

LEMMA RecoveredTyped ==
    ASSUME NEW saved \in Seq(Nat), NEW base \in Nat, NEW frames \in Seq(Frame)
    PROVE  /\ RecoveredFrom(saved, base, frames) \in Seq(Nat)
           /\ Len(saved) <= Len(RecoveredFrom(saved, base, frames))
<1>1. PICK logged \in Seq(Nat) : logged = CommandsIn(frames)
  BY CommandsTyped
<1>2. PICK c \in Nat : c = Covered(base, Len(saved))
  BY CoveredFacts
<1>3. PICK rest : rest = SubSeq(logged, c + 1, Len(logged))
  OBVIOUS
<1>5. rest \in Seq(Nat)
  <2>1. \A i \in (c + 1)..Len(logged) : logged[i] \in Nat
    BY <1>1
  <2>. QED  BY <1>3, <2>1, SubSeqProperties
<1>6. RecoveredFrom(saved, base, frames) = saved \o rest
  BY <1>1, <1>2, <1>3 DEF RecoveredFrom
<1>. QED  BY <1>5, <1>6, ConcatProperties

\* A segment that does not number commands past the snapshot adds nothing.
LEMMA SnapshotCoversSegment ==
    ASSUME NEW saved \in Seq(Nat), NEW base \in Nat, NEW frames \in Seq(Frame),
           base + Len(CommandsIn(frames)) <= Len(saved)
    PROVE  RecoveredFrom(saved, base, frames) = saved
<1>1. PICK logged \in Seq(Nat) : logged = CommandsIn(frames)
  BY CommandsTyped
<1>2. Len(saved) \in Nat /\ Len(logged) \in Nat
  BY <1>1
<1>3. Covered(base, Len(saved)) = Len(saved) - base
  BY <1>1, <1>2, CoveredFacts
<1>4. Len(logged) < Covered(base, Len(saved)) + 1
  BY <1>1, <1>2, <1>3
<1>5. SubSeq(logged, Covered(base, Len(saved)) + 1, Len(logged)) = <<>>
  BY <1>2, <1>3, <1>4, SubSeqEmpty
<1>. QED  BY <1>1, <1>5, ConcatEmptySeq DEF RecoveredFrom

LEMMA RestOfConcat ==
    ASSUME NEW logged \in Seq(Nat), NEW more \in Seq(Nat),
           NEW c \in Nat, c <= Len(logged)
    PROVE  SubSeq(logged \o more, c + 1, Len(logged \o more)) =
              SubSeq(logged, c + 1, Len(logged)) \o more
<1>1. PICK l \in Nat, m \in Nat : l = Len(logged) /\ m = Len(more)
  OBVIOUS
<1>2. /\ logged \o more \in Seq(Nat)
      /\ Len(logged \o more) = l + m
      /\ \A i \in 1..(l + m) : (logged \o more)[i] =
             IF i <= l THEN logged[i] ELSE more[i - l]
  BY <1>1, ConcatProperties
<1>3. PICK both : both = logged \o more
  OBVIOUS
<1>4. PICK rest : rest = SubSeq(logged, c + 1, l)
  OBVIOUS
<1>5. /\ rest \in Seq(Nat)
      /\ Len(rest) = l - c
      /\ \A i \in 1..(l - c) : rest[i] = logged[c + i]
  <2>1. \A i \in (c + 1)..l : logged[i] \in Nat
    BY <1>1
  <2>2. /\ rest \in Seq(Nat)
        /\ Len(rest) = IF c + 1 <= l THEN l - (c + 1) + 1 ELSE 0
        /\ \A i \in 1..(l - (c + 1) + 1) : rest[i] = logged[(c + 1) + i - 1]
    BY <1>1, <1>4, <2>1, SubSeqProperties
  <2>. QED  BY <1>1, <2>2
<1>6. PICK all : all = SubSeq(both, c + 1, l + m)
  OBVIOUS
<1>7. /\ all \in Seq(Nat)
      /\ Len(all) = l + m - c
      /\ \A i \in 1..(l + m - c) : all[i] = both[c + i]
  <2>1. \A i \in (c + 1)..(l + m) : both[i] \in Nat
    BY <1>2, <1>3
  <2>2. /\ all \in Seq(Nat)
        /\ Len(all) = IF c + 1 <= l + m THEN l + m - (c + 1) + 1 ELSE 0
        /\ \A i \in 1..(l + m - (c + 1) + 1) : all[i] = both[(c + 1) + i - 1]
    BY <1>1, <1>6, <2>1, SubSeqProperties
  <2>. QED  BY <1>1, <2>2
<1>8. /\ rest \o more \in Seq(Nat)
      /\ Len(rest \o more) = l - c + m
      /\ \A i \in 1..(l - c + m) : (rest \o more)[i] =
             IF i <= l - c THEN rest[i] ELSE more[i - (l - c)]
  <2>1. /\ rest \o more \in Seq(Nat)
        /\ Len(rest \o more) = Len(rest) + Len(more)
        /\ \A i \in 1..(Len(rest) + Len(more)) : (rest \o more)[i] =
               IF i <= Len(rest) THEN rest[i] ELSE more[i - Len(rest)]
    BY <1>5, ConcatProperties
  <2>2. Len(rest) = l - c /\ Len(more) = m
    BY <1>1, <1>5
  <2>. QED  BY <2>1, <2>2
<1>9. ASSUME NEW i \in 1..(l + m - c)
      PROVE  all[i] = (rest \o more)[i]
  <2>1. c + i \in 1..(l + m)
    BY <1>1
  <2>2. all[i] = IF c + i <= l THEN logged[c + i] ELSE more[(c + i) - l]
    BY <1>2, <1>3, <1>7, <2>1
  <2>3. (rest \o more)[i] = IF i <= l - c THEN rest[i] ELSE more[i - (l - c)]
    BY <1>1, <1>8
  <2>4. i \in Nat /\ (i <= l - c <=> c + i <= l) /\ (c + i) - l = i - (l - c)
    BY <1>1
  <2>5. i <= l - c => i \in 1..(l - c)
    BY <1>1
  <2>. QED  BY <1>5, <2>2, <2>3, <2>4, <2>5
<1>10. Len(all) = Len(rest \o more)
  BY <1>1, <1>7, <1>8
<1>11. \A i \in 1..Len(all) : all[i] = (rest \o more)[i]
  BY <1>7, <1>9
<1>12. all = rest \o more
  BY <1>7, <1>8, <1>10, <1>11, SeqEqual
<1>. QED  BY <1>1, <1>2, <1>3, <1>4, <1>6, <1>12

LEMMA JoinedInOrder ==
    ASSUME NEW s \in Seq(Nat), NEW t \in Seq(Nat), NEW u \in Seq(Nat)
    PROVE  (s \o t) \o u = s \o (t \o u)
<1>1. Len((s \o t) \o u) = Len(s \o (t \o u))
  OBVIOUS
<1>2. ASSUME NEW i \in 1..Len((s \o t) \o u)
      PROVE  ((s \o t) \o u)[i] = (s \o (t \o u))[i]
  OBVIOUS
<1>3. (s \o t) \o u \in Seq(Nat) /\ s \o (t \o u) \in Seq(Nat)
  OBVIOUS
<1>. QED  BY <1>1, <1>2, <1>3, SeqEqual

\* A frame that continues the numbering of the state that is recovered adds
\* its commands to it.
LEMMA FrameContinues ==
    ASSUME NEW saved \in Seq(Nat), NEW base \in Nat, NEW frames \in Seq(Frame),
           AllWhole(frames), NEW commands \in Seq(Nat),
           base + Len(CommandsIn(frames)) =
               Len(RecoveredFrom(saved, base, frames))
    PROVE  RecoveredFrom(saved, base, Append(frames, WholeFrame(commands))) =
              RecoveredFrom(saved, base, frames) \o commands
<1>1. PICK logged \in Seq(Nat) : logged = CommandsIn(frames)
  BY CommandsTyped
<1>2. CommandsIn(Append(frames, WholeFrame(commands))) = logged \o commands
  BY <1>1, OneMoreFrame
<1>3. PICK c \in Nat : c = Covered(base, Len(saved))
  BY CoveredFacts
<1>4. c <= Len(logged)
  <2>1. Len(saved) <= base + Len(logged)
    BY <1>1, RecoveredTyped
  <2>2. c = IF Len(saved) > base THEN Len(saved) - base ELSE 0
    BY <1>3, CoveredFacts
  <2>3. Len(saved) \in Nat /\ Len(logged) \in Nat
    BY <1>1
  <2>. QED  BY <2>1, <2>2, <2>3
<1>5. PICK rest : rest = SubSeq(logged, c + 1, Len(logged))
  OBVIOUS
<1>6. rest \in Seq(Nat)
  <2>1. \A i \in (c + 1)..Len(logged) : logged[i] \in Nat
    BY <1>1
  <2>. QED  BY <1>5, <2>1, SubSeqProperties
<1>7. RecoveredFrom(saved, base, Append(frames, WholeFrame(commands))) =
         saved \o SubSeq(logged \o commands, c + 1, Len(logged \o commands))
  BY <1>2, <1>3 DEF RecoveredFrom
<1>8. SubSeq(logged \o commands, c + 1, Len(logged \o commands)) =
         rest \o commands
  BY <1>4, <1>5, RestOfConcat
<1>9. RecoveredFrom(saved, base, frames) = saved \o rest
  BY <1>1, <1>3, <1>5 DEF RecoveredFrom
<1>10. (saved \o rest) \o commands = saved \o (rest \o commands)
  BY <1>6, JoinedInOrder, SMTT(20)
<1>. QED  BY <1>7, <1>8, <1>9, <1>10

LEMMA PrefixFacts ==
    ASSUME NEW s \in Seq(Nat), NEW t \in Seq(Nat)
    PROVE  /\ IsPrefix(s, s \o t)
           /\ IsPrefix(s, s)
           /\ IsPrefix(<<>>, s)
<1>1. /\ s \o t \in Seq(Nat)
      /\ Len(s \o t) = Len(s) + Len(t)
      /\ \A i \in 1..Len(s) : (s \o t)[i] = s[i]
  BY ConcatProperties
<1>2. SubSeq(s \o t, 1, Len(s)) = SubSeq(s, 1, Len(s))
  BY <1>1
<1>3. SubSeq(<<>>, 1, 0) = SubSeq(s, 1, 0)
  BY SubSeqEmpty
<1>. QED  BY <1>1, <1>2, <1>3 DEF IsPrefix

----------------------------------------------------------------------------
(* What an append that was cut short leaves *)

LEMMA FreshSegment ==
    ASSUME NEW saved \in Seq(Nat), NEW base \in Nat, base <= Len(saved)
    PROVE  /\ CommandsIn(<<>>) = <<>>
           /\ Len(CommandsIn(<<>>)) = 0
           /\ RecoveredFrom(saved, base, <<>>) = saved
<1>1. CommandsIn(<<>>) = <<>>
  <2>1. IntactFrames(<<>>) = <<>>
    BY DEF IntactFrames
  <2>2. [i \in DOMAIN <<>> |-> <<>>[i].commands] = <<>>
    OBVIOUS
  <2>3. FlattenSeq(<<>>) = <<>>
    BY DEF FlattenSeq
  <2>. QED  BY <2>1, <2>2, <2>3 DEF CommandsIn
<1>2. Len(CommandsIn(<<>>)) = 0
  BY <1>1
<1>3. <<>> \in Seq(Frame) /\ base + Len(CommandsIn(<<>>)) <= Len(saved)
  BY <1>2
<1>. QED  BY <1>1, <1>2, <1>3, SnapshotCoversSegment

LEMMA DropLast ==
    ASSUME NEW S, NEW q \in Seq(S), NEW x \in S
    PROVE  SubSeq(Append(q, x), 1, Len(Append(q, x)) - 1) = q
<1> DEFINE more == Append(q, x)
<1>1. /\ more \in Seq(S)
      /\ Len(more) = Len(q) + 1
      /\ Len(more) - 1 = Len(q)
      /\ \A i \in 1..Len(q) : more[i] = q[i]
      /\ Len(q) \in Nat
  OBVIOUS
<1>2. /\ SubSeq(more, 1, Len(q)) \in Seq(S)
      /\ Len(SubSeq(more, 1, Len(q))) = Len(q)
      /\ \A i \in 1..Len(q) : SubSeq(more, 1, Len(q))[i] = more[i]
  BY <1>1
<1>. HIDE DEF more
<1>3. SubSeq(more, 1, Len(q)) = q
  BY <1>1, <1>2, SeqEqual
<1>. QED  BY <1>1, <1>3 DEF more

LEMMA ReplaceLast ==
    ASSUME NEW S, NEW q \in Seq(S), NEW x \in S, NEW y \in S
    PROVE  [Append(q, x) EXCEPT ![Len(Append(q, x))] = y] = Append(q, y)
<1>1. PICK n \in Nat : n = Len(q) + 1
  OBVIOUS
<1>2. PICK more : more = Append(q, x)
  OBVIOUS
<1>3. PICK new : new = Append(q, y)
  OBVIOUS
<1>4. /\ more \in Seq(S) /\ new \in Seq(S)
      /\ Len(more) = n /\ Len(new) = n /\ n \in 1..Len(more)
      /\ DOMAIN more = 1..n
      /\ \A i \in 1..n : i # n => more[i] = q[i] /\ new[i] = q[i]
      /\ new[n] = y
  BY <1>1, <1>2, <1>3
<1>5. PICK cut : cut = [more EXCEPT ![n] = y]
  OBVIOUS
<1>6. cut \in Seq(S)
  BY <1>4, <1>5, OneReplaced
<1>7. DOMAIN cut = 1..n /\ \A i \in 1..n : cut[i] = new[i]
  BY <1>4, <1>5
<1>8. Len(cut) = n
  BY <1>6, <1>7, LenProperties
<1>9. cut = new
  BY <1>4, <1>6, <1>7, <1>8, SeqEqual
<1>. QED  BY <1>2, <1>3, <1>4, <1>5, <1>9

\* Of a frame behind whole ones a restart reads everything or nothing.
LEMMA AllOrNothing ==
    ASSUME HeaderInv, journal.base \in Nat,
           NEW frames \in Seq(Frame), AllWhole(frames),
           NEW frame \in Frame, journal.frames = Append(frames, frame),
           NEW outcome \in Outcomes, NEW left, left = After(outcome)
    PROVE  /\ left.base = journal.base
           /\ CommandsIn(left.frames) \in
                 {CommandsIn(journal.frames), CommandsIn(frames)}
<1> DEFINE n == Len(journal.frames)
<1>1. /\ journal = [header |-> journal.header, base |-> journal.base,
                    frames |-> journal.frames]
      /\ n = Len(frames) + 1
      /\ n # 0
  BY DEF HeaderInv, FilesOK
<1>2. outcome \in {"whole", "lost", "torn"}
  BY DEF Outcomes
<1>3. CASE outcome = "whole"
  BY <1>3 DEF After
<1>4. CASE outcome = "lost"
  <2>1. PICK kept : kept = SubSeq(journal.frames, 1, n - 1)
    OBVIOUS
  <2>2. left = [journal EXCEPT !.frames = kept]
    BY <1>1, <1>4, <2>1 DEF After
  <2>3. left.base = journal.base /\ left.frames = kept
    BY <1>1, <2>2
  <2>4. kept = frames
    BY <2>1, DropLast
  <2>. QED  BY <2>3, <2>4
<1>5. CASE outcome = "torn"
  <2>1. PICK torn : torn = [frame EXCEPT !.whole = FALSE]
    OBVIOUS
  <2>2. torn \in Frame /\ ~torn.whole
    BY <2>1 DEF Frame
  <2>3. PICK cut : cut = [journal.frames EXCEPT ![n].whole = FALSE]
    OBVIOUS
  <2>4. left = [journal EXCEPT !.frames = cut]
    BY <1>1, <1>5, <2>3 DEF After
  <2>5. left.base = journal.base /\ left.frames = cut
    BY <1>1, <2>4
  <2>6. journal.frames[n] = frame
    BY <1>1
  <2>7. cut = [journal.frames EXCEPT ![n] = torn]
    BY <2>1, <2>3, <2>6
  <2>8. cut = Append(frames, torn)
    BY <2>2, <2>7, ReplaceLast
  <2>. QED  BY <2>2, <2>5, <2>8, TornFrameAddsNothing
<1>. QED  BY <1>2, <1>3, <1>4, <1>5

----------------------------------------------------------------------------
(* Where the two files are while a call or a checkpoint is under way *)

PlacesOK == pc \in {"down", "header", "idle", "written", "synced", "rotate"}

StateTyped ==
    /\ journal.base \in Nat
    /\ snap.commands \in Seq(Nat)
    /\ clob \in Seq(Nat)
    /\ batch \in Seq(Nat)
    /\ promised \in Seq(Nat)
    /\ PlacesOK

\* The number of the first command a segment with these frames has not.
Logged(base, frames) == base + Len(CommandsIn(frames))

\* The frame at the end is the batch of this call, and without it a restart
\* finds the running state.
JustWritten ==
    \E frames \in Seq(Frame) :
        /\ journal.frames = Append(frames, WholeFrame(batch))
        /\ AllWhole(frames)
        /\ Logged(journal.base, frames) = Len(clob)
        /\ RecoveredFrom(snap.commands, journal.base, frames) = clob

WhereStateIs ==
    /\ pc # "down" => promised = clob
    /\ pc = "rotate" => snap.commands = clob /\ block = <<>>
    /\ pc = "synced" => block = <<>>
    /\ ~misplaced =>
          /\ pc = "down" => IsPrefix(promised, Recovered)
          /\ pc \in {"header", "rotate"} => Recovered = clob
          /\ pc = "idle" => Recovered \in {clob, clob \o block}
          /\ pc = "written" => block = batch /\ cached /\ JustWritten
          /\ pc = "synced" => Recovered = clob \o batch

StateInv == HeaderInv /\ StateTyped /\ WhereStateIs

LEMMA RecoveredIsTyped ==
    StateInv => Recovered \in Seq(Nat)
<1>. SUFFICES ASSUME StateInv
              PROVE  Recovered \in Seq(Nat)
  OBVIOUS
<1>1. PICK saved \in Seq(Nat), base \in Nat, frames \in Seq(Frame) :
         saved = snap.commands /\ base = journal.base /\ frames = journal.frames
  BY DEF StateInv, StateTyped, HeaderInv, FilesOK
<1>2. RecoveredFrom(saved, base, frames) \in Seq(Nat)
  BY RecoveredTyped
<1>. QED  BY <1>1, <1>2, RecoveredReads

LEMMA RecoveredNext ==
    Recovered' = RecoveredFrom(snap'.commands, journal'.base, journal'.frames)
BY DEF Recovered, RecoveredFrom, SegmentCommands

LEMMA RecoveredStays ==
    ASSUME snap' = snap, journal' = journal
    PROVE  Recovered' = Recovered
BY RecoveredNext, RecoveredReads

\* Once it is written, the frame is all a restart adds to the running state.
LEMMA WrittenReads ==
    ASSUME StateInv, ~misplaced, pc = "written"
    PROVE  Recovered = clob \o batch
<1>1. PICK frames \in Seq(Frame) :
        /\ journal.frames = Append(frames, WholeFrame(batch))
        /\ AllWhole(frames)
        /\ Logged(journal.base, frames) = Len(clob)
        /\ RecoveredFrom(snap.commands, journal.base, frames) = clob
  BY DEF StateInv, WhereStateIs, JustWritten
<1>2. PICK saved \in Seq(Nat), base \in Nat, commands \in Seq(Nat) :
         saved = snap.commands /\ base = journal.base /\ commands = batch
  BY DEF StateInv, StateTyped
<1>3. base + Len(CommandsIn(frames)) = Len(RecoveredFrom(saved, base, frames))
  BY <1>1, <1>2 DEF Logged
<1>4. RecoveredFrom(saved, base, Append(frames, WholeFrame(commands))) =
         RecoveredFrom(saved, base, frames) \o commands
  BY <1>1, <1>3, FrameContinues
<1>. QED  BY <1>1, <1>2, <1>4, RecoveredReads

\* A frame that was written and not synced is there after a crash, or the
\* restart finds the running state without it.
LEMMA WrittenOrNot ==
    ASSUME StateInv, ~misplaced, pc = "written", snap' = snap,
           NEW outcome \in Outcomes, journal' = After(outcome)
    PROVE  Recovered' \in {clob, clob \o batch}
<1>1. PICK frames \in Seq(Frame) :
        /\ journal.frames = Append(frames, WholeFrame(batch))
        /\ AllWhole(frames)
        /\ RecoveredFrom(snap.commands, journal.base, frames) = clob
  BY DEF StateInv, WhereStateIs, JustWritten
<1>2. WholeFrame(batch) \in Frame
  BY DEF WholeFrame, Frame, StateInv, StateTyped
<1>3. HeaderInv /\ journal.base \in Nat
  BY DEF StateInv, StateTyped
<1>4. PICK left : left = journal'
  OBVIOUS
<1>5. PICK frame \in Frame : frame = WholeFrame(batch)
  BY <1>2
<1>6. left = After(outcome) /\ journal.frames = Append(frames, frame)
  BY <1>1, <1>4, <1>5
<1>7. /\ left.base = journal.base
      /\ CommandsIn(left.frames) \in
            {CommandsIn(journal.frames), CommandsIn(frames)}
  BY <1>1, <1>3, <1>6, AllOrNothing
<1>8. RecoveredFrom(snap.commands, left.base, left.frames) \in
         {RecoveredFrom(snap.commands, journal.base, journal.frames),
          RecoveredFrom(snap.commands, journal.base, frames)}
  BY <1>7 DEF RecoveredFrom
<1>9. Recovered = clob \o batch
  BY WrittenReads
<1>. QED  BY <1>1, <1>4, <1>8, <1>9, RecoveredNext, RecoveredReads

----------------------------------------------------------------------------
(* Types *)

LEMMA CutBase ==
    ASSUME HeaderInv, journal.base \in Nat,
           IF cached THEN \E outcome \in Outcomes : journal' = After(outcome)
           ELSE UNCHANGED journal
    PROVE  journal'.base \in Nat
<1>1. CASE ~cached
  BY <1>1
<1>2. CASE cached
  <2>1. PICK outcome \in Outcomes : journal' = After(outcome)
    BY <1>2
  <2>2. PICK left : left = journal'
    OBVIOUS
  <2>3. CASE journal.frames # <<>>
    <3>1. left.base = journal.base
      BY <2>1, <2>2, <2>3, AfterKeeps DEF HeaderInv
    <3>. QED  BY <2>2, <3>1
  <2>4. CASE journal.frames = <<>>
    <3>1. outcome \in {"whole", "lost", "torn"}
      BY DEF Outcomes
    <3>2. Len(journal.frames) = 0
      BY <2>4
    <3>. QED  BY <2>1, <3>1, <3>2 DEF After, NoFile
  <2>. QED  BY <2>3, <2>4
<1>. QED  BY <1>1, <1>2

LEMMA TypesKept ==
    ASSUME StateInv, [Next]_vars
    PROVE  StateTyped'
<1>. USE DEF StateTyped, PlacesOK
<1>1. StateTyped /\ HeaderInv /\ Recovered \in Seq(Nat)
  BY RecoveredIsTyped DEF StateInv
<1>2. <<>> \in Seq(Nat)
  OBVIOUS
<1>3. \A s \in Seq(Nat) : Len(s) \in Nat
  OBVIOUS
<1>4. CASE Open
  BY <1>1, <1>2, <1>3, <1>4 DEF Open, Segment
<1>5. CASE SyncHeader
  BY <1>1, <1>5 DEF SyncHeader
<1>6. ASSUME NEW commands \in Seq(Nat), WriteFrame(commands)
      PROVE  StateTyped'
  <2>1. journal'.base = journal.base
    <3>1. journal = [header |-> journal.header, base |-> journal.base,
                     frames |-> journal.frames]
      BY <1>1 DEF HeaderInv, FilesOK
    <3>2. PICK frames : journal' = IF attached
                                   THEN [journal EXCEPT !.frames = frames]
                                   ELSE journal
      BY <1>6 DEF WriteFrame
    <3>. QED  BY <3>1, <3>2
  <2>. QED  BY <1>1, <1>6, <2>1 DEF WriteFrame
<1>7. CASE \E commands \in Batches : SubmitBatch(commands)
  <2>1. PICK commands \in Batches : SubmitBatch(commands)
    BY <1>7
  <2>2. PICK k \in 1..MaxBatch : commands = [i \in 1..k |-> submitted + i]
    BY DEF Batches
  <2>3. submitted \in Nat /\ k \in Nat
    BY <1>1, FaultAssumption DEF HeaderInv, FilesOK
  <2>4. commands \in Seq(Nat) /\ WriteFrame(commands)
    BY <2>1, <2>2, <2>3 DEF SubmitBatch
  <2>. QED  BY <1>6, <2>4
<1>8. CASE Flush
  BY <1>2, <1>6, <1>8 DEF Flush
<1>9. CASE SyncFrame
  BY <1>1, <1>9 DEF SyncFrame
<1>10. CASE Execute
  <2>1. clob \o batch \in Seq(Nat)
    BY <1>1, ConcatProperties
  <2>. QED  BY <1>1, <1>2, <1>10, <2>1 DEF Execute
<1>11. CASE SaveSnapshot
  BY <1>1, <1>11 DEF SaveSnapshot
<1>12. CASE Rotate \/ ReopenFails
  BY <1>1, <1>3, <1>12
     DEF Rotate, ReopenFails, ReplaceSegment, Segment, BaseSeq
<1>13. CASE RotateFails
  BY <1>1, <1>13 DEF RotateFails
<1>14. CASE Crash
  <2>1. journal'.base \in Nat
    BY <1>1, <1>14, CutBase DEF Crash
  <2>. QED  BY <1>1, <1>2, <1>14, <2>1 DEF Crash
<1>15. CASE CommitFails
  <2>1. journal'.base \in Nat
    BY <1>1, <1>15, CutBase DEF CommitFails
  <2>. QED  BY <1>1, <1>2, <1>15, <2>1 DEF CommitFails
<1>16. CASE UNCHANGED vars
  BY <1>1, <1>16 DEF vars
<1>. QED  BY <1>4, <1>5, <1>7, <1>8, <1>9, <1>10, <1>11, <1>12, <1>13, <1>14,
             <1>15, <1>16 DEF Next

----------------------------------------------------------------------------
(* Every step leaves the running state where a restart finds it *)

LEMMA OpenFinds ==
    ASSUME StateInv, Open
    PROVE  WhereStateIs'
<1>1. /\ clob' = Recovered /\ promised' = Recovered
      /\ snap' = snap /\ pc' \in {"header", "idle"}
  BY DEF Open
<1>2. Recovered' = Recovered
  <2>1. CASE journal.header = "none"
    <3>1. journal.frames = <<>> /\ journal.base = 0 /\ snap.commands = <<>>
      BY <2>1 DEF StateInv, HeaderInv, FilesOK, NothingYet
    <3>2. Recovered = <<>>
      BY <3>1, NothingRecovered
    <3>3. journal'.base = 0 /\ journal'.frames = <<>> /\ snap'.commands = <<>>
      <4>1. journal' = Segment(Len(snap.commands))
        BY <2>1 DEF Open
      <4>2. Len(<<>>) = 0
        OBVIOUS
      <4>. QED  BY <1>1, <3>1, <4>1, <4>2 DEF Segment
    <3>4. RecoveredFrom(<<>>, 0, <<>>) = <<>>
      <4>1. <<>> \in Seq(Nat) /\ 0 <= Len(<<>>) /\ 0 \in Nat
        OBVIOUS
      <4>. QED  BY <4>1, FreshSegment
    <3>. QED  BY <3>2, <3>3, <3>4, RecoveredNext
  <2>2. CASE journal.header # "none"
    BY <1>1, <2>2, RecoveredStays DEF Open
  <2>. QED  BY <2>1, <2>2
<1>. QED  BY <1>1, <1>2 DEF WhereStateIs

LEMMA WriteFinds ==
    ASSUME StateInv, NEW commands \in Seq(Nat), WriteFrame(commands)
    PROVE  WhereStateIs'
<1>1. /\ pc = "idle" /\ pc' = "written" /\ batch' = commands
      /\ block' = block \o commands /\ cached' = attached
      /\ misplaced' = (misplaced \/ ~WillBeRead)
      /\ UNCHANGED <<snap, clob, promised>>
  BY DEF WriteFrame
<1>2. promised' = clob'
  BY <1>1 DEF StateInv, WhereStateIs
<1>3. ASSUME ~misplaced'
      PROVE  block' = batch' /\ cached' /\ JustWritten'
  <2>1. /\ ~misplaced /\ attached /\ AllWhole(journal.frames) /\ block = <<>>
        /\ journal.base + Len(SegmentCommands) = Len(clob)
    BY <1>1, <1>3 DEF WillBeRead, AllWhole
  <2>2. block' = batch'
    BY <1>1, <2>1, ConcatEmptySeq
  <2>3. PICK frames \in Seq(Frame) : frames = journal.frames
    BY DEF StateInv, HeaderInv, FilesOK
  <2>4. PICK frame : frame = WholeFrame(commands)
    OBVIOUS
  <2>5. frame \in Frame
    BY <2>4 DEF WholeFrame, Frame
  <2>6. frames \o <<frame>> = Append(frames, frame)
    BY <2>3, <2>5
  <2>7. /\ journal'.base = journal.base
        /\ journal'.frames = Append(frames, frame)
    <3>1. journal' = [journal EXCEPT !.frames = frames \o <<frame>>]
      <4>1. block' = commands
        BY <1>1, <2>2
      <4>. QED  BY <2>1, <2>3, <2>4, <4>1 DEF WriteFrame, FramesOf
    <3>2. journal = [header |-> journal.header, base |-> journal.base,
                     frames |-> journal.frames]
      BY DEF StateInv, HeaderInv, FilesOK
    <3>. QED  BY <2>6, <3>1, <3>2
  <2>8. Logged(journal.base, frames) = Len(clob)
    BY <2>1, <2>3 DEF Logged, SegmentCommands
  <2>9. Recovered = clob
    <3>1. clob \o <<>> = clob
      BY ConcatEmptySeq DEF StateInv, StateTyped
    <3>. QED  BY <1>1, <2>1, <3>1 DEF StateInv, WhereStateIs
  <2>10. RecoveredFrom(snap.commands, journal.base, frames) = clob
    BY <2>3, <2>9, RecoveredReads
  <2>11. JustWritten'
    <3>1. /\ journal'.frames = Append(frames, WholeFrame(batch'))
          /\ AllWhole(frames)
          /\ Logged(journal'.base, frames) = Len(clob')
          /\ RecoveredFrom(snap'.commands, journal'.base, frames) = clob'
      BY <1>1, <2>1, <2>3, <2>4, <2>7, <2>8, <2>10
    <3>. QED  BY <3>1 DEF JustWritten
  <2>. QED  BY <1>1, <2>1, <2>2, <2>11
<1>. QED  BY <1>1, <1>2, <1>3 DEF WhereStateIs

\* The snapshot holds the whole running state.
LEMMA SaveFinds ==
    ASSUME StateInv, SaveSnapshot
    PROVE  WhereStateIs'
<1>1. /\ pc = "idle" /\ pc' = "rotate" /\ block = <<>> /\ block' = block
      /\ snap'.commands = clob
      /\ misplaced' = SegmentPastClob
      /\ UNCHANGED <<journal, clob, promised>>
  BY DEF SaveSnapshot
<1>2. promised' = clob'
  BY <1>1 DEF StateInv, WhereStateIs
<1>3. ASSUME ~misplaced'
      PROVE  Recovered' = clob'
  <2>1. PICK frames \in Seq(Frame), base \in Nat, saved \in Seq(Nat) :
           frames = journal.frames /\ base = journal.base /\ saved = clob
    BY DEF StateInv, StateTyped, HeaderInv, FilesOK
  <2>2. base + Len(CommandsIn(frames)) <= Len(saved)
    <3>1. ~(base + Len(CommandsIn(frames)) > Len(saved))
      BY <1>1, <1>3, <2>1 DEF SegmentPastClob, SegmentCommands
    <3>2. Len(CommandsIn(frames)) \in Nat /\ Len(saved) \in Nat
      BY CommandsTyped
    <3>. QED  BY <3>1, <3>2
  <2>3. RecoveredFrom(saved, base, frames) = saved
    BY <2>2, SnapshotCoversSegment
  <2>. QED  BY <1>1, <2>1, <2>3, RecoveredNext
<1>. QED  BY <1>1, <1>2, <1>3 DEF WhereStateIs

\* The fresh segment starts where the snapshot ends.
LEMMA ReplaceFinds ==
    ASSUME StateInv, ReplaceSegment
    PROVE  WhereStateIs'
<1>1. /\ pc = "rotate" /\ pc' = "idle"
      /\ journal'.base = Len(clob) /\ journal'.frames = <<>>
      /\ UNCHANGED <<block, snap, clob, promised>>
  BY DEF ReplaceSegment, Segment, BaseSeq
<1>2. promised' = clob' /\ snap'.commands = clob
  BY <1>1 DEF StateInv, WhereStateIs
<1>3. Recovered' = clob'
  <2>1. PICK saved \in Seq(Nat) : saved = clob
    BY DEF StateInv, StateTyped
  <2>2. PICK base \in Nat : base = Len(saved)
    OBVIOUS
  <2>3. RecoveredFrom(saved, base, <<>>) = saved
    BY <2>2, FreshSegment
  <2>. QED  BY <1>1, <1>2, <2>1, <2>2, <2>3, RecoveredNext
<1>. QED  BY <1>1, <1>2, <1>3 DEF WhereStateIs

LEMMA CrashFinds ==
    ASSUME StateInv, Crash
    PROVE  WhereStateIs'
<1>1. /\ pc # "down" /\ pc' = "down"
      /\ UNCHANGED <<snap, misplaced, promised>>
      /\ IF cached THEN \E outcome \in Outcomes : journal' = After(outcome)
         ELSE UNCHANGED journal
  BY DEF Crash
<1>2. promised = clob
  BY <1>1 DEF StateInv, WhereStateIs
<1>3. clob \in Seq(Nat) /\ block \in Seq(Nat) /\ batch \in Seq(Nat)
  BY DEF StateInv, StateTyped, HeaderInv, FilesOK
<1>4. ASSUME ~misplaced
      PROVE  IsPrefix(promised, Recovered')
  <2>1. CASE pc = "header"
    <3>1. promised = <<>>
      BY <2>1 DEF StateInv, HeaderInv, NothingYet
    <3>2. Recovered' \in Seq(Nat)
      <4>1. journal'.base \in Nat /\ journal'.frames \in Seq(Frame)
        BY <1>1, CutBase, CutKeeps DEF StateInv, StateTyped
      <4>2. PICK saved \in Seq(Nat), base \in Nat, frames \in Seq(Frame) :
               /\ saved = snap'.commands
               /\ base = journal'.base
               /\ frames = journal'.frames
        BY <1>1, <4>1 DEF StateInv, StateTyped
      <4>3. RecoveredFrom(saved, base, frames) \in Seq(Nat)
        BY RecoveredTyped
      <4>. QED  BY <4>2, <4>3, RecoveredNext
    <3>. QED  BY <3>1, <3>2, PrefixFacts
  <2>2. CASE pc = "written"
    <3>1. cached
      BY <1>4, <2>2 DEF StateInv, WhereStateIs
    <3>2. PICK outcome \in Outcomes : journal' = After(outcome)
      BY <1>1, <3>1
    <3>3. Recovered' \in {clob, clob \o batch}
      BY <1>1, <1>4, <2>2, <3>2, WrittenOrNot
    <3>. QED  BY <1>2, <1>3, <3>3, PrefixFacts
  <2>3. CASE pc \in {"idle", "synced", "rotate"}
    <3>1. Recovered' = Recovered
      <4>1. ~cached
        BY <2>3 DEF StateInv, HeaderInv, OnlyTheLastWrite
      <4>. QED  BY <1>1, <4>1, RecoveredStays
    <3>2. Recovered \in {clob, clob \o block, clob \o batch}
      BY <1>4, <2>3 DEF StateInv, WhereStateIs
    <3>. QED  BY <1>2, <1>3, <3>1, <3>2, PrefixFacts
  <2>. QED  BY <1>1, <2>1, <2>2, <2>3 DEF StateInv, StateTyped, PlacesOK
<1>. QED  BY <1>1, <1>4 DEF WhereStateIs

LEMMA CommitFailsFinds ==
    ASSUME StateInv, CommitFails
    PROVE  WhereStateIs'
<1>1. /\ pc = "written" /\ pc' = "idle"
      /\ UNCHANGED <<block, snap, misplaced, clob, promised>>
      /\ IF cached THEN \E outcome \in Outcomes : journal' = After(outcome)
         ELSE UNCHANGED journal
  BY DEF CommitFails
<1>2. promised' = clob'
  BY <1>1 DEF StateInv, WhereStateIs
<1>3. ASSUME ~misplaced
      PROVE  Recovered' \in {clob, clob \o block}
  <2>1. block = batch /\ cached
    BY <1>1, <1>3 DEF StateInv, WhereStateIs
  <2>2. PICK outcome \in Outcomes : journal' = After(outcome)
    BY <1>1, <2>1
  <2>. QED  BY <1>1, <1>3, <2>1, <2>2, WrittenOrNot
<1>. QED  BY <1>1, <1>2, <1>3 DEF WhereStateIs

LEMMA StateKept == StateInv /\ [Next]_vars => StateInv'
<1>. SUFFICES ASSUME StateInv, [Next]_vars
              PROVE  StateInv'
  OBVIOUS
<1>1. HeaderInv' /\ StateTyped'
  BY HeaderKept, TypesKept DEF StateInv
<1>2. CASE SyncHeader
  <2>1. Recovered' = Recovered
    BY <1>2, RecoveredStays DEF SyncHeader
  <2>. QED  BY <1>1, <1>2, <2>1 DEF SyncHeader, StateInv, WhereStateIs
<1>3. CASE \E commands \in Batches : SubmitBatch(commands)
  <2>1. PICK commands \in Batches : SubmitBatch(commands)
    BY <1>3
  <2>2. PICK k \in 1..MaxBatch : commands = [i \in 1..k |-> submitted + i]
    BY DEF Batches
  <2>3. submitted \in Nat /\ k \in Nat
    BY FaultAssumption DEF StateInv, HeaderInv, FilesOK
  <2>4. commands \in Seq(Nat) /\ WriteFrame(commands)
    BY <2>1, <2>2, <2>3 DEF SubmitBatch
  <2>. QED  BY <1>1, <2>4, WriteFinds DEF StateInv
<1>4. CASE Flush
  <2>1. <<>> \in Seq(Nat) /\ WriteFrame(<<>>)
    BY <1>4 DEF Flush
  <2>. QED  BY <1>1, <2>1, WriteFinds DEF StateInv
<1>5. CASE SyncFrame
  <2>1. Recovered' = Recovered
    BY <1>5, RecoveredStays DEF SyncFrame
  <2>2. ~misplaced => Recovered = clob \o batch
    BY <1>5, WrittenReads DEF SyncFrame
  <2>. QED  BY <1>1, <1>5, <2>1, <2>2 DEF SyncFrame, StateInv, WhereStateIs
<1>6. CASE Execute
  <2>1. Recovered' = Recovered
    BY <1>6, RecoveredStays DEF Execute
  <2>2. /\ pc = "synced" /\ pc' = "idle" /\ clob' = clob \o batch
        /\ promised' = clob' /\ misplaced' = misplaced
    BY <1>6 DEF Execute, Durable
  <2>. QED  BY <1>1, <2>1, <2>2 DEF StateInv, WhereStateIs
<1>7. CASE RotateFails
  <2>1. Recovered' = Recovered
    BY <1>7, RecoveredStays DEF RotateFails
  <2>. QED  BY <1>1, <1>7, <2>1 DEF RotateFails, StateInv, WhereStateIs
<1>8. CASE Rotate \/ ReopenFails
  BY <1>1, <1>8, ReplaceFinds DEF Rotate, ReopenFails, StateInv
<1>9. CASE UNCHANGED vars
  <2>1. Recovered' = Recovered
    BY <1>9, RecoveredStays DEF vars
  <2>2. JustWritten => JustWritten'
    BY <1>9 DEF vars, JustWritten
  <2>. QED  BY <1>1, <1>9, <2>1, <2>2 DEF vars, StateInv, WhereStateIs
<1>10. CASE Open \/ SaveSnapshot \/ Crash \/ CommitFails
  BY <1>1, <1>10, OpenFinds, SaveFinds, CrashFinds, CommitFailsFinds
     DEF StateInv
<1>. QED  BY <1>2, <1>3, <1>4, <1>5, <1>6, <1>7, <1>8, <1>9, <1>10 DEF Next

LEMMA StateFromStart == Init => StateInv
<1>. SUFFICES ASSUME Init
              PROVE  StateInv
  OBVIOUS
<1>1. <<>> \in Seq(Nat) /\ <<>> \in Seq(Frame)
  OBVIOUS
<1>2. Recovered = <<>>
  BY NothingRecovered DEF Init, NoFile, NoSnapshot
<1>3. HeaderInv
  BY <1>1 DEF Init, NoFile, NoSnapshot, HeaderInv, FilesOK,
              OnlyTheLastWrite, NothingYet
<1>4. StateTyped
  BY <1>1 DEF Init, NoFile, NoSnapshot, StateTyped, PlacesOK
<1>5. IsPrefix(<<>>, <<>>)
  BY <1>1, PrefixFacts
<1>6. WhereStateIs
  BY <1>2, <1>5 DEF Init, WhereStateIs
<1>. QED  BY <1>3, <1>4, <1>6 DEF StateInv

\* Under every set of faults the state between any two steps of a submit, a
\* checkpoint, a start or a crash (persist.rs, wal.rs) is one of a few: what
\* is in the two files is what the step counter says it is.
THEOREM StateIsFound == Spec => []StateInv
BY StateFromStart, StateKept, PTL DEF Spec

----------------------------------------------------------------------------
(* What it means for those who use it, under every set of faults *)

\* An acknowledged command is lost only when its frame, or one before it,
\* was misplaced: crashes, torn writes, commits that fail and rotations that
\* fail half-way lose nothing by themselves.
THEOREM LossNeedsMisplacing == Spec => []LostOnlyIfMisplaced
<1>1. StateInv => LostOnlyIfMisplaced
  <2>. SUFFICES ASSUME StateInv, ~misplaced
                PROVE  IsPrefix(promised, Recovered)
    BY DEF LostOnlyIfMisplaced, AckedSurvives
  <2>1. clob \in Seq(Nat) /\ block \in Seq(Nat) /\ batch \in Seq(Nat)
    BY DEF StateInv, StateTyped, HeaderInv, FilesOK
  <2>2. CASE pc = "down"
    BY <2>2 DEF StateInv, WhereStateIs
  <2>3. CASE pc # "down"
    <3>1. promised = clob
      BY <2>3 DEF StateInv, WhereStateIs
    <3>2. pc # "written" => Recovered \in {clob, clob \o block, clob \o batch}
      BY <2>3 DEF StateInv, StateTyped, PlacesOK, WhereStateIs
    <3>3. pc = "written" => Recovered = clob \o batch
      BY WrittenReads
    <3>. QED  BY <2>1, <3>1, <3>2, <3>3, PrefixFacts
  <2>. QED  BY <2>2, <2>3
<1>. QED  BY <1>1, StateIsFound, PTL

\* submit_batch is all or nothing across a crash: a restart finds the
\* running state with the whole call behind it or with none of it.
THEOREM BatchesAreWhole == Spec => []CallsAreWhole
<1>1. StateInv => CallsAreWhole
  <2>. SUFFICES ASSUME StateInv, ~misplaced, pc # "down"
                PROVE  Recovered \in {clob, clob \o block, clob \o batch}
    BY DEF CallsAreWhole
  <2>1. pc = "written" => Recovered = clob \o batch
    BY WrittenReads
  <2>. QED  BY <2>1 DEF StateInv, StateTyped, PlacesOK, WhereStateIs
<1>. QED  BY <1>1, StateIsFound, PTL

\* A checkpoint whose snapshot is in place has repaired whatever the faults
\* did to the journal, unless the segment goes past the running state.
THEOREM CheckpointRepairs == Spec => []CheckpointHeals
<1>1. StateInv => CheckpointHeals
  <2>. SUFFICES ASSUME StateInv, pc = "rotate", ~SegmentPastClob
                PROVE  Recovered = clob
    BY DEF CheckpointHeals
  <2>1. snap.commands = clob
    BY DEF StateInv, WhereStateIs
  <2>2. PICK frames \in Seq(Frame), base \in Nat, saved \in Seq(Nat) :
           frames = journal.frames /\ base = journal.base /\ saved = clob
    BY DEF StateInv, StateTyped, HeaderInv, FilesOK
  <2>3. base + Len(CommandsIn(frames)) <= Len(saved)
    <3>1. ~(base + Len(CommandsIn(frames)) > Len(saved))
      BY <2>2 DEF SegmentPastClob, SegmentCommands
    <3>2. Len(CommandsIn(frames)) \in Nat /\ Len(saved) \in Nat
      BY CommandsTyped
    <3>. QED  BY <3>1, <3>2
  <2>4. RecoveredFrom(saved, base, frames) = saved
    BY <2>3, SnapshotCoversSegment
  <2>. QED  BY <2>1, <2>2, <2>4, RecoveredReads
<1>. QED  BY <1>1, StateIsFound, PTL

----------------------------------------------------------------------------
(* Without other faults than crashes: the numbers of the frames continue    *)
(* each other and the snapshot is never ahead of them.                      *)

Calm ==
    /\ attached /\ ~misplaced
    /\ AllWhole(journal.frames)
    /\ journal.base <= Len(snap.commands)
    /\ Len(snap.commands) <= Logged(journal.base, journal.frames)
    /\ pc \in {"header", "idle", "rotate"} =>
          /\ block = <<>>
          /\ Logged(journal.base, journal.frames) = Len(clob)
    /\ pc \in {"written", "synced"} =>
          /\ batch # <<>>
          /\ Logged(journal.base, journal.frames) = Len(clob) + Len(batch)
    /\ pc = "header" => journal.frames = <<>> /\ snap.commands = <<>>

CalmInv == StateInv /\ Calm

LEMMA RecoveredLength ==
    ASSUME NEW saved \in Seq(Nat), NEW base \in Nat, NEW frames \in Seq(Frame),
           base <= Len(saved), Len(saved) <= Logged(base, frames)
    PROVE  Len(RecoveredFrom(saved, base, frames)) = Logged(base, frames)
<1>1. PICK logged \in Seq(Nat) : logged = CommandsIn(frames)
  BY CommandsTyped
<1>2. PICK l \in Nat, s \in Nat : l = Len(logged) /\ s = Len(saved)
  OBVIOUS
<1>3. PICK c : c = Covered(base, Len(saved))
  OBVIOUS
<1>4. c = IF s > base THEN s - base ELSE 0
  BY <1>2, <1>3, CoveredFacts
<1>5. s <= base + l /\ base <= s
  BY <1>1, <1>2 DEF Logged
<1>6. c \in Nat /\ c <= l /\ s + (l - c) = base + l
  BY <1>4, <1>5
<1>7. PICK rest : rest = SubSeq(logged, c + 1, l)
  OBVIOUS
<1>8. rest \in Seq(Nat) /\ Len(rest) = l - c
  <2>1. \A i \in (c + 1)..l : logged[i] \in Nat
    BY <1>2, <1>6
  <2>2. rest \in Seq(Nat) /\ Len(rest) = IF c + 1 <= l THEN l - (c + 1) + 1 ELSE 0
    BY <1>2, <1>6, <1>7, <2>1, SubSeqProperties
  <2>. QED  BY <1>6, <2>2
<1>9. RecoveredFrom(saved, base, frames) = saved \o rest
  BY <1>1, <1>2, <1>3, <1>7 DEF RecoveredFrom
<1>10. Len(saved \o rest) = Len(saved) + Len(rest)
  BY <1>8, ConcatProperties
<1>. QED  BY <1>1, <1>2, <1>6, <1>8, <1>9, <1>10 DEF Logged

LEMMA LoggedTyped ==
    ASSUME NEW base \in Nat, NEW frames \in Seq(Frame)
    PROVE  Logged(base, frames) \in Nat /\ base <= Logged(base, frames)
<1>1. PICK l \in Nat : l = Len(CommandsIn(frames))
  BY CommandsTyped
<1>. QED  BY <1>1 DEF Logged

LEMMA CalmReads ==
    ASSUME CalmInv
    PROVE  /\ pc \in {"header", "idle", "rotate"} => Recovered = clob
           /\ pc \in {"written", "synced"} => Recovered = clob \o batch
<1>1. clob \o <<>> = clob
  BY ConcatEmptySeq DEF CalmInv, StateInv, StateTyped
<1>2. pc = "written" => Recovered = clob \o batch
  BY WrittenReads DEF CalmInv, Calm
<1>3. pc = "synced" => Recovered = clob \o batch
  BY DEF CalmInv, Calm, StateInv, WhereStateIs
<1>4. pc \in {"header", "rotate"} => Recovered = clob
  BY DEF CalmInv, Calm, StateInv, WhereStateIs
<1>5. pc = "idle" => Recovered = clob
  BY <1>1 DEF CalmInv, Calm, StateInv, WhereStateIs
<1>. QED  BY <1>2, <1>3, <1>4, <1>5

\* What a restart finds, step by step.
ReadsAsRun ==
    /\ pc \in {"header", "idle", "rotate"} => Recovered = clob
    /\ pc \in {"written", "synced"} => Recovered = clob \o batch
    /\ Recovered \in Seq(Nat)

LEMMA CalmReadsAsRun == CalmInv => ReadsAsRun
BY CalmReads, RecoveredIsTyped DEF CalmInv, ReadsAsRun

LEMMA OpenIsCalm ==
    ASSUME CalmInv, Open
    PROVE  Calm'
<1>1. /\ clob' = Recovered /\ snap' = snap /\ block' = <<>>
      /\ attached' /\ ~misplaced' /\ pc' \in {"header", "idle"}
  BY DEF Open
<1>2. CASE journal.header = "none"
  <2>1. snap.commands = <<>> /\ Recovered = <<>>
    <3>1. journal.frames = <<>> /\ journal.base = 0 /\ snap.commands = <<>>
      BY <1>2 DEF CalmInv, StateInv, HeaderInv, FilesOK, NothingYet
    <3>. QED  BY <3>1, NothingRecovered
  <2>2. journal'.base = 0 /\ journal'.frames = <<>>
    <3>1. journal' = Segment(Len(snap.commands))
      BY <1>2 DEF Open
    <3>2. Len(<<>>) = 0
      OBVIOUS
    <3>. QED  BY <2>1, <3>1, <3>2 DEF Segment
  <2>3. Logged(0, <<>>) = 0 /\ AllWhole(<<>>) /\ Len(<<>>) = 0
    <3>1. <<>> \in Seq(Nat) /\ 0 \in Nat /\ 0 <= Len(<<>>) /\ Len(<<>>) = 0
      OBVIOUS
    <3>2. Len(CommandsIn(<<>>)) = 0
      BY <3>1, FreshSegment
    <3>. QED  BY <3>1, <3>2 DEF Logged, AllWhole
  <2>. QED  BY <1>1, <2>1, <2>2, <2>3 DEF Calm
<1>3. CASE journal.header # "none"
  <2>1. journal' = journal /\ pc' = "idle"
    BY <1>3 DEF Open
  <2>2. PICK frames \in Seq(Frame), base \in Nat, saved \in Seq(Nat) :
           /\ frames = journal.frames /\ base = journal.base
           /\ saved = snap.commands
    BY DEF CalmInv, StateInv, StateTyped, HeaderInv, FilesOK
  <2>3. base <= Len(saved) /\ Len(saved) <= Logged(base, frames)
    BY <2>2 DEF CalmInv, Calm
  <2>4. Len(Recovered) = Logged(base, frames)
    BY <2>2, <2>3, RecoveredLength, RecoveredReads
  <2>. QED  BY <1>1, <2>1, <2>2, <2>4 DEF CalmInv, Calm
<1>. QED  BY <1>2, <1>3

LEMMA BatchIsCalm ==
    ASSUME CalmInv, NEW commands \in Seq(Nat), commands # <<>>,
           WriteFrame(commands)
    PROVE  Calm'
<1>1. /\ pc = "idle" /\ pc' = "written" /\ batch' = commands
      /\ block' = block \o commands
      /\ misplaced' = (misplaced \/ ~WillBeRead)
      /\ UNCHANGED <<snap, clob, attached>>
  BY DEF WriteFrame
<1>2. PICK frames \in Seq(Frame), base \in Nat :
         frames = journal.frames /\ base = journal.base
  BY DEF CalmInv, StateInv, StateTyped, HeaderInv, FilesOK
<1>3. /\ attached /\ ~misplaced /\ AllWhole(frames) /\ block = <<>>
      /\ Logged(base, frames) = Len(clob)
      /\ base <= Len(snap.commands)
      /\ Len(snap.commands) <= Logged(base, frames)
  BY <1>1, <1>2 DEF CalmInv, Calm
<1>4. WillBeRead
  BY <1>2, <1>3 DEF WillBeRead, AllWhole, Logged, SegmentCommands
<1>5. PICK more : more = Append(frames, WholeFrame(commands))
  OBVIOUS
<1>6. journal'.base = base /\ journal'.frames = more
  <2>1. block' = commands
    BY <1>1, <1>3, ConcatEmptySeq
  <2>2. PICK frame : frame = WholeFrame(commands)
    OBVIOUS
  <2>3. frame \in Frame
    BY <2>2 DEF WholeFrame, Frame
  <2>4. frames \o <<frame>> = Append(frames, frame)
    BY <2>3
  <2>5. journal' = [journal EXCEPT !.frames = frames \o <<frame>>]
    BY <1>2, <1>3, <2>1, <2>2 DEF WriteFrame, FramesOf
  <2>6. journal = [header |-> journal.header, base |-> journal.base,
                   frames |-> journal.frames]
    BY DEF CalmInv, StateInv, HeaderInv, FilesOK
  <2>. QED  BY <1>2, <1>5, <2>2, <2>4, <2>5, <2>6
<1>7. PICK logged \in Seq(Nat) : logged = CommandsIn(frames)
  BY CommandsTyped
<1>8. AllWhole(more) /\ CommandsIn(more) = logged \o commands
  BY <1>3, <1>5, <1>7, OneMoreFrame
<1>9. Logged(base, more) = Logged(base, frames) + Len(commands)
  <2>1. Len(logged \o commands) = Len(logged) + Len(commands)
    BY ConcatProperties
  <2>2. PICK l \in Nat, m \in Nat : l = Len(logged) /\ m = Len(commands)
    OBVIOUS
  <2>3. Logged(base, frames) = base + l /\ Logged(base, more) = base + (l + m)
    BY <1>7, <1>8, <2>1, <2>2 DEF Logged
  <2>. QED  BY <2>2, <2>3
<1>10. Len(snap.commands) <= Logged(base, more)
  <2>1. PICK l \in Nat : l = Logged(base, frames)
    BY LoggedTyped
  <2>2. Len(snap.commands) \in Nat /\ Len(commands) \in Nat
    BY DEF CalmInv, StateInv, StateTyped
  <2>. QED  BY <1>3, <1>9, <2>1, <2>2
<1>11. Logged(base, more) = Len(clob) + Len(commands)
  BY <1>3, <1>9
<1>. QED  BY <1>1, <1>3, <1>4, <1>6, <1>8, <1>10, <1>11 DEF Calm

LEMMA SaveIsCalm ==
    ASSUME CalmInv, SaveSnapshot
    PROVE  Calm'
<1>1. /\ pc = "idle" /\ pc' = "rotate" /\ block' = block
      /\ snap'.commands = clob /\ misplaced' = SegmentPastClob
      /\ UNCHANGED <<journal, clob, attached>>
  BY DEF SaveSnapshot
<1>2. PICK frames \in Seq(Frame), base \in Nat, l \in Nat :
         frames = journal.frames /\ base = journal.base /\ l = Len(clob)
  <2>1. clob \in Seq(Nat) /\ journal.frames \in Seq(Frame)
    BY DEF CalmInv, StateInv, StateTyped, HeaderInv, FilesOK
  <2>2. Len(clob) \in Nat /\ journal.base \in Nat
    BY <2>1 DEF CalmInv, StateInv, StateTyped
  <2>. QED  BY <2>1, <2>2
<1>3. /\ attached /\ AllWhole(frames) /\ block = <<>>
      /\ Logged(base, frames) = l
  BY <1>1, <1>2 DEF CalmInv, Calm
<1>4. base <= l
  BY <1>3, LoggedTyped
<1>5. ~SegmentPastClob
  BY <1>2, <1>3 DEF SegmentPastClob, SegmentCommands, Logged
<1>. QED  BY <1>1, <1>2, <1>3, <1>4, <1>5 DEF Calm

LEMMA ReplaceIsCalm ==
    ASSUME CalmInv, Rotate
    PROVE  Calm'
<1>1. /\ pc = "rotate" /\ pc' = "idle" /\ attached' /\ ~misplaced'
      /\ journal'.base = Len(clob) /\ journal'.frames = <<>>
      /\ UNCHANGED <<block, snap, clob>>
  BY DEF Rotate, ReplaceSegment, Segment, BaseSeq
<1>2. block = <<>> /\ snap.commands = clob
  BY <1>1 DEF CalmInv, StateInv, WhereStateIs
<1>3. PICK l \in Nat : l = Len(clob)
  BY DEF CalmInv, StateInv, StateTyped
<1>4. Logged(l, <<>>) = l /\ AllWhole(<<>>)
  <2>1. <<>> \in Seq(Nat) /\ 0 <= Len(<<>>) /\ 0 \in Nat
    OBVIOUS
  <2>2. Len(CommandsIn(<<>>)) = 0
    BY <2>1, FreshSegment
  <2>. QED  BY <2>2 DEF Logged, AllWhole
<1>. QED  BY <1>1, <1>2, <1>3, <1>4 DEF Calm

\* What a crash takes of the last frame leaves the files in order.
LEMMA CrashIsCalm ==
    ASSUME Faults = {}, CalmInv, Crash
    PROVE  Calm'
<1>1. /\ pc # "down" /\ pc' = "down"
      /\ UNCHANGED <<snap, attached, misplaced>>
      /\ IF cached THEN \E outcome \in Outcomes : journal' = After(outcome)
         ELSE UNCHANGED journal
  BY DEF Crash
<1>2. CASE ~cached
  BY <1>1, <1>2 DEF CalmInv, Calm
<1>3. CASE cached
  <2>1. PICK outcome \in {"whole", "lost"} : journal' = After(outcome)
    BY <1>1, <1>3 DEF Outcomes
  <2>2. CASE outcome = "whole"
    <3>1. journal' = journal
      BY <2>1, <2>2 DEF After
    <3>. QED  BY <1>1, <3>1 DEF CalmInv, Calm
  <2>3. CASE outcome = "lost" /\ pc = "header"
    <3>1. journal.frames = <<>> /\ snap.commands = <<>>
      BY <2>3 DEF CalmInv, Calm
    <3>2. journal'.base = 0 /\ journal'.frames = <<>>
      <4>1. Len(journal.frames) = 0
        BY <3>1
      <4>. QED  BY <2>1, <2>3, <4>1 DEF After, NoFile
    <3>3. Logged(0, <<>>) = 0 /\ AllWhole(<<>>) /\ Len(<<>>) = 0
      <4>1. <<>> \in Seq(Nat) /\ 0 <= Len(<<>>) /\ 0 \in Nat /\ Len(<<>>) = 0
        OBVIOUS
      <4>2. Len(CommandsIn(<<>>)) = 0
        BY <4>1, FreshSegment
      <4>. QED  BY <4>1, <4>2 DEF Logged, AllWhole
    <3>. QED  BY <1>1, <3>1, <3>2, <3>3 DEF CalmInv, Calm
  <2>4. CASE outcome = "lost" /\ pc = "written"
    <3>1. PICK frames \in Seq(Frame) :
            /\ journal.frames = Append(frames, WholeFrame(batch))
            /\ AllWhole(frames)
            /\ Logged(journal.base, frames) = Len(clob)
            /\ RecoveredFrom(snap.commands, journal.base, frames) = clob
      BY <2>4 DEF CalmInv, Calm, StateInv, WhereStateIs, JustWritten
    <3>2. PICK frame : frame = WholeFrame(batch)
      OBVIOUS
    <3>3. frame \in Frame
      BY <3>2 DEF WholeFrame, Frame, CalmInv, StateInv, StateTyped
    <3>4. journal'.base = journal.base /\ journal'.frames = frames
      <4>1. PICK kept :
               kept = SubSeq(journal.frames, 1, Len(journal.frames) - 1)
        OBVIOUS
      <4>2. kept = frames
        BY <3>1, <3>2, <3>3, <4>1, DropLast
      <4>3. Len(journal.frames) # 0
        BY <3>1, <3>2, <3>3
      <4>4. journal' = [journal EXCEPT !.frames = kept]
        BY <2>1, <2>4, <4>1, <4>3 DEF After
      <4>5. journal = [header |-> journal.header, base |-> journal.base,
                       frames |-> journal.frames]
        BY DEF CalmInv, StateInv, HeaderInv, FilesOK
      <4>. QED  BY <4>2, <4>4, <4>5
    <3>5. Len(snap.commands) <= Len(clob)
      <4>1. PICK saved \in Seq(Nat), base \in Nat :
               saved = snap.commands /\ base = journal.base
        BY DEF CalmInv, StateInv, StateTyped
      <4>2. Len(saved) <= Len(RecoveredFrom(saved, base, frames))
        BY RecoveredTyped
      <4>. QED  BY <3>1, <4>1, <4>2
    <3>. QED  BY <1>1, <3>1, <3>4, <3>5 DEF CalmInv, Calm
  <2>. QED  BY <1>3, <2>1, <2>2, <2>3, <2>4
            DEF CalmInv, StateInv, HeaderInv, OnlyTheLastWrite
<1>. QED  BY <1>2, <1>3

LEMMA NumbersOfBatch ==
    ASSUME CalmInv, NEW commands \in Batches, SubmitBatch(commands)
    PROVE  commands \in Seq(Nat) /\ commands # <<>> /\ WriteFrame(commands)
<1>1. PICK k \in 1..MaxBatch : commands = [i \in 1..k |-> submitted + i]
  BY DEF Batches
<1>2. submitted \in Nat /\ k \in Nat \ {0}
  BY <1>1, FaultAssumption DEF CalmInv, StateInv, HeaderInv, FilesOK
<1>3. commands \in Seq(Nat) /\ Len(commands) = k
  BY <1>1, <1>2
<1>4. commands # <<>>
  BY <1>2, <1>3
<1>. QED  BY <1>3, <1>4 DEF SubmitBatch

LEMMA NoFlush ==
    ASSUME CalmInv
    PROVE  ~Flush
BY DEF Flush, WriteFrame, CalmInv, Calm

LEMMA CalmKept ==
    ASSUME Faults = {}
    PROVE  CalmInv /\ [Next]_vars => CalmInv'
<1>. SUFFICES ASSUME CalmInv, [Next]_vars
              PROVE  CalmInv'
  OBVIOUS
<1>1. StateInv'
  BY StateKept DEF CalmInv
<1>2. CASE SyncHeader
  BY <1>1, <1>2 DEF SyncHeader, CalmInv, Calm
<1>3. CASE \E commands \in Batches : SubmitBatch(commands)
  BY <1>1, <1>3, NumbersOfBatch, BatchIsCalm DEF CalmInv
<1>4. CASE SyncFrame
  BY <1>1, <1>4 DEF SyncFrame, CalmInv, Calm
<1>5. CASE Execute
  <2>1. /\ pc = "synced" /\ pc' = "idle" /\ clob' = clob \o batch
        /\ UNCHANGED <<journal, block, snap, attached, misplaced>>
    BY <1>5 DEF Execute, Durable
  <2>2. Len(clob \o batch) = Len(clob) + Len(batch)
    BY ConcatProperties DEF CalmInv, StateInv, StateTyped
  <2>3. block = <<>>
    BY <2>1 DEF CalmInv, StateInv, WhereStateIs
  <2>. QED  BY <1>1, <2>1, <2>2, <2>3 DEF CalmInv, Calm
<1>6. CASE RotateFails
  BY <1>1, <1>6 DEF RotateFails, CalmInv, Calm
<1>7. CASE UNCHANGED vars
  BY <1>1, <1>7 DEF vars, CalmInv, Calm
<1>8. CASE Open \/ SaveSnapshot \/ Rotate \/ Crash
  BY <1>1, <1>8, OpenIsCalm, SaveIsCalm, ReplaceIsCalm, CrashIsCalm
     DEF CalmInv
<1>9. ~Flush /\ ~ReopenFails /\ ~CommitFails
  BY NoFlush DEF ReopenFails, CommitFails
<1>. QED  BY <1>2, <1>3, <1>4, <1>5, <1>6, <1>7, <1>8, <1>9 DEF Next

LEMMA CalmFromStart == Init => CalmInv
<1>. SUFFICES ASSUME Init
              PROVE  CalmInv
  OBVIOUS
<1>1. <<>> \in Seq(Nat) /\ 0 <= Len(<<>>) /\ 0 \in Nat /\ Len(<<>>) = 0
  OBVIOUS
<1>2. Len(CommandsIn(<<>>)) = 0
  BY <1>1, FreshSegment
<1>3. Logged(0, <<>>) = 0 /\ AllWhole(<<>>)
  BY <1>2 DEF Logged, AllWhole
<1>4. Calm
  BY <1>1, <1>3 DEF Init, NoFile, NoSnapshot, Calm
<1>. QED  BY <1>4, StateFromStart DEF CalmInv

----------------------------------------------------------------------------
(* With no other fault than crashes *)

\* A restart rebuilds the running state exactly, between calls and between
\* the two renames of a checkpoint: no command twice, none skipped.
THEOREM RestartRebuilds == Faults = {} => (Spec => []RestartIsExact)
<1>1. CalmInv => RestartIsExact
  BY CalmReads DEF RestartIsExact
<1>. SUFFICES ASSUME Faults = {}
              PROVE  Spec => []RestartIsExact
  OBVIOUS
<1>2. CalmInv /\ [Next]_vars => CalmInv'
  BY CalmKept
<1>. QED  BY <1>1, <1>2, CalmFromStart, PTL DEF Spec

\* Every step of the files is a step of the durable log or leaves it alone.
LEMMA LogSteps ==
    ASSUME Faults = {}, CalmInv, CalmInv', [Next]_vars
    PROVE  [Log!Next]_<<Recovered, promised>>
<1>1. /\ clob \in Seq(Nat) /\ batch \in Seq(Nat)
      /\ clob' \in Seq(Nat) /\ batch' \in Seq(Nat)
  BY DEF CalmInv, StateInv, StateTyped
<1>2. /\ pc \in {"header", "idle", "rotate"} => Recovered = clob
      /\ pc \in {"written", "synced"} => Recovered = clob \o batch
  BY CalmReads
<1>3. /\ pc' \in {"header", "idle", "rotate"} => Recovered' = clob'
      /\ pc' \in {"written", "synced"} => Recovered' = clob' \o batch'
  <2>1. CalmInv' => ReadsAsRun'
    BY CalmReadsAsRun, PTL
  <2>. QED  BY <2>1 DEF ReadsAsRun
<1>4. CASE Open
  <2>1. promised' = Recovered /\ clob' = Recovered /\ pc' \in {"header", "idle"}
    BY <1>4 DEF Open
  <2>. QED  BY <1>3, <2>1 DEF Log!Next, Log!Promise
<1>5. CASE \E commands \in Batches : SubmitBatch(commands)
  <2>1. PICK commands \in Seq(Nat) : commands # <<>> /\ WriteFrame(commands)
    BY <1>5, NumbersOfBatch
  <2>2. /\ pc = "idle" /\ pc' = "written" /\ batch' = commands
        /\ UNCHANGED <<clob, promised>>
    BY <2>1 DEF WriteFrame
  <2>3. Recovered = clob /\ Recovered' = clob \o commands
    BY <1>2, <1>3, <2>2
  <2>4. IsPrefix(clob, clob \o commands)
    BY <1>1, PrefixFacts
  <2>5. clob # clob \o commands
    BY <1>1, <2>1, ConcatSimplifications
  <2>. QED  BY <2>2, <2>3, <2>4, <2>5
            DEF Log!Next, Log!Extend, Log!IsStrictPrefix, IsPrefix,
                Log!IsPrefix
<1>6. CASE SyncHeader \/ SyncFrame \/ RotateFails \/ UNCHANGED vars
  BY <1>6, RecoveredStays DEF SyncHeader, SyncFrame, RotateFails, vars
<1>7. CASE Execute
  <2>1. /\ pc = "synced" /\ clob' = clob \o batch /\ promised' = clob'
        /\ UNCHANGED <<journal, snap>>
    BY <1>7 DEF Execute, Durable
  <2>. QED  BY <1>2, <2>1, RecoveredStays DEF Log!Next, Log!Promise
<1>8. CASE SaveSnapshot
  <2>1. pc = "idle" /\ pc' = "rotate" /\ UNCHANGED <<clob, promised>>
    BY <1>8 DEF SaveSnapshot
  <2>. QED  BY <1>2, <1>3, <2>1
<1>9. CASE Rotate
  <2>1. pc = "rotate" /\ pc' = "idle" /\ UNCHANGED <<clob, promised>>
    BY <1>9 DEF Rotate, ReplaceSegment
  <2>. QED  BY <1>2, <1>3, <2>1
<1>10. CASE Crash
  <2>1. /\ pc # "down" /\ UNCHANGED <<snap, misplaced, promised>>
        /\ IF cached THEN \E outcome \in Outcomes : journal' = After(outcome)
           ELSE UNCHANGED journal
    BY <1>10 DEF Crash
  <2>2. CASE ~cached
    BY <2>1, <2>2, RecoveredStays
  <2>3. CASE cached /\ pc = "header"
    <3>1. /\ journal.frames = <<>> /\ snap.commands = <<>>
          /\ clob = promised /\ promised = <<>>
      BY <2>3 DEF CalmInv, Calm, StateInv, WhereStateIs, HeaderInv, NothingYet
    <3>2. Len(Recovered') = 0
      <4>1. PICK outcome \in {"whole", "lost"} : journal' = After(outcome)
        BY <2>1, <2>3 DEF Outcomes
      <4>2. CASE outcome = "whole"
        <5>1. journal' = journal
          BY <4>1, <4>2 DEF After
        <5>2. Recovered' = clob
          BY <1>2, <2>1, <2>3, <5>1, RecoveredStays
        <5>. QED  BY <3>1, <5>2
      <4>3. CASE outcome = "lost"
        <5>1. journal'.base = 0 /\ journal'.frames = <<>>
          <6>1. Len(journal.frames) = 0
            BY <3>1
          <6>. QED  BY <4>1, <4>3, <6>1 DEF After, NoFile
        <5>2. RecoveredFrom(<<>>, 0, <<>>) = <<>>
          <6>1. <<>> \in Seq(Nat) /\ 0 <= Len(<<>>) /\ 0 \in Nat
            OBVIOUS
          <6>. QED  BY <6>1, FreshSegment
        <5>3. Recovered' = <<>>
          BY <2>1, <3>1, <5>1, <5>2, RecoveredNext
        <5>. QED  BY <5>3
      <4>. QED  BY <4>1, <4>2, <4>3
    <3>3. Recovered' = <<>>
      <4>1. CalmInv' => ReadsAsRun'
        BY CalmReadsAsRun, PTL
      <4>. QED  BY <3>2, <4>1, EmptySeq DEF ReadsAsRun
    <3>. QED  BY <1>2, <2>1, <2>3, <3>1, <3>3
  <2>4. CASE cached /\ pc = "written"
    <3>1. ~misplaced /\ promised = clob
      BY <2>4 DEF CalmInv, Calm, StateInv, WhereStateIs
    <3>2. PICK outcome \in Outcomes : journal' = After(outcome)
      BY <2>1, <2>4
    <3>3. Recovered' \in {clob, clob \o batch}
      BY <2>1, <2>4, <3>1, <3>2, WrittenOrNot DEF CalmInv
    <3>4. /\ IsPrefix(clob, clob \o batch) /\ IsPrefix(clob, clob)
          /\ IsPrefix(clob \o batch, clob \o batch)
      BY <1>1, ConcatProperties, PrefixFacts
    <3>. QED  BY <1>2, <2>1, <2>4, <3>1, <3>3, <3>4
              DEF Log!Next, Log!Forget, IsPrefix, Log!IsPrefix
  <2>. QED  BY <2>2, <2>3, <2>4
            DEF CalmInv, StateInv, HeaderInv, OnlyTheLastWrite
<1>11. ~Flush /\ ~ReopenFails /\ ~CommitFails
  BY NoFlush DEF ReopenFails, CommitFails
<1>. QED  BY <1>4, <1>5, <1>6, <1>7, <1>8, <1>9, <1>10, <1>11 DEF Next

\* The two files together are a durable log: it grows by whole calls, what
\* was acknowledged stays in it, a crash takes at most the call under way,
\* and a checkpoint does not show.
THEOREM FilesAreDurableLog == Faults = {} => (Spec => ImplementsDurableLog)
<1>. SUFFICES ASSUME Faults = {}
              PROVE  Spec => ImplementsDurableLog
  OBVIOUS
<1>1. CalmInv /\ [Next]_vars => CalmInv'
  BY CalmKept
<1>2. Init => Log!Init
  <2>1. Init => Recovered = <<>>
    BY NothingRecovered DEF Init, NoFile, NoSnapshot
  <2>. QED  BY <2>1 DEF Init, Log!Init
<1>3. CalmInv /\ CalmInv' /\ [Next]_vars => [Log!Next]_<<Recovered, promised>>
  BY LogSteps
<1>. QED  BY <1>1, <1>2, <1>3, CalmFromStart, PTL
          DEF Spec, ImplementsDurableLog, Log!Spec
==============================================================================
