--------------------------- MODULE ReceiverProofs ---------------------------
(***************************************************************************)
(* Proofs about the receivers, for whatever is on the air: the scan of the      *)
(* picture receiver (Sstv), the lines of the weather satellites (Apt), the      *)
(* squitters (ModeS), the packets (Hdlc) and the tracks (Tracks).               *)
(***************************************************************************)
EXTENDS Receivers, SequenceTheorems, FiniteSetTheorems, TLAPS

-----------------------------------------------------------------------------
(* Arithmetic *)

\* The greater of two numbers.
LEMMA MaxOfTwo ==
  ASSUME NEW a \in Int, NEW b \in Int
  PROVE  Max({a, b}) = IF a >= b THEN a ELSE b
<1> DEFINE m == IF a >= b THEN a ELSE b
<1>1. m \in {a, b} /\ \A y \in {a, b} : m >= y
  OBVIOUS
<1>2. \A x \in {a, b} : (\A y \in {a, b} : x >= y) => x = m
  OBVIOUS
<1> HIDE DEF m
<1>3. (CHOOSE x \in {a, b} : \A y \in {a, b} : x >= y) = m
  BY <1>1, <1>2
<1> QED
  BY <1>3 DEF Max, m

\* The lesser of two numbers.
LEMMA MinOfTwo ==
  ASSUME NEW a \in Int, NEW b \in Int
  PROVE  Min({a, b}) = IF a <= b THEN a ELSE b
<1> DEFINE m == IF a <= b THEN a ELSE b
<1>1. m \in {a, b} /\ \A y \in {a, b} : m <= y
  OBVIOUS
<1>2. \A x \in {a, b} : (\A y \in {a, b} : x <= y) => x = m
  OBVIOUS
<1> HIDE DEF m
<1>3. (CHOOSE x \in {a, b} : \A y \in {a, b} : x <= y) = m
  BY <1>1, <1>2
<1> QED
  BY <1>3 DEF Min, m

\* A product grows with its factors.
LEMMA Product ==
  ASSUME NEW a \in Int, NEW b \in Int, NEW w \in Nat, a <= b
  PROVE  a * w \in Int /\ b * w \in Int /\ a * w <= b * w
  OBVIOUS

\* A quotient and its rest.
LEMMA Division ==
  ASSUME NEW a \in Int, NEW b \in Nat \ {0}
  PROVE  /\ a \div b \in Int /\ a % b \in Nat /\ a % b < b
         /\ a = b * (a \div b) + (a % b)
  OBVIOUS

\* There is one such pair.
LEMMA DivisionUnique ==
  ASSUME NEW a \in Int, NEW b \in Nat \ {0}, NEW q \in Int, NEW r \in Nat, r < b, a = b * q + r
  PROVE  a \div b = q /\ a % b = r
<1> DEFINE p == a \div b
           s == a % b
<1>1. p \in Int /\ s \in Nat /\ s < b /\ a = b * p + s
  BY Division
<1> HIDE DEF p, s
<1>2. CASE p < q
  <2>1. (p + 1) * b <= q * b
    BY <1>1, <1>2, Product
  <2>2. (p + 1) * b = b * p + b /\ q * b = b * q
    BY <1>1
  <2> QED
    BY <1>1, <2>1, <2>2
<1>3. CASE q < p
  <2>1. (q + 1) * b <= p * b
    BY <1>1, <1>3, Product
  <2>2. (q + 1) * b = b * q + b /\ p * b = b * p
    BY <1>1
  <2> QED
    BY <1>1, <2>1, <2>2
<1>4. CASE p = q
  BY <1>1, <1>4
<1> QED
  BY <1>1, <1>2, <1>3, <1>4 DEF p, s

\* The rest does not change by multiples.
LEMMA Congruent ==
  ASSUME NEW a \in Int, NEW b \in Nat \ {0}, NEW k \in Int
  PROVE  (b * k + a) % b = a % b
<1>1. a \div b \in Int /\ a % b \in Nat /\ a % b < b /\ a = b * (a \div b) + (a % b)
  BY Division
<1>2. b * k + a = b * (k + (a \div b)) + (a % b)
  BY <1>1
<1>3. b * k + a \in Int /\ k + (a \div b) \in Int
  BY <1>1
<1> QED
  BY <1>1, <1>2, <1>3, DivisionUnique

\* A set of naturals has a least one.
LEMMA LeastNat ==
  ASSUME NEW S \in SUBSET Nat, S # {}
  PROVE  \E x \in S : \A y \in S : x <= y
<1>1. PICK n \in S : TRUE
  OBVIOUS
<1> DEFINE I == 0..n
           F == {0..x : x \in S \cap I}
<1>2. n \in Nat /\ IsFiniteSet(I)
  BY <1>1, FS_Interval
<1>3. F # {} /\ F \subseteq FiniteSubsetsOf(I)
  <2>1. F \subseteq SUBSET I
    BY <1>2
  <2> QED
    BY <1>1, <1>2, <2>1, FS_FiniteSubsetsOfFinite
<1>4. \E A_ \in F : \A B_ \in F : ~ (<<B_, A_>> \in StrictSubsetOrdering(I))
  <2> HIDE DEF F, I
  <2> QED
    BY <1>3, FS_StrictSubsetOrderingWellFounded, WFMin
<1>5. PICK x \in S \cap I : \A y \in S \cap I : ~ (<<0..y, 0..x>> \in StrictSubsetOrdering(I))
  BY <1>4
<1>6. ASSUME NEW y \in S, y < x PROVE FALSE
  <2>1. y \in I /\ x \in I /\ y \in Nat /\ x \in Nat
    BY <1>2, <1>5, <1>6
  <2>2. 0..y \subseteq 0..x /\ x \notin 0..y /\ x \in 0..x
    BY <1>6, <2>1
  <2>3. 0..y \in SUBSET I /\ 0..x \in SUBSET I
    BY <1>2, <2>1
  <2> QED
    BY <1>5, <2>1, <2>2, <2>3 DEF StrictSubsetOrdering
<1> QED
  BY <1>5, <1>6

-----------------------------------------------------------------------------
(* Pictures: where the scan is, with the mode on auto *)

Scans  == [cur: Int, leader: Int, start: Nat, quiet: Int, saw: BOOLEAN, onset: Int]
States == [kind: {"search", "vis", "frame"}, bit0: Int, mode: Modes \cup {NoMode},
           line: Int, rows: Int]

PictureType ==
    /\ held \in [t0: Int, end: Int] /\ held.t0 <= held.end
    /\ run \in Scans /\ state \in States

\* The run of 1200 Hz that the scan is in began at `onset`; samples of it are gone only
\* when it is longer than what is kept.
SearchInv ==
    /\ held.t0 <= run.cur
    /\ run.start > 0 =>
         /\ run.onset + run.start = run.cur
         /\ \A i \in Int : run.onset <= i /\ i < run.cur => Hz(i) = "sync"
         /\ run.onset < held.t0 => held.t0 + Hold <= run.cur

\* Of a header that is read nothing is gone, or it is all of one tone.
VisInv ==
    /\ run.start = 0
    /\ \/ held.t0 <= state.bit0 - Bit
       \/ \A i \in Int : state.bit0 - Bit <= i /\ i <= state.bit0 + NBits * Bit => Hz(i) = "sync"

FrameInv == run.start = 0 /\ state.mode \in Modes /\ held.t0 <= state.line

PictureInv ==
    manual = NoMode =>
      /\ PictureType
      /\ state.kind = "search" => SearchInv
      /\ state.kind = "vis" => VisInv
      /\ state.kind = "frame" => FrameInv

\* The constants are numbers.
LEMMA Times_ ==
  /\ NBits \in Nat /\ Bit \in Nat /\ StartMin \in Nat /\ Hold \in Nat /\ QuietMax \in Nat
  /\ LeaderMin \in Nat /\ Margin \in Nat /\ HoldVis \in Nat /\ 0 < StartMin /\ StartMin <= Bit
  /\ Bit < Hold /\ Bit <= HoldVis /\ 0 < LeaderMin /\ 0 < QuietMax
  BY TimesAssumption

\* More is held than a header takes.
LEMMA HeaderTakes ==
  /\ NBits * Bit \in Nat /\ NBits * Bit + Bit <= Hold
  /\ (NBits + 1) * Bit = NBits * Bit + Bit /\ (NBits + 2) * Bit = NBits * Bit + Bit + Bit
<1>1. (NBits + 1) * Bit <= Hold
  BY ReceiversAssumption DEF VisAssumption
<1> QED
  BY <1>1, Times_

\* Modes are records of numbers, and none has the code of all ones.
LEMMA ModeFields ==
  /\ NoMode \notin Modes
  /\ \A m \in Modes : m.line \in Nat /\ m.per \in Nat /\ m.code # 0..NBits - 1
  BY TimesAssumption, ReceiversAssumption DEF VisAssumption

\* The states of the decoder.
LEMMA StateFields ==
  /\ Search \in States /\ Search.kind = "search"
  /\ \A b \in Int : Vis(b) \in States /\ Vis(b).kind = "vis" /\ Vis(b).bit0 = b
  /\ \A m \in Modes, l \in Int :
       Frame(m, l) \in States /\ Frame(m, l).kind = "frame" /\ Frame(m, l).mode = m
         /\ Frame(m, l).line = l
<1>1. Search \in States /\ Search.kind = "search"
  BY DEF Search, States
<1>2. \A b \in Int : Vis(b) \in States /\ Vis(b).kind = "vis" /\ Vis(b).bit0 = b
  BY <1>1 DEF Vis, States
<1>3. \A m \in Modes, l \in Int :
       Frame(m, l) \in States /\ Frame(m, l).kind = "frame" /\ Frame(m, l).mode = m
         /\ Frame(m, l).line = l
  BY <1>1 DEF Frame, States
<1> QED
  BY <1>1, <1>2, <1>3

\* What DropTo leaves.
LEMMA Dropped ==
  ASSUME NEW i \in Int, NEW scan \in Scans, PictureType, DropTo(i, scan)
  PROVE  /\ held' \in [t0: Int, end: Int] /\ run' \in Scans
         /\ held'.end = held.end /\ held.t0 <= held'.t0 /\ held'.t0 <= held.end
         /\ held'.t0 > held.t0 => held'.t0 <= i
         /\ held'.t0 <= run'.cur /\ run'.cur >= scan.cur
         /\ run'.cur = scan.cur \/ run'.cur = held'.t0
         /\ run'.start = scan.start /\ run'.onset = scan.onset
         /\ run'.leader = scan.leader /\ run'.quiet = scan.quiet /\ run'.saw = scan.saw
<1> DEFINE to == Max({Min({i, held.end}), held.t0})
<1>1. held.t0 \in Int /\ held.end \in Int /\ held.t0 <= held.end
  BY DEF PictureType
<1>2. to = IF i <= held.end THEN (IF i >= held.t0 THEN i ELSE held.t0) ELSE held.end
  <2>1. Min({i, held.end}) = IF i <= held.end THEN i ELSE held.end
    BY <1>1, MinOfTwo
  <2>2. Min({i, held.end}) \in Int
    BY <1>1, <2>1
  <2>3. to = IF Min({i, held.end}) >= held.t0 THEN Min({i, held.end}) ELSE held.t0
    BY <1>1, <2>2, MaxOfTwo
  <2> QED
    BY <1>1, <2>1, <2>3
<1>3. to \in Int
  BY <1>1, <1>2
<1> HIDE DEF to
<1>4. held' = [held EXCEPT !.t0 = to] /\ run' = [scan EXCEPT !.cur = Max({scan.cur, to})]
  BY DEF DropTo, to
<1>5. Max({scan.cur, to}) = IF scan.cur >= to THEN scan.cur ELSE to
  BY <1>3, MaxOfTwo DEF Scans
<1>6. /\ run' \in Scans /\ run'.cur = Max({scan.cur, to})
      /\ run'.start = scan.start /\ run'.onset = scan.onset
      /\ run'.leader = scan.leader /\ run'.quiet = scan.quiet /\ run'.saw = scan.saw
  BY <1>3, <1>4, <1>5 DEF Scans
<1>7. held' \in [t0: Int, end: Int] /\ held'.t0 = to /\ held'.end = held.end
  BY <1>3, <1>4 DEF PictureType
<1>8. scan.cur \in Int
  BY DEF Scans
<1> QED
  BY <1>1, <1>2, <1>3, <1>5, <1>6, <1>7, <1>8

\* Init and a restart put the scan where nothing is held yet.
LEMMA PictureInit == Init => PictureInv
<1> SUFFICES ASSUME Init, manual = NoMode
             PROVE  PictureType /\ state.kind = "search" /\ SearchInv
  BY DEF PictureInv
<1>1. state = Search /\ run = Scan(0, Idle, 0) /\ held = [t0 |-> 0, end |-> 0]
  BY DEF Init
<1>2. Search \in States /\ Search.kind = "search"
  BY StateFields
<1>3. run \in Scans /\ run.cur = 0 /\ run.start = 0
  BY <1>1 DEF Scan, Idle, Scans
<1> QED
  BY <1>1, <1>2, <1>3 DEF PictureType, SearchInv

\* A restarted receiver begins with no sample held and the scan at its place.
LEMMA PictureFresh ==
  ASSUME NEW pos \in Int, Fresh(pos)
  PROVE  PictureInv'
<1> SUFFICES PictureType' /\ state'.kind = "search" /\ SearchInv'
  BY DEF PictureInv
<1>1. state' = Search /\ run' = Scan(pos, Idle, pos) /\ held' = [t0 |-> pos, end |-> pos]
  BY DEF Fresh
<1>2. Search \in States /\ Search.kind = "search"
  BY StateFields
<1>3. run' \in Scans /\ run'.cur = pos /\ run'.start = 0
  BY <1>1 DEF Scan, Idle, Scans
<1> QED
  BY <1>1, <1>2, <1>3 DEF PictureType, SearchInv

\* The leading edge of a line is where samples are held, or where it was expected.
LEMMA EdgeHeld ==
  ASSUME PictureType, Expected \in Int, held.t0 <= Expected
  PROVE  Edge \in Int /\ held.t0 <= Edge
<1> DEFINE best == IF \E i \in Edges : Hz(i) = "sync" THEN {i \in Edges : Hz(i) = "sync"} ELSE Edges
<1>1. Edges \subseteq Expected - 1..Expected + 1 /\ \A i \in Edges : i \in Int /\ held.t0 <= i
  BY DEF Edges, Back, Held
<1>2. CASE Edges = {}
  BY <1>2 DEF Edge
<1>3. CASE Edges # {}
  <2>1. best # {} /\ best \subseteq Edges
    BY <1>3
  <2>2. \E i \in best : \A j \in best : i <= j
    <3>1. best \subseteq {Expected - 1, Expected, Expected + 1}
      <4> HIDE DEF best
      <4>1. \A i \in Expected - 1..Expected + 1 : i \in {Expected - 1, Expected, Expected + 1}
        OBVIOUS
      <4> QED
        BY <1>1, <2>1, <4>1
    <3>2. CASE Expected - 1 \in best
      BY <3>1, <3>2
    <3>3. CASE Expected - 1 \notin best /\ Expected \in best
      BY <3>1, <3>3
    <3>4. CASE Expected - 1 \notin best /\ Expected \notin best
      BY <2>1, <3>1, <3>4
    <3> QED
      BY <3>2, <3>3, <3>4
  <2>3. Edge = CHOOSE i \in best : \A j \in best : i <= j
    BY <1>3 DEF Edge
  <2> HIDE DEF best
  <2>4. Edge \in best
    BY <2>2, <2>3
  <2> QED
    BY <1>1, <2>1, <2>4
<1> QED
  BY <1>2, <1>3

\* A header of which samples are gone is no mode's.
LEMMA LostHeader ==
  ASSUME PictureType, VisInv, held.t0 > state.bit0 - Bit,
         Known(state.bit0 + (NBits + 1) * Bit)
  PROVE  \A m \in Modes : m.code # Code
<1>1. state.bit0 \in Int /\ held.t0 \in Int /\ held.end \in Int
  BY DEF PictureType, States
<1>2. \A i \in Int : state.bit0 - Bit <= i /\ i <= state.bit0 + NBits * Bit => Hz(i) = "sync"
  <2>1. ~(held.t0 <= state.bit0 - Bit)
    BY <1>1, Times_
  <2> QED
    BY <2>1 DEF VisInv
<1>3. ASSUME NEW i \in 0..NBits - 1 PROVE IsOne(i)
  <2> DEFINE middle == state.bit0 + i * Bit + Bit \div 2
  <2>1. Bit \div 2 \in Int /\ 0 <= Bit \div 2 /\ Bit \div 2 <= Bit
    BY Times_
  <2>2. 0 <= i * Bit /\ i * Bit + Bit <= NBits * Bit
    <3>1. 0 * Bit <= i * Bit /\ (i + 1) * Bit <= NBits * Bit /\ i * Bit \in Int
      BY Times_, Product
    <3>2. (i + 1) * Bit = i * Bit + Bit /\ 0 * Bit = 0
      BY Times_
    <3> QED
      BY <3>1, <3>2
  <2>3. NBits * Bit \in Int /\ i * Bit \in Int
    BY Times_
  <2>4. /\ middle \in Int /\ state.bit0 - Bit <= middle
        /\ middle <= state.bit0 + NBits * Bit
    <3> DEFINE x == i * Bit
               y == NBits * Bit
    <3>1. x \in Int /\ y \in Int /\ 0 <= x /\ x + Bit <= y
      BY <2>2, <2>3
    <3> HIDE DEF x, y
    <3>2. /\ state.bit0 + x + Bit \div 2 \in Int /\ state.bit0 - Bit <= state.bit0 + x + Bit \div 2
          /\ state.bit0 + x + Bit \div 2 <= state.bit0 + y
      BY <1>1, <2>1, <3>1, Times_
    <3> QED
      BY <3>2 DEF x, y
  <2>5. Hz(middle) = "sync"
    BY <1>2, <2>4
  <2> QED
    BY <2>5 DEF IsOne
<1>4. Code = 0..NBits - 1
  BY <1>3 DEF Code
<1> QED
  BY <1>4, ModeFields

\* Every step of the picture receiver keeps the samples that its scan still looks at.
LEMMA PictureNext == PictureInv /\ [Next]_vars => PictureInv'
<1> SUFFICES ASSUME PictureInv, [Next]_vars, manual' = NoMode PROVE PictureInv'
  BY DEF PictureInv
<1>0. manual = NoMode
  BY DEF Next, Feed, Look, BeginPicture, ReadHeader, DecodeLine, Deliver, Restart, vars
<1>a. /\ PictureType
      /\ state.kind = "search" => SearchInv
      /\ state.kind = "vis" => VisInv
      /\ state.kind = "frame" => FrameInv
  BY <1>0 DEF PictureInv
<1>b. /\ held.t0 \in Int /\ held.end \in Int /\ held.t0 <= held.end
      /\ run \in Scans /\ state \in States
      /\ run.cur \in Int /\ run.start \in Nat /\ run.onset \in Int
      /\ state.bit0 \in Int /\ state.line \in Int /\ state.rows \in Int
      /\ state.kind \in {"search", "vis", "frame"} /\ state.mode \in Modes \cup {NoMode}
  BY <1>a DEF PictureType, Scans, States
<1>c. ASSUME script' = script PROVE \A i \in Int : Hz(i)' = Hz(i)
  BY <1>c DEF Hz
<1>1. ASSUME Feed PROVE PictureInv'
  <2>1. PICK n \in 1..MaxBlock : held' = [held EXCEPT !.end = @ + n]
    BY <1>1 DEF Feed
  <2>2. n \in Nat
    BY <2>1
  <2>3. held' \in [t0: Int, end: Int] /\ held'.t0 = held.t0 /\ held'.t0 <= held'.end
    BY <1>a, <1>b, <2>1, <2>2 DEF PictureType
  <2>4. run' = run /\ state' = state /\ script' = script
    BY <1>1 DEF Feed
  <2>5. PictureType'
    BY <1>b, <2>3, <2>4 DEF PictureType
  <2> QED
    BY <1>a, <1>c, <2>3, <2>4, <2>5 DEF PictureInv, SearchInv, VisInv, FrameInv
<1>2. ASSUME Look PROVE PictureInv'
  <2>1. state.kind = "search" /\ state' = state /\ held' = held /\ script' = script
    BY <1>2 DEF Look, Searching
  <2>2. /\ run'.cur = run.cur + 1
        /\ run'.onset = IF Sync /\ run.start = 0 THEN run.cur ELSE run.onset
        /\ run'.start = IF Sync THEN run.start + 1 ELSE 0
    BY <1>2 DEF Look
  <2>3. run' \in Scans
    <3> DEFINE leader == Hz(run.cur) = "leader"
               lead   == IF leader THEN run.leader + 1 ELSE IF Sync THEN run.leader ELSE 0
               quiet  == IF leader THEN 0 ELSE IF Sync THEN run.quiet ELSE run.quiet + 1
    <3>1. lead \in Int /\ quiet \in Int
      BY <1>b DEF Scans
    <3>2. Min({quiet, QuietMax}) \in Int
      <4> HIDE DEF quiet
      <4> QED
        BY <3>1, MinOfTwo, Times_
    <3>3. run' = [cur    |-> run.cur + 1,
                  onset  |-> IF Sync /\ run.start = 0 THEN run.cur ELSE run.onset,
                  start  |-> IF Sync THEN run.start + 1 ELSE 0,
                  leader |-> lead,
                  quiet  |-> Min({quiet, QuietMax}),
                  saw    |-> (lead >= LeaderMin \/ run.saw) /\ quiet < QuietMax]
      BY <1>2 DEF Look
    <3>4. ((lead >= LeaderMin \/ run.saw) /\ quiet < QuietMax) \in BOOLEAN
      OBVIOUS
    <3> HIDE DEF lead, quiet
    <3> DEFINE saw == (lead >= LeaderMin \/ run.saw) /\ quiet < QuietMax
    <3>5. saw \in BOOLEAN
      BY <3>4
    <3>6. run' = [cur    |-> run.cur + 1,
                  onset  |-> IF Sync /\ run.start = 0 THEN run.cur ELSE run.onset,
                  start  |-> IF Sync THEN run.start + 1 ELSE 0,
                  leader |-> lead, quiet |-> Min({quiet, QuietMax}), saw |-> saw]
      BY <3>3, Zenon
    <3> HIDE DEF saw
    <3> QED
      BY <1>b, <3>1, <3>2, <3>5, <3>6 DEF Scans
  <2>4. SearchInv
    BY <1>a, <2>1
  <2>5. SearchInv'
    <3>1. held'.t0 <= run'.cur
      BY <1>b, <2>1, <2>2, <2>4 DEF SearchInv
    <3>2. ASSUME run'.start > 0
          PROVE  /\ run'.onset + run'.start = run'.cur
                 /\ \A i \in Int : run'.onset <= i /\ i < run'.cur => Hz(i)' = "sync"
                 /\ run'.onset < held'.t0 => held'.t0 + Hold <= run'.cur
      <4>1. Sync /\ run'.start = run.start + 1
        BY <1>b, <2>2, <3>2
      <4>2. CASE run.start = 0
        <5>1. run'.onset = run.cur /\ run'.start = 1
          BY <2>2, <4>1, <4>2
        <5>2. \A i \in Int : run'.onset <= i /\ i < run'.cur => i = run.cur
          BY <1>b, <2>2, <5>1
        <5> QED
          BY <1>b, <1>c, <2>1, <2>2, <2>4, <4>1, <5>1, <5>2 DEF SearchInv, Sync
      <4>3. CASE run.start # 0
        <5>1. run'.onset = run.onset /\ run.start > 0
          BY <1>b, <2>2, <4>3
        <5>2. /\ run.onset + run.start = run.cur
              /\ \A i \in Int : run.onset <= i /\ i < run.cur => Hz(i) = "sync"
              /\ run.onset < held.t0 => held.t0 + Hold <= run.cur
          BY <2>4, <5>1 DEF SearchInv
        <5>3. \A i \in Int : run'.onset <= i /\ i < run'.cur => i = run.cur \/ i < run.cur
          BY <1>b, <2>2
        <5>4. \A i \in Int : run'.onset <= i /\ i < run'.cur => Hz(i)' = "sync"
          BY <1>c, <2>1, <4>1, <5>1, <5>2, <5>3 DEF Sync
        <5>5. run'.onset + run'.start = run'.cur
          BY <1>b, <2>2, <4>1, <5>1, <5>2
        <5>6. run'.onset < held'.t0 => held'.t0 + Hold <= run'.cur
          BY <1>b, <2>1, <2>2, <5>1, <5>2, Times_
        <5> QED
          BY <5>4, <5>5, <5>6
      <4> QED
        BY <4>2, <4>3
    <3> QED
      BY <3>1, <3>2 DEF SearchInv
  <2>6. PictureType'
    BY <1>a, <2>1, <2>3 DEF PictureType
  <2> QED
    BY <2>1, <2>5, <2>6 DEF PictureInv
<1>3. ASSUME BeginPicture PROVE PictureInv'
  <2>1. /\ state.kind = "search" /\ held' = held /\ script' = script
        /\ run.start >= StartMin
        /\ state' = Vis(run.onset + Bit) /\ run' = Rest(run)
    BY <1>0, <1>3 DEF BeginPicture, Begins, Searching
  <2>2. run' \in Scans /\ run'.start = 0
    BY <1>b, <2>1 DEF Rest, Scan, Idle, Scans
  <2>3. state' \in States /\ state'.kind = "vis" /\ state'.bit0 = run.onset + Bit
    <3>1. run.onset + Bit \in Int
      BY <1>b, Times_
    <3> QED
      BY <2>1, <3>1, StateFields
  <2>4. /\ \A i \in Int : run.onset <= i /\ i < run.cur => Hz(i) = "sync"
        /\ run.onset < held.t0 => held.t0 + Hold <= run.cur
    BY <1>a, <1>b, <2>1, Times_ DEF SearchInv
  <2>5. VisInv'
    <3>1. state'.bit0 - Bit = run.onset
      BY <1>b, <2>3, Times_
    <3>2. CASE held.t0 <= run.onset
      BY <2>1, <2>2, <3>1, <3>2 DEF VisInv
    <3>3. CASE held.t0 > run.onset
      <4>1. NBits * Bit \in Int /\ NBits * Bit + Bit <= Hold
        BY HeaderTakes
      <4>2. state'.bit0 + NBits * Bit < run.cur
        BY <1>b, <2>3, <2>4, <3>3, <4>1, Times_
      <4>3. \A i \in Int : state'.bit0 - Bit <= i /\ i <= state'.bit0 + NBits * Bit => Hz(i)' = "sync"
        BY <1>b, <1>c, <2>1, <2>3, <2>4, <3>1, <4>1, <4>2, Times_
      <4> QED
        BY <2>2, <4>3 DEF VisInv
    <3> QED
      BY <1>b, <3>2, <3>3
  <2>6. PictureType'
    BY <1>a, <2>1, <2>2, <2>3 DEF PictureType
  <2> QED
    BY <2>3, <2>5, <2>6 DEF PictureInv
<1>4. ASSUME ReadHeader PROVE PictureInv'
  <2>1. /\ state.kind = "vis" /\ script' = script
        /\ DropTo(HeaderRead, Rest(run)) /\ Known(state.bit0 + (NBits + 1) * Bit)
    BY <1>4 DEF ReadHeader
  <2>2. Rest(run) \in Scans /\ Rest(run).start = 0
    BY <1>b DEF Rest, Scan, Idle, Scans
  <2>3. NBits * Bit \in Nat /\ (NBits + 2) * Bit = NBits * Bit + Bit + Bit
    BY HeaderTakes
  <2>4. HeaderRead \in Int /\ state.bit0 <= HeaderRead
    BY <1>b, <2>3, Times_ DEF HeaderRead
  <2>5. /\ held' \in [t0: Int, end: Int] /\ run' \in Scans
        /\ held'.end = held.end /\ held.t0 <= held'.t0 /\ held'.t0 <= held.end
        /\ held'.t0 > held.t0 => held'.t0 <= HeaderRead
        /\ held'.t0 <= run'.cur /\ run'.start = 0
    BY <1>a, <2>1, <2>2, <2>4, Dropped
  <2>6. CASE state' = Search
    <3>1. Search \in States /\ Search.kind = "search"
      BY StateFields
    <3> QED
      BY <2>5, <2>6, <3>1 DEF PictureInv, PictureType, SearchInv
  <2>7. CASE state' # Search
    <3>1. PICK m \in Modes : m.code = Code /\ state' = Frame(m, HeaderRead)
      BY <1>4, <2>7 DEF ReadHeader
    <3>2. held.t0 <= state.bit0 - Bit
      BY <1>a, <1>b, <2>1, <3>1, LostHeader, Times_
    <3>3. held'.t0 <= HeaderRead
      BY <1>b, <2>4, <2>5, <3>2, Times_
    <3>4. /\ state' \in States /\ state'.kind = "frame" /\ state'.mode = m
          /\ state'.line = HeaderRead
      BY <2>4, <3>1, StateFields
    <3> QED
      BY <2>5, <3>3, <3>4 DEF PictureInv, PictureType, FrameInv
  <2> QED
    BY <2>6, <2>7
<1>5. ASSUME DecodeLine PROVE PictureInv'
  <2>1. state.kind = "frame" /\ held' = held /\ FrameInv
    BY <1>5, <1>a DEF DecodeLine
  <2>2. state.mode \in Modes /\ state.mode.line \in Nat /\ held.t0 <= state.line
    BY <2>1, ModeFields DEF FrameInv
  <2>3. Expected \in Int /\ held.t0 <= Expected
    BY <1>b, <2>2 DEF Expected
  <2>4. Edge \in Int /\ held.t0 <= Edge
    BY <1>a, <2>3, EdgeHeld
  <2>5. CASE state' = Search /\ run' = Scan(Edge + state.mode.line, Idle, run.onset)
    <3>1. run' \in Scans /\ run'.cur = Edge + state.mode.line /\ run'.start = 0
      BY <1>b, <2>2, <2>4, <2>5 DEF Scan, Idle, Scans
    <3>2. held.t0 <= run'.cur
      BY <1>b, <2>2, <2>4, <3>1
    <3>3. Search \in States /\ Search.kind = "search"
      BY StateFields
    <3> QED
      BY <1>a, <2>1, <2>5, <3>1, <3>2, <3>3 DEF PictureInv, PictureType, SearchInv
  <2>6. CASE /\ state' = [state EXCEPT !.line = Edge, !.rows = @ + state.mode.per]
             /\ run' = run
    <3>1. state'.kind = "frame" /\ state'.mode = state.mode /\ state'.line = Edge
      BY <1>b, <2>1, <2>6 DEF States
    <3>2. state' \in States
      <4>1. state.rows + state.mode.per \in Int
        BY <1>b, <2>2, ModeFields
      <4> QED
        BY <1>b, <2>4, <2>6, <4>1 DEF States
    <3> QED
      BY <1>a, <2>1, <2>4, <2>6, <3>1, <3>2 DEF PictureInv, PictureType, FrameInv
  <2> QED
    BY <1>5, <2>5, <2>6 DEF DecodeLine
<1>6. ASSUME Deliver PROVE PictureInv'
  <2>1. DropTo(KeepFrom, run) /\ state' = state /\ script' = script
    BY <1>6 DEF Deliver
  <2>2. KeepFrom \in Int
    <3>1. state.kind = "search" => KeepFrom = held.end - Hold
      BY DEF KeepFrom
    <3>2. state.kind = "vis" => KeepFrom = state.bit0 - HoldVis
      BY DEF KeepFrom
    <3>3. state.kind = "frame" => KeepFrom = state.line
      BY DEF KeepFrom
    <3> QED
      BY <1>b, <3>1, <3>2, <3>3, Times_
  <2>3. /\ held' \in [t0: Int, end: Int] /\ run' \in Scans
        /\ held'.end = held.end /\ held.t0 <= held'.t0 /\ held'.t0 <= held.end
        /\ held'.t0 > held.t0 => held'.t0 <= KeepFrom
        /\ held'.t0 <= run'.cur
        /\ run'.cur = run.cur \/ run'.cur = held'.t0
        /\ run'.cur >= run.cur
        /\ run'.start = run.start /\ run'.onset = run.onset
    BY <1>a, <1>b, <2>1, <2>2, Dropped
  <2>4. PictureType'
    BY <1>b, <2>1, <2>3 DEF PictureType
  <2>5. held'.t0 \in Int /\ run'.cur \in Int
    BY <2>3 DEF Scans
  <2>6. CASE state.kind = "search"
    <3>1. run.cur >= held.end /\ KeepFrom = held.end - Hold
      BY <1>6, <2>6 DEF Deliver, Waiting, KeepFrom
    <3>2. run'.cur = run.cur
      BY <1>b, <2>3, <2>5, <3>1
    <3>3. SearchInv
      BY <1>a, <2>6
    <3>4. SearchInv'
      <4>1. held'.t0 = held.t0 \/ held'.t0 + Hold <= run.cur
        BY <1>b, <2>3, <2>5, <3>1, Times_
      <4> QED
        BY <1>c, <2>1, <2>3, <3>2, <3>3, <4>1 DEF SearchInv
    <3> QED
      BY <2>1, <2>4, <2>6, <3>4 DEF PictureInv
  <2>7. CASE state.kind = "vis"
    <3>1. KeepFrom = state.bit0 - HoldVis
      BY <2>7 DEF KeepFrom
    <3>2. VisInv
      BY <1>a, <2>7
    <3>3. VisInv'
      BY <1>b, <1>c, <2>1, <2>3, <2>5, <3>1, <3>2, Times_ DEF VisInv
    <3> QED
      BY <2>1, <2>4, <2>7, <3>3 DEF PictureInv
  <2>8. CASE state.kind = "frame"
    <3>1. KeepFrom = state.line
      BY <2>8 DEF KeepFrom
    <3>2. FrameInv'
      BY <1>a, <1>b, <2>1, <2>3, <2>5, <2>8, <3>1 DEF FrameInv
    <3> QED
      BY <2>1, <2>4, <2>8, <3>2 DEF PictureInv
  <2> QED
    BY <1>b, <2>6, <2>7, <2>8
<1>7. ASSUME Restart PROVE PictureInv'
  <2>1. PICK missed \in 0..MaxBlock : Fresh(held.end + missed)
    BY <1>7 DEF Restart
  <2>2. held.end + missed \in Int
    BY <1>b, <2>1
  <2> QED
    BY <2>1, <2>2, PictureFresh
<1>8. CASE UNCHANGED vars
  <2>1. held' = held /\ run' = run /\ state' = state /\ script' = script
    BY <1>8 DEF vars
  <2> QED
    BY <1>a, <1>c, <2>1 DEF PictureInv, PictureType, SearchInv, VisInv, FrameInv
<1> QED
  BY <1>1, <1>2, <1>3, <1>4, <1>5, <1>6, <1>7, <1>8 DEF Next

\* Whatever is on the air and however it is cut into blocks, with the mode on auto the
\* scan never looks at a sample that is gone: the unwrap of step_search does not panic.
THEOREM ScanHolds == ReceiversSpec => []CursorHeld
<1>1. ReceiversInit => PictureInv
  BY PictureInit DEF ReceiversInit
<1>2. PictureInv /\ [ReceiversNext]_all => PictureInv'
  <2>1. [ReceiversNext]_all => [Next]_vars
    BY DEF ReceiversNext, all
  <2> QED
    BY <2>1, PictureNext
<1>3. PictureInv => CursorHeld
  BY DEF PictureInv, SearchInv, CursorHeld
<1> QED
  BY <1>1, <1>2, <1>3, PTL DEF ReceiversSpec

-----------------------------------------------------------------------------
(* Pictures: the last one on the air is on the canvas *)

\* The pictures on the air and the last of them.
Pics == script.pictures
Final == Last(Pics)

\* Where the tone of 1200 Hz began that the scan is in, or this sample when it is in none.
Onset == IF run.start = 0 THEN run.cur ELSE run.onset

\* What the scan has seen of a leader: a tone of 1200 Hz that it counts began where it
\* began to count, and a tone as long as a start bit was the last of that leader.
LedInv ==
    /\ run.leader >= 0
    /\ run.leader > 0 \/ run.saw => Onset > 0 /\ Air(script, Onset - 1).hz # "sync"
    /\ Unled(script, run.cur) => ~run.saw /\ run.leader = 0

\* The first c lines of the n-th picture p are in an drawn.
Painted(drawn, p, n, c) ==
    c > 0 => /\ drawn.rows = p.mode.rows
             /\ \A y \in 0..c * p.mode.per - 1 :
                 /\ drawn.px[y] # <<>>
                 /\ LET row == drawn.px[y][1]
                    IN row.mode = p.mode /\ row.whole /\ row.of = <<n, y \div p.mode.per>>

\* The scan is before the last picture, in its leader or start bit, or beyond it.
SeekInv ==
    \/ run.cur <= Final.start
    \/ /\ Final.start < run.cur /\ run.cur <= Final.bits /\ run.quiet = 0
       /\ run.cur <= Final.start + LeaderMin => run.leader >= run.cur - Final.start
       /\ run.cur >= Final.start + LeaderMin => run.saw
    \/ run.cur >= Over(Final) /\ Painted(sheet, Final, Len(Pics), Count(Final))

\* A header is a picture's, or none's and over before the last picture.
ReadInv ==
    \/ /\ HeaderRead <= Final.start /\ run.cur <= Final.start /\ held.t0 <= Final.start
       /\ \A m \in Modes : ~Bears(script, state.bit0, m)
    \/ \E k \in 1..Len(Pics) : state.bit0 = Pics[k].bits

\* The lines of a picture are decoded one after the other.
PaintInv ==
    \E k \in 1..Len(Pics) :
      \E c \in 0..Count(Pics[k]) - 1 :
        /\ state.mode = Pics[k].mode /\ state.rows = c * state.mode.per
        /\ state.line = LineAt(Pics[k], IF c = 0 THEN 0 ELSE c - 1)
        /\ k = Len(Pics) => Painted(sheet, Pics[k], k, c)

\* Between two blocks the scan has nothing more to do and the rows are shown.
Settled ==
    /\ script \in Scripts /\ held.t0 >= 0 /\ held.end <= Len(script.tones)
    /\ ~busy => Waiting /\ canvas = sheet

\* The whole of it: while the receiver may hear the last picture from its leader on, it is
\* where the samples so far should have brought it.
WholeInv ==
    manual = NoMode =>
      /\ Settled
      /\ since <= Final.start =>
           /\ state.kind = "search" => LedInv /\ SeekInv
           /\ state.kind = "vis" => ReadInv
           /\ state.kind = "frame" => PaintInv

\* What is assumed of what is on the air.
LEMMA OnTheAir ==
  ASSUME script \in Scripts
  PROVE  /\ Len(Pics) \in Nat /\ Len(Pics) > 0 /\ Len(script.tones) \in Nat
         /\ \A k \in 1..Len(Pics) : OnAir(script, k)
         /\ \A k \in 1..Len(Pics) : k < Len(Pics) => Over(Pics[k]) <= Final.start
         /\ Over(Final) + Margin < Len(script.tones)
         /\ \A i, j \in 1..Len(script.tones) - 1 :
              LongSync(script, i, j) =>
                \/ \E k \in 1..Len(Pics) : j = Pics[k].bits
                \/ Unled(script, j)
                \/ /\ i + (NBits + 3) * Bit <= Final.start
                   /\ \A m \in Modes : ~Bears(script, i + Bit, m)
         /\ \A m, n \in Modes : m.code = n.code => m = n
<1>1. Clear(script) /\ \A m, n \in Modes : m.code = n.code => m = n
  BY ReceiversAssumption DEF ScriptsAssumption
<1> QED
  BY <1>1 DEF Clear, Pics, Final

\* The lines of a picture are one after the other, after its header.
LEMMA LineTimes ==
  ASSUME NEW p, p.mode \in Modes, p.bits \in Nat, p.mode.line > 1
  PROVE  /\ p.mode.line \in Nat /\ p.mode.per \in Nat \ {0} /\ p.mode.rows \in Nat \ {0}
         /\ Count(p) \in Nat /\ Count(p) > 0 /\ p.mode.rows = Count(p) * p.mode.per
         /\ LineAt(p, 0) = p.bits + (NBits + 2) * Bit
         /\ \A c \in Nat : LineAt(p, c) \in Int /\ LineAt(p, c + 1) = LineAt(p, c) + p.mode.line
         /\ \A c, d \in Nat : c <= d => LineAt(p, c) <= LineAt(p, d)
<1>1. /\ p.mode.line \in Nat /\ p.mode.per \in Nat \ {0} /\ p.mode.rows \in Nat \ {0}
      /\ p.mode.rows % p.mode.per = 0
  BY TimesAssumption
<1>2. /\ Count(p) \in Int /\ p.mode.rows = p.mode.per * Count(p)
  <2> DEFINE a == p.mode.rows
             b == p.mode.per
  <2>1. a \in Int /\ b \in Nat \ {0} /\ a % b = 0 /\ Count(p) = a \div b
    BY <1>1 DEF Count
  <2> HIDE DEF a, b
  <2>2. a \div b \in Int /\ a = b * (a \div b) + (a % b)
    BY <2>1, Division
  <2>3. a = b * (a \div b)
    BY <2>1, <2>2
  <2> QED
    BY <2>1, <2>2, <2>3 DEF a, b
<1>3. Count(p) > 0
  <2>1. ASSUME Count(p) <= 0 PROVE FALSE
    <3>1. Count(p) * p.mode.per <= 0 * p.mode.per
      BY <1>1, <1>2, <2>1, Product
    <3>2. Count(p) * p.mode.per = p.mode.rows
      BY <1>1, <1>2
    <3>3. 0 * p.mode.per = 0
      BY <1>1
    <3> QED
      BY <1>1, <3>1, <3>2, <3>3
  <2> QED
    BY <1>2, <2>1
<1>4. p.mode.rows = Count(p) * p.mode.per
  BY <1>1, <1>2
<1> DEFINE h == (NBits + 2) * Bit
<1>5. h \in Nat
  BY Times_
<1>6. \A c \in Nat : c * p.mode.line \in Nat /\ (c + 1) * p.mode.line = c * p.mode.line + p.mode.line
  <2> TAKE c \in Nat
  <2> DEFINE w == p.mode.line
  <2>1. w \in Nat
    BY <1>1
  <2> HIDE DEF w
  <2>2. c * w \in Nat /\ (c + 1) * w = c * w + w
    BY <2>1
  <2> QED
    BY <2>2 DEF w
<1>7. \A c \in Nat : LineAt(p, c) = p.bits + h + c * p.mode.line
  BY DEF LineAt
<1> HIDE DEF h
<1>8. LineAt(p, 0) = p.bits + h
  BY <1>1, <1>5, <1>7
<1>9. \A c \in Nat : LineAt(p, c) \in Int /\ LineAt(p, c + 1) = LineAt(p, c) + p.mode.line
  <2> TAKE c \in Nat
  <2> DEFINE x == c * p.mode.line
             y == (c + 1) * p.mode.line
  <2>1. x \in Nat /\ y = x + p.mode.line /\ c + 1 \in Nat
    BY <1>6
  <2>2. LineAt(p, c) = p.bits + h + x /\ LineAt(p, c + 1) = p.bits + h + y
    BY <1>7, <2>1
  <2> HIDE DEF x, y
  <2> QED
    BY <1>1, <1>5, <2>1, <2>2
<1>10. \A c, d \in Nat : c <= d => LineAt(p, c) <= LineAt(p, d)
  <2> TAKE c, d \in Nat
  <2> HAVE c <= d
  <2> DEFINE x == c * p.mode.line
             y == d * p.mode.line
  <2>1. x \in Int /\ y \in Int /\ x <= y
    BY <1>1, Product
  <2>2. LineAt(p, c) = p.bits + h + x /\ LineAt(p, d) = p.bits + h + y
    BY <1>7
  <2> HIDE DEF x, y
  <2> QED
    BY <1>5, <2>1, <2>2
<1> QED
  BY <1>1, <1>2, <1>3, <1>4, <1>8, <1>9, <1>10 DEF h

\* A picture on the air.
LEMMA OnePicture ==
  ASSUME script \in Scripts, NEW k \in 1..Len(Pics), NEW p, p = Pics[k]
  PROVE  /\ p.mode \in Modes /\ p.mode.line > 1 /\ p.start \in Nat /\ p.bits \in Nat
         /\ p.start + LeaderMin < p.bits - Bit
         /\ \A i \in Int : p.start <= i /\ i < p.start + LeaderMin => Hz(i) = "leader"
         /\ \A i \in Int : p.start <= i /\ i < p.bits - Bit => Hz(i) \in {"leader", "sync"}
         /\ \A i \in Int : p.bits - Bit <= i /\ i < p.bits => Hz(i) = "sync"
         /\ Hz(p.bits - Bit - 1) = "leader" /\ Hz(p.bits) # "sync"
         /\ LongSync(script, p.bits - Bit, p.bits)
         /\ Bears(script, p.bits, p.mode)
         /\ \A c \in 0..Count(p) - 1 :
              /\ Hz(LineAt(p, c)) = "sync"
              /\ \A i \in 1..p.mode.line - 1 :
                   /\ Hz(LineAt(p, c) + i) # "sync"
                   /\ script.tones[LineAt(p, c) + i + 1].of = <<k, c>>
         /\ p.bits < LineAt(p, 0) /\ LineAt(p, 0) < Over(p)
         /\ k < Len(Pics) => Over(p) <= Final.start
         /\ Over(p) <= Over(Final)
<1>1. OnAir(script, k) /\ Len(Pics) \in Nat
  BY OnTheAir
<1>2. /\ p.mode \in Modes /\ p.mode.line > 1 /\ p.start \in Nat /\ p.bits \in Nat
      /\ p.start + LeaderMin < p.bits - Bit
  BY <1>1 DEF OnAir, Pics
<1>3. /\ \A i \in p.start..p.start + LeaderMin - 1 : Hz(i) = "leader"
      /\ \A i \in p.start..p.bits - Bit - 1 : Hz(i) \in {"leader", "sync"}
      /\ \A i \in p.bits - Bit..p.bits - 1 : Hz(i) = "sync"
      /\ Hz(p.bits - Bit - 1) = "leader" /\ Hz(p.bits) # "sync"
  BY <1>1 DEF OnAir, Pics, Air, Hz
<1>4. /\ \A i \in Int : p.start <= i /\ i < p.start + LeaderMin => i \in p.start..p.start + LeaderMin - 1
      /\ \A i \in Int : p.start <= i /\ i < p.bits - Bit => i \in p.start..p.bits - Bit - 1
      /\ \A i \in Int : p.bits - Bit <= i /\ i < p.bits => i \in p.bits - Bit..p.bits - 1
  BY <1>2, Times_
<1>5. LongSync(script, p.bits - Bit, p.bits)
  <2>1. p.bits - Bit + StartMin <= p.bits
    BY <1>2, Times_
  <2> QED
    BY <1>3, <2>1 DEF LongSync, Air, Hz
<1>6. Bears(script, p.bits, p.mode)
  BY <1>1 DEF OnAir, Pics
<1>7. \A c \in 0..Count(p) - 1 :
        /\ Hz(LineAt(p, c)) = "sync"
        /\ \A i \in 1..p.mode.line - 1 :
             /\ Hz(LineAt(p, c) + i) # "sync"
             /\ script.tones[LineAt(p, c) + i + 1].of = <<k, c>>
  BY <1>1 DEF OnAir, Pics, Air, Hz
<1>8. p.bits < LineAt(p, 0) /\ LineAt(p, 0) < Over(p) /\ Over(p) \in Int
  <2>1. LineAt(p, 0) = p.bits + (NBits + 2) * Bit /\ Count(p) \in Nat /\ Count(p) > 0
    BY <1>2, LineTimes
  <2>2. (NBits + 2) * Bit = NBits * Bit + Bit + Bit /\ NBits * Bit \in Nat /\ Bit > 0
    BY HeaderTakes, Times_
  <2>3. LineAt(p, 1) = LineAt(p, 0) + p.mode.line /\ LineAt(p, 0) \in Int
    <3>1. 0 \in Nat /\ 0 + 1 = 1
      OBVIOUS
    <3> QED
      BY <1>2, <3>1, LineTimes
  <2>4. LineAt(p, 1) <= Over(p) /\ Over(p) \in Int
    BY <1>2, <2>1, LineTimes DEF Over
  <2>5. p.mode.line \in Nat
    BY <1>2, LineTimes
  <2> DEFINE h == NBits * Bit
             a == LineAt(p, 0)
             b == LineAt(p, 1)
             o == Over(p)
             g == (NBits + 2) * Bit
  <2>6. a = p.bits + g /\ g = h + Bit + Bit /\ h \in Nat /\ b = a + p.mode.line /\ b <= o /\ o \in Int /\ b \in Int
    BY <1>2, <2>1, <2>2, <2>3, <2>4, <2>5
  <2> HIDE DEF h, a, b, o, g
  <2>8. Bit \in Int /\ Bit > 0 /\ p.bits \in Int /\ p.mode.line \in Int /\ p.mode.line > 1
    BY <1>2, <2>5, Times_
  <2>7. p.bits < a /\ a < o
    BY <2>6, <2>8
  <2> QED
    BY <2>6, <2>7 DEF a, o
<1>9. k < Len(Pics) => Over(p) <= Final.start
  BY OnTheAir
<1>10. Over(p) <= Over(Final)
  <2>1. CASE k = Len(Pics)
    BY <1>8, <2>1 DEF Final, Last
  <2>2. CASE k # Len(Pics)
    <3> DEFINE n == Len(Pics)
    <3>1. n \in 1..n /\ Final = Pics[n] /\ OnAir(script, n) /\ k < n
      BY <1>1, <2>2, OnTheAir DEF Final, Last
    <3>2. /\ Final.mode \in Modes /\ Final.mode.line > 1 /\ Final.start \in Nat /\ Final.bits \in Nat
          /\ Final.start + LeaderMin < Final.bits - Bit
      BY <3>1 DEF OnAir, Pics
    <3>3. Final.bits <= LineAt(Final, 0)
      <4>1. LineAt(Final, 0) = Final.bits + (NBits + 2) * Bit
        BY <3>2, LineTimes
      <4>2. (NBits + 2) * Bit = NBits * Bit + Bit + Bit /\ NBits * Bit \in Nat
        BY HeaderTakes
      <4> QED
        BY <3>2, <4>1, <4>2, Times_
    <3>4. LineAt(Final, 0) <= Over(Final) /\ LineAt(Final, 0) \in Int /\ Over(Final) \in Int
      <4>1. Count(Final) \in Nat /\ 0 \in Nat /\ 0 <= Count(Final)
        BY <3>2, LineTimes
      <4> QED
        BY <3>2, <4>1, LineTimes DEF Over
    <3> QED
      BY <1>8, <1>9, <3>1, <3>2, <3>3, <3>4, Times_
  <2> QED
    BY <2>1, <2>2
<1> QED
  BY <1>2, <1>3, <1>4, <1>5, <1>6, <1>7, <1>8, <1>9, <1>10

\* A tone as long as a start bit that ends here is one the scan has counted.
LEMMA MaximalRun ==
  ASSUME PictureType, SearchInv, LedInv, run.saw,
         NEW x \in Int, LongSync(script, x, run.cur)
  PROVE  run.start >= StartMin
<1>1. /\ x + StartMin <= run.cur /\ \A i \in x..run.cur - 1 : Hz(i) = "sync"
      /\ run.cur \in Int /\ run.start \in Nat /\ run.onset \in Int
  BY DEF LongSync, Air, Hz, PictureType, Scans
<1>2. /\ run.start = 0 => Hz(run.cur - 1) # "sync"
      /\ run.start # 0 => Hz(run.onset - 1) # "sync"
  BY DEF LedInv, Onset, Air, Hz
<1>3. run.cur - 1 \in x..run.cur - 1
  BY <1>1, Times_
<1>4. run.start > 0
  BY <1>1, <1>2, <1>3
<1>5. run.onset + run.start = run.cur
  BY <1>4 DEF SearchInv
<1>6. run.onset - 1 \notin x..run.cur - 1
  BY <1>1, <1>2, <1>4
<1> QED
  BY <1>1, <1>4, <1>5, <1>6, Times_

\* A tone that begins a picture is one as long as a start bit.
LEMMA LongRun ==
  ASSUME PictureType, SearchInv, LedInv, held.end <= Len(script.tones), script \in Scripts,
         run.start >= StartMin, run.saw, run.cur < held.end, ~Sync
  PROVE  /\ LongSync(script, run.onset, run.cur) /\ ~Unled(script, run.cur)
         /\ run.onset \in 1..Len(script.tones) - 1 /\ run.cur \in 1..Len(script.tones) - 1
         /\ \A i \in Int : run.onset <= i /\ i < run.cur => Hz(i) = "sync"
         /\ Hz(run.onset - 1) # "sync"
<1>1. run.cur \in Int /\ run.start \in Nat /\ run.onset \in Int /\ held.end \in Int
  BY DEF PictureType, Scans
<1>2. /\ run.start > 0 /\ run.onset + run.start = run.cur
      /\ \A i \in Int : run.onset <= i /\ i < run.cur => Hz(i) = "sync"
  BY <1>1, Times_ DEF SearchInv
<1>3. run.onset > 0 /\ Hz(run.onset - 1) # "sync" /\ ~Unled(script, run.cur)
  BY <1>2 DEF LedInv, Onset, Air, Hz
<1>4. Len(script.tones) \in Nat
  BY OnTheAir
<1>5. run.onset + StartMin <= run.cur
  BY <1>1, <1>2, Times_
<1>6. LongSync(script, run.onset, run.cur)
  BY <1>1, <1>2, <1>3, <1>5 DEF LongSync, Air, Hz, Sync
<1> QED
  BY <1>1, <1>2, <1>3, <1>4, <1>5, <1>6

\* What Look makes of the scan.
LEMMA LookScan ==
  ASSUME PictureType, Look
  PROVE  /\ run'.cur = run.cur + 1
         /\ run'.onset = IF Sync /\ run.start = 0 THEN run.cur ELSE run.onset
         /\ run'.start = IF Sync THEN run.start + 1 ELSE 0
         /\ run'.leader = IF Hz(run.cur) = "leader" THEN run.leader + 1
                          ELSE IF Sync THEN run.leader ELSE 0
         /\ Hz(run.cur) = "leader" \/ (Sync /\ run.quiet = 0) => run'.quiet = 0
         /\ run'.saw => run'.leader >= LeaderMin \/ run.saw
         /\ Hz(run.cur) = "leader" \/ (Sync /\ run.quiet = 0) =>
              (run'.saw <=> run'.leader >= LeaderMin \/ run.saw)
<1> DEFINE leader == Hz(run.cur) = "leader"
           lead   == IF leader THEN run.leader + 1 ELSE IF Sync THEN run.leader ELSE 0
           quiet  == IF leader THEN 0 ELSE IF Sync THEN run.quiet ELSE run.quiet + 1
           saw    == (lead >= LeaderMin \/ run.saw) /\ quiet < QuietMax
<1>1. /\ run'.cur = run.cur + 1
      /\ run'.onset = IF Sync /\ run.start = 0 THEN run.cur ELSE run.onset
      /\ run'.start = IF Sync THEN run.start + 1 ELSE 0
      /\ run'.leader = lead /\ run'.quiet = Min({quiet, QuietMax}) /\ run'.saw = saw
  BY DEF Look
<1>2. leader \/ (Sync /\ run.quiet = 0) => quiet = 0
  OBVIOUS
<1>3. quiet = 0 => Min({quiet, QuietMax}) = 0 /\ quiet < QuietMax
  <2> HIDE DEF quiet
  <2> QED
    BY MinOfTwo, Times_
<1> HIDE DEF lead, quiet
<1>4. saw <=> (lead >= LeaderMin \/ run.saw) /\ quiet < QuietMax
  OBVIOUS
<1> HIDE DEF saw
<1>5. /\ leader \/ (Sync /\ run.quiet = 0) => run'.quiet = 0
      /\ run'.saw => run'.leader >= LeaderMin \/ run.saw
      /\ leader \/ (Sync /\ run.quiet = 0) => (run'.saw <=> run'.leader >= LeaderMin \/ run.saw)
  BY <1>1, <1>2, <1>3, <1>4
<1> QED
  BY <1>1, <1>5 DEF lead

\* A look keeps track of the leader.
LEMMA LedLook ==
  ASSUME manual = NoMode, PictureType, SearchInv, LedInv, script \in Scripts, held.t0 >= 0, Look
  PROVE  LedInv'
<1>1. /\ run.cur \in Int /\ run.start \in Nat /\ run.onset \in Int /\ run.leader \in Int
      /\ held.t0 \in Int
  BY DEF PictureType, Scans
<1>2. run.cur >= 0
  BY <1>1 DEF SearchInv
<1>3. script' = script /\ ~Begins /\ Searching
  BY DEF Look
<1> DEFINE hz == Hz(run.cur)
<1>5. /\ run'.cur = run.cur + 1
      /\ run'.onset = IF Sync /\ run.start = 0 THEN run.cur ELSE run.onset
      /\ run'.start = IF Sync THEN run.start + 1 ELSE 0
      /\ run'.leader = IF hz = "leader" THEN run.leader + 1 ELSE IF Sync THEN run.leader ELSE 0
      /\ run'.saw => run'.leader >= LeaderMin \/ run.saw
  BY LookScan
<1>6. Sync <=> hz = "sync"
  BY DEF Sync
<1> HIDE DEF hz
<1>7. run.leader >= 0 /\ run'.leader >= 0
  BY <1>1, <1>5 DEF LedInv
<1>8. ASSUME run'.leader > 0 \/ run'.saw
      PROVE  Onset' > 0 /\ Air(script, Onset' - 1).hz # "sync"
  <2>1. CASE Sync
    <3>1. run'.leader = run.leader
      BY <1>5, <1>6, <2>1
    <3>2. run.leader > 0 \/ run.saw
      BY <1>1, <1>5, <1>8, <3>1, Times_
    <3>3. Onset > 0 /\ Air(script, Onset - 1).hz # "sync"
      BY <3>2 DEF LedInv
    <3>4. Onset' = Onset
      BY <1>1, <1>5, <2>1 DEF Onset
    <3> QED
      BY <3>3, <3>4
  <2>2. CASE ~Sync
    <3>1. Onset' = run.cur + 1
      BY <1>5, <2>2 DEF Onset
    <3>2. Onset' > 0 /\ Onset' - 1 = run.cur
      BY <1>1, <1>2, <3>1
    <3> QED
      BY <2>2, <3>2 DEF Air, Hz, Sync
  <2> QED
    BY <2>1, <2>2
<1>9. ASSUME Unled(script, run.cur + 1) PROVE ~run'.saw /\ run'.leader = 0
  <2>1. PICK x, y \in 1..Len(script.tones) - 1 :
          /\ LongSync(script, x, y) /\ y < run.cur + 1
          /\ \A z \in y..run.cur : Air(script, z).hz # "leader"
    <3> DEFINE to == run.cur + 1
    <3>1. PICK x, y \in 1..Len(script.tones) - 1 :
            /\ LongSync(script, x, y) /\ y < to
            /\ \A z \in y..to - 1 : Air(script, z).hz # "leader"
      BY <1>9 DEF Unled
    <3>2. to - 1 = run.cur
      BY <1>1
    <3> HIDE DEF to
    <3>3. \A z \in y..run.cur : Air(script, z).hz # "leader"
      BY <3>1, <3>2
    <3> QED
      BY <3>1, <3>3 DEF to
  <2>2. x \in Int /\ y \in Int /\ y <= run.cur /\ run.cur \in y..run.cur
    BY <1>1, <2>1
  <2>3. hz # "leader"
    BY <2>1, <2>2 DEF hz, Hz, Air
  <2>4. CASE y < run.cur
    <3>1. Unled(script, run.cur)
      <4>1. \A z \in y..run.cur - 1 : z \in y..run.cur
        BY <1>1, <2>2
      <4> QED
        BY <2>1, <2>4, <4>1 DEF Unled
    <3>2. ~run.saw /\ run.leader = 0
      BY <3>1 DEF LedInv
    <3>3. run'.leader = 0
      BY <1>5, <2>3, <3>2
    <3> QED
      BY <1>5, <3>2, <3>3, Times_
  <2>5. CASE y = run.cur
    <3>1. LongSync(script, x, run.cur) /\ ~Sync
      BY <2>1, <2>5 DEF LongSync, Sync, Air, Hz
    <3>2. ~run.saw
      <4>1. run.saw => run.start >= StartMin
        BY <2>2, <3>1, MaximalRun
      <4> QED
        BY <1>3, <3>1, <4>1 DEF Begins
    <3>3. run'.leader = 0
      BY <1>5, <2>3, <3>1
    <3> QED
      BY <1>5, <3>2, <3>3, Times_
  <2> QED
    BY <1>1, <2>2, <2>4, <2>5
<1>10. Unled(script', run'.cur) => Unled(script, run.cur + 1)
  BY <1>3, <1>5
<1>11. Air(script', Onset' - 1) = Air(script, Onset' - 1)
  BY <1>3
<1> QED
  BY <1>7, <1>8, <1>9, <1>10, <1>11 DEF LedInv

\* What is known of the last picture.
LEMMA LastPicture ==
  ASSUME script \in Scripts
  PROVE  Len(Pics) \in 1..Len(Pics) /\ Final = Pics[Len(Pics)]
  BY OnTheAir DEF Final, Last

\* A look does not miss the leader of the last picture.
LEMMA SeekLook ==
  ASSUME manual = NoMode, PictureType, SearchInv, LedInv, SeekInv, script \in Scripts, Look
  PROVE  SeekInv'
<1> DEFINE p == Final
<1>1. /\ run.cur \in Int /\ run.start \in Nat /\ run.leader \in Int
      /\ p.start \in Nat /\ p.bits \in Nat /\ p.start + LeaderMin < p.bits - Bit
  BY LastPicture, OnePicture DEF PictureType, Scans
<1>2. /\ \A i \in Int : p.start <= i /\ i < p.start + LeaderMin => Hz(i) = "leader"
      /\ \A i \in Int : p.start <= i /\ i < p.bits - Bit => Hz(i) \in {"leader", "sync"}
      /\ \A i \in Int : p.bits - Bit <= i /\ i < p.bits => Hz(i) = "sync"
      /\ Hz(p.bits) # "sync" /\ LongSync(script, p.bits - Bit, p.bits)
  BY LastPicture, OnePicture
<1>3. script' = script /\ sheet' = sheet /\ ~Begins /\ Searching
  BY DEF Look
<1>4. /\ run'.cur = run.cur + 1
      /\ run'.leader = IF Hz(run.cur) = "leader" THEN run.leader + 1
                       ELSE IF Sync THEN run.leader ELSE 0
      /\ Hz(run.cur) = "leader" \/ (Sync /\ run.quiet = 0) => run'.quiet = 0
      /\ Hz(run.cur) = "leader" \/ (Sync /\ run.quiet = 0) =>
           (run'.saw <=> run'.leader >= LeaderMin \/ run.saw)
  BY LookScan
<1>5. Final' = p /\ Pics' = Pics
  BY <1>3 DEF Final, Pics
<1> HIDE DEF p
<1>6. CASE run.cur <= p.start
  <2>1. CASE run.cur < p.start
    BY <1>1, <1>4, <1>5, <2>1 DEF SeekInv
  <2>2. CASE run.cur = p.start
    <3>1. Hz(run.cur) = "leader"
      BY <1>1, <1>2, <2>2, Times_
    <3>2. run.leader >= 0
      BY DEF LedInv
    <3>3. /\ run'.cur = p.start + 1 /\ run'.quiet = 0 /\ run'.leader >= 1
          /\ run'.leader >= LeaderMin => run'.saw
      BY <1>1, <1>4, <2>2, <3>1, <3>2
    <3>4. LeaderMin >= 1 /\ LeaderMin \in Int
      BY Times_
    <3>5. /\ p.start < run'.cur /\ run'.cur <= p.bits
          /\ run'.cur <= p.start + LeaderMin => run'.leader >= run'.cur - p.start
          /\ run'.cur >= p.start + LeaderMin => run'.saw
      BY <1>1, <3>3, <3>4, Times_
    <3> QED
      BY <1>5, <3>3, <3>5 DEF SeekInv
  <2> QED
    BY <1>1, <1>6, <2>1, <2>2
<1>7. CASE /\ p.start < run.cur /\ run.cur <= p.bits /\ run.quiet = 0
           /\ run.cur <= p.start + LeaderMin => run.leader >= run.cur - p.start
           /\ run.cur >= p.start + LeaderMin => run.saw
  <2>1. run.cur # p.bits
    <3> SUFFICES ASSUME run.cur = p.bits PROVE FALSE
      OBVIOUS
    <3>1. run.saw /\ LongSync(script, p.bits - Bit, run.cur) /\ ~Sync
      BY <1>1, <1>2, <1>7, Times_ DEF Sync
    <3>2. p.bits - Bit \in Int
      BY <1>1, Times_
    <3>3. run.start >= StartMin
      BY <3>1, <3>2, MaximalRun
    <3> QED
      BY <1>3, <3>1, <3>3 DEF Begins
  <2>2. Hz(run.cur) \in {"leader", "sync"} /\ run.cur < p.bits
    BY <1>1, <1>2, <1>7, <2>1, Times_
  <2>3. /\ run'.quiet = 0 /\ run'.leader >= run.leader
        /\ run'.saw <=> run'.leader >= LeaderMin \/ run.saw
    BY <1>1, <1>4, <1>7, <2>2 DEF Sync
  <2>4. run.leader >= 0 /\ run'.leader \in Int
    BY <1>1, <1>4 DEF LedInv
  <2>5. run.cur < p.start + LeaderMin => run'.leader = run.leader + 1
    BY <1>1, <1>2, <1>4, <1>7
  <2>6. run'.cur <= p.start + LeaderMin => run'.leader >= run'.cur - p.start
    BY <1>1, <1>4, <1>7, <2>4, <2>5, Times_
  <2>7. run'.cur >= p.start + LeaderMin => run'.saw
    BY <1>1, <1>4, <1>7, <2>3, <2>4, <2>5, Times_
  <2> QED
    BY <1>1, <1>4, <1>5, <1>7, <2>2, <2>3, <2>6, <2>7 DEF SeekInv
<1>8. CASE run.cur >= Over(p) /\ Painted(sheet, p, Len(Pics), Count(p))
  <2>1. Painted(sheet', Final', Len(Pics'), Count(Final'))
    BY <1>3, <1>5, <1>8
  <2>2. Over(p) \in Int
    BY <1>1, LastPicture, OnePicture, LineTimes DEF Over, p
  <2>3. run'.cur >= Over(Final')
    BY <1>1, <1>4, <1>5, <1>8, <2>2
  <2> QED
    BY <2>1, <2>3 DEF SeekInv
<1> QED
  BY <1>6, <1>7, <1>8 DEF SeekInv, p

\* A header that is read is a picture's, or is none's and over before the last picture.
LEMMA BeginReads ==
  ASSUME manual = NoMode, PictureType, SearchInv, LedInv, script \in Scripts,
         held.end <= Len(script.tones), BeginPicture
  PROVE  state'.kind = "vis" /\ ReadInv'
<1>1. /\ run.cur \in Int /\ run.start \in Nat /\ run.onset \in Int /\ held.t0 \in Int
      /\ held.t0 <= run.cur
  BY DEF PictureType, Scans, SearchInv
<1>2. /\ held' = held /\ script' = script /\ run.start >= StartMin /\ run.saw /\ ~Sync
      /\ run.cur < held.end /\ state' = Vis(run.onset + Bit) /\ run' = Rest(run)
  BY DEF BeginPicture, Begins, Searching
<1>3. /\ LongSync(script, run.onset, run.cur) /\ ~Unled(script, run.cur)
      /\ run.onset \in 1..Len(script.tones) - 1 /\ run.cur \in 1..Len(script.tones) - 1
      /\ \A i \in Int : run.onset <= i /\ i < run.cur => Hz(i) = "sync"
      /\ Hz(run.onset - 1) # "sync"
  BY <1>2, LongRun
<1>4. run.onset + Bit \in Int /\ run.onset < run.cur
  BY <1>1, <1>3, Times_ DEF LongSync
<1>5. state'.kind = "vis" /\ state'.bit0 = run.onset + Bit /\ run'.cur = run.cur
  BY <1>2, <1>4, StateFields DEF Rest, Scan
<1>6. Pics' = Pics /\ Final' = Final
  BY <1>2 DEF Pics, Final
<1>7. \/ \E k \in 1..Len(Pics) : run.cur = Pics[k].bits
      \/ /\ run.onset + (NBits + 3) * Bit <= Final.start
         /\ \A m \in Modes : ~Bears(script, run.onset + Bit, m)
  BY <1>3, OnTheAir
<1>8. CASE \E k \in 1..Len(Pics) : run.cur = Pics[k].bits
  <2>1. PICK k \in 1..Len(Pics) : run.cur = Pics[k].bits
    BY <1>8
  <2> DEFINE p == Pics[k]
  <2>2. /\ p.bits \in Nat /\ Hz(p.bits - Bit - 1) = "leader"
        /\ \A i \in Int : p.bits - Bit <= i /\ i < p.bits => Hz(i) = "sync"
    BY OnePicture
  <2>3. run.cur = p.bits
    BY <2>1
  <2> HIDE DEF p
  <2>4. run.onset <= p.bits - Bit
    <3> DEFINE i == run.onset - 1
    <3>1. i \in Int /\ i < p.bits /\ Hz(i) # "sync"
      BY <1>1, <1>3, <1>4, <2>3
    <3>2. ~(p.bits - Bit <= i)
      <4> HIDE DEF i
      <4> QED
        BY <2>2, <3>1
    <3> QED
      BY <1>1, <2>2, <3>2, Times_
  <2>5. p.bits - Bit <= run.onset
    <3> DEFINE i == p.bits - Bit - 1
    <3>1. i \in Int /\ i < run.cur /\ Hz(i) # "sync"
      BY <2>2, <2>3, Times_
    <3>2. ~(run.onset <= i)
      <4> HIDE DEF i
      <4> QED
        BY <1>3, <3>1
    <3> QED
      BY <1>1, <2>2, <3>2, Times_
  <2>6. state'.bit0 = p.bits
    <3> DEFINE b == p.bits
               o == run.onset
    <3>1. o \in Int /\ b \in Int /\ Bit \in Int
      BY <1>1, <2>2, Times_
    <3>2. o <= b - Bit /\ b - Bit <= o
      BY <2>4, <2>5
    <3> HIDE DEF b, o
    <3>3. o + Bit = b
      BY <3>1, <3>2
    <3> QED
      BY <1>5, <3>3 DEF b, o
  <2> QED
    BY <1>5, <1>6, <2>6 DEF ReadInv, p
<1>9. CASE /\ run.onset + (NBits + 3) * Bit <= Final.start
           /\ \A m \in Modes : ~Bears(script, run.onset + Bit, m)
  <2>1. Final.start \in Nat /\ Hz(Final.start) = "leader"
    <3>1. /\ Final.start \in Nat
          /\ \A i \in Int : Final.start <= i /\ i < Final.start + LeaderMin => Hz(i) = "leader"
      BY LastPicture, OnePicture
    <3> QED
      BY <3>1, Times_
  <2>2. /\ (NBits + 3) * Bit = NBits * Bit + Bit + Bit + Bit /\ NBits * Bit \in Nat
        /\ (NBits + 2) * Bit = NBits * Bit + Bit + Bit
    BY HeaderTakes, Times_
  <2>3. HeaderRead' <= Final.start
    <3>1. HeaderRead' = run.onset + Bit + (NBits + 2) * Bit
      BY <1>5 DEF HeaderRead
    <3> QED
      BY <1>1, <1>9, <2>1, <2>2, <3>1, Times_
  <2>4. run.cur <= Final.start
    <3>1. run.onset <= Final.start
      BY <1>1, <1>9, <2>1, <2>2, Times_
    <3> QED
      BY <1>1, <1>3, <2>1, <3>1
  <2>5. held.t0 <= Final.start
    BY <1>1, <2>1, <2>4
  <2> QED
    BY <1>2, <1>5, <1>6, <1>9, <2>3, <2>4, <2>5 DEF ReadInv
<1> QED
  BY <1>5, <1>7, <1>8, <1>9

\* Of a header that is held every bit is read as it is on the air.
LEMMA HeaderBits ==
  ASSUME PictureType, held.t0 <= state.bit0 - Bit, Known(state.bit0 + (NBits + 1) * Bit)
  PROVE  \A m \in Modes : (ParityOk /\ m.code = Code) <=> Bears(script, state.bit0, m)
<1>1. state.bit0 \in Int /\ held.t0 \in Int /\ held.end \in Int
  BY DEF PictureType, States
<1>2. ASSUME NEW i \in 0..NBits
      PROVE  LET mid == state.bit0 + i * Bit + Bit \div 2 IN Held(mid) /\ Hz(mid) = Air(script, mid).hz
  <2> DEFINE x == i * Bit
             y == NBits * Bit
             mid == state.bit0 + i * Bit + Bit \div 2
  <2>1. Bit \div 2 \in Int /\ 0 <= Bit \div 2 /\ Bit \div 2 <= Bit
    BY Times_
  <2>2. x \in Int /\ y \in Int /\ 0 <= x /\ x <= y
    <3>1. 0 * Bit <= i * Bit /\ i * Bit <= NBits * Bit /\ i * Bit \in Int /\ NBits * Bit \in Int
      BY Times_, Product
    <3>2. 0 * Bit = 0
      BY Times_
    <3> QED
      BY <3>1, <3>2
  <2>3. (NBits + 1) * Bit = y + Bit
    BY HeaderTakes
  <2>4. state.bit0 + (y + Bit) < held.end
    BY <2>3 DEF Known
  <2> DEFINE h == Bit \div 2
  <2>5. mid = state.bit0 + x + h /\ h \in Int /\ 0 <= h /\ h <= Bit
    BY <2>1
  <2> HIDE DEF x, y, mid, h
  <2>6. held.t0 <= mid /\ mid < held.end
    BY <1>1, <2>2, <2>4, <2>5, Times_
  <2> QED
    BY <2>6 DEF Held, Hz, Air, mid
<1>3. \A i \in 0..NBits - 1 : IsOne(i) <=> OneAt(script, state.bit0, i)
  <2> TAKE i \in 0..NBits - 1
  <2>1. i \in 0..NBits
    BY Times_
  <2> QED
    BY <1>2, <2>1 DEF IsOne, OneAt
<1>4. ParityOne <=> OneAt(script, state.bit0, NBits)
  <2>1. NBits \in 0..NBits
    BY Times_
  <2> QED
    BY <1>2, <2>1 DEF ParityOne, OneAt
<1>5. Code = CodeAt(script, state.bit0)
  BY <1>3 DEF Code, CodeAt
<1> QED
  BY <1>4, <1>5 DEF ParityOk, Bears

\* A picture's header begins it, and any other ends before the last picture.
LEMMA ReadLeads ==
  ASSUME manual = NoMode, PictureType, VisInv, ReadInv, script \in Scripts, ReadHeader
  PROVE  /\ state'.kind = "search" => LedInv' /\ SeekInv'
         /\ state'.kind = "vis" => ReadInv'
         /\ state'.kind = "frame" => PaintInv'
<1>1. /\ script' = script /\ sheet' = sheet
      /\ DropTo(HeaderRead, Rest(run)) /\ Known(state.bit0 + (NBits + 1) * Bit)
      /\ \/ \E m \in Modes : ParityOk /\ m.code = Code /\ state' = Frame(m, HeaderRead)
         \/ /\ ~(ParityOk /\ \E m \in Modes : m.code = Code)
            /\ state' = Search
  BY DEF ReadHeader
<1>2. state.bit0 \in Int /\ run.cur \in Int /\ held.t0 \in Int /\ run.onset \in Int
  BY DEF PictureType, States, Scans
<1>3. NBits * Bit \in Nat /\ (NBits + 2) * Bit = NBits * Bit + Bit + Bit
  BY HeaderTakes
<1>4. HeaderRead \in Int
  BY <1>2, <1>3, Times_ DEF HeaderRead
<1>5. /\ Rest(run) \in Scans /\ Rest(run).cur = run.cur /\ Rest(run).start = 0
      /\ Rest(run).leader = 0 /\ Rest(run).saw = FALSE
  BY <1>2 DEF Rest, Scan, Idle, Scans
<1>6. /\ held'.t0 > held.t0 => held'.t0 <= HeaderRead
      /\ run'.cur = run.cur \/ run'.cur = held'.t0
      /\ run'.leader = 0 /\ run'.saw = FALSE /\ held'.t0 \in Int /\ held.t0 <= held'.t0
  BY <1>1, <1>4, <1>5, Dropped
<1>7. Pics' = Pics /\ Final' = Final
  BY <1>1 DEF Pics, Final
<1>8. CASE /\ HeaderRead <= Final.start /\ run.cur <= Final.start /\ held.t0 <= Final.start
           /\ \A m \in Modes : ~Bears(script, state.bit0, m)
  <2>1. state' = Search
    <3> SUFFICES ASSUME NEW m \in Modes, ParityOk, m.code = Code PROVE FALSE
      BY <1>1
    <3>1. held.t0 <= state.bit0 - Bit
      <4>1. ~(held.t0 > state.bit0 - Bit)
        BY <1>1, LostHeader
      <4> QED
        BY <1>2, <4>1, Times_
    <3> QED
      BY <1>1, <1>8, <3>1, HeaderBits
  <2>2. Final.start \in Nat
    BY LastPicture, OnePicture
  <2>3. run'.cur <= Final.start
    BY <1>2, <1>4, <1>6, <1>8, <2>2
  <2>4. LedInv'
    BY <1>6 DEF LedInv
  <2> QED
    BY <1>7, <2>1, <2>3, <2>4, StateFields DEF SeekInv
<1>9. CASE \E k \in 1..Len(Pics) : state.bit0 = Pics[k].bits
  <2>1. PICK k \in 1..Len(Pics) : state.bit0 = Pics[k].bits
    BY <1>9
  <2> DEFINE p == Pics[k]
  <2>2. /\ p.mode \in Modes /\ p.bits \in Nat /\ Hz(p.bits) # "sync" /\ p.mode.line > 1
        /\ Bears(script, p.bits, p.mode)
    BY OnePicture
  <2>3. /\ p.mode.per \in Nat \ {0} /\ Count(p) \in Nat /\ Count(p) > 0
        /\ LineAt(p, 0) = p.bits + (NBits + 2) * Bit
    BY <2>2, LineTimes
  <2>4. state.bit0 = p.bits
    BY <2>1
  <2> HIDE DEF p
  <2>5. held.t0 <= state.bit0 - Bit
    <3>1. Hz(state.bit0) # "sync"
      BY <2>2, <2>4
    <3>2. state.bit0 - Bit <= state.bit0 /\ state.bit0 <= state.bit0 + NBits * Bit
      BY <1>2, <1>3, Times_
    <3> QED
      BY <1>2, <3>1, <3>2 DEF VisInv
  <2>6. ParityOk /\ p.mode.code = Code
    BY <1>1, <2>2, <2>4, <2>5, HeaderBits
  <2>7. PICK m \in Modes : m.code = Code /\ state' = Frame(m, HeaderRead)
    BY <1>1, <2>2, <2>6
  <2>8. m = p.mode
    BY <2>2, <2>6, <2>7, OnTheAir
  <2>9. HeaderRead = LineAt(p, 0)
    BY <2>3, <2>4 DEF HeaderRead
  <2>10. /\ state'.kind = "frame" /\ state'.mode = p.mode /\ state'.line = LineAt(p, 0)
         /\ state'.rows = 0
    BY <1>4, <2>7, <2>8, <2>9, StateFields DEF Frame, Search
  <2>11. 0 \in 0..Count(p) - 1 /\ 0 = 0 * p.mode.per
    BY <2>3
  <2>12. Painted(sheet', p, k, 0)
    BY DEF Painted
  <2> DEFINE c == 0
  <2>13. /\ c \in 0..Count(p) - 1 /\ state'.rows = c * state'.mode.per
         /\ state'.line = LineAt(p, IF c = 0 THEN 0 ELSE c - 1)
         /\ Painted(sheet', p, k, c)
    BY <2>10, <2>11, <2>12
  <2> HIDE DEF c
  <2>14. PaintInv'
    BY <1>7, <2>10, <2>13 DEF PaintInv, p
  <2> QED
    BY <2>10, <2>14
<1> QED
  BY <1>8, <1>9 DEF ReadInv

\* Where the k-th picture is in its c-th line.
At(k, c) ==
    /\ k \in 1..Len(Pics) /\ c \in 0..Count(Pics[k]) - 1
    /\ state.mode = Pics[k].mode /\ state.rows = c * state.mode.per
    /\ state.line = LineAt(Pics[k], IF c = 0 THEN 0 ELSE c - 1)

\* The line is expected where it is.
LEMMA LineExpected ==
  ASSUME script \in Scripts, NEW k, NEW c, At(k, c)
  PROVE  /\ k \in 1..Len(Pics) /\ c \in Nat /\ Expected = LineAt(Pics[k], c)
         /\ LineAt(Pics[k], c) \in Int
         /\ state.rows = 0 <=> c = 0
<1> DEFINE p == Pics[k]
           per == p.mode.per
<1>1. k \in 1..Len(Pics) /\ c \in 0..Count(p) - 1
  BY DEF At
<1>2. p.mode \in Modes /\ p.mode.line > 1 /\ p.bits \in Nat
  BY <1>1, OnePicture
<1>3. /\ per \in Nat \ {0} /\ c \in Nat
      /\ \A d \in Nat : LineAt(p, d) \in Int /\ LineAt(p, d + 1) = LineAt(p, d) + p.mode.line
  <2>1. /\ Count(p) \in Nat /\ per \in Nat \ {0}
        /\ \A d \in Nat : LineAt(p, d) \in Int /\ LineAt(p, d + 1) = LineAt(p, d) + p.mode.line
    BY <1>2, LineTimes
  <2> HIDE DEF p, per
  <2>2. c \in Nat
    BY <1>1, <2>1
  <2> QED
    BY <2>1, <2>2
<1>4. /\ state.mode = p.mode /\ state.rows = c * per
      /\ state.line = LineAt(p, IF c = 0 THEN 0 ELSE c - 1)
  BY DEF At
<1> HIDE DEF p, per
<1>5. state.rows = 0 <=> c = 0
  <2>1. c # 0 => c * per # 0
    <3> SUFFICES ASSUME c # 0 PROVE c * per # 0
      OBVIOUS
    <3>1. 1 * per <= c * per
      BY <1>3, Product
    <3> QED
      BY <1>3, <3>1
  <2>2. 0 * per = 0
    BY <1>3
  <2> QED
    BY <1>4, <2>1, <2>2
<1>6. CASE c = 0
  BY <1>1, <1>3, <1>4, <1>5, <1>6 DEF Expected, p
<1>7. CASE c # 0
  <2>1. c - 1 \in Nat /\ (c - 1) + 1 = c
    BY <1>3, <1>7
  <2>2. LineAt(p, (c - 1) + 1) = LineAt(p, c - 1) + p.mode.line
    BY <1>3, <2>1
  <2>3. Expected = LineAt(p, c - 1) + p.mode.line
    BY <1>4, <1>5, <1>7 DEF Expected
  <2> QED
    BY <1>1, <1>3, <1>5, <2>1, <2>2, <2>3 DEF p
<1> QED
  BY <1>6, <1>7

\* The edge of a line that is held is where the line is, and its content is its own.
LEMMA LineRead ==
  ASSUME manual = NoMode, PictureType, FrameInv, script \in Scripts, NEW k, NEW c, At(k, c),
         LineHeld
  PROVE  /\ Edge = LineAt(Pics[k], c)
         /\ Content(Edge + 1) = <<k, c>>
         /\ Known(Edge + state.mode.line - 1)
         /\ Content(Edge + state.mode.line - 1) = <<k, c>>
<1> DEFINE p == Pics[k]
           E == LineAt(p, c)
           w == p.mode.line
<1>1. k \in 1..Len(Pics) /\ c \in 0..Count(p) - 1 /\ state.mode = p.mode
  BY DEF At
<1>a. state.line = LineAt(p, IF c = 0 THEN 0 ELSE c - 1)
  BY DEF At
<1>2. /\ p.mode \in Modes /\ w > 1 /\ p.bits \in Nat
      /\ Hz(E) = "sync"
      /\ \A i \in 1..w - 1 : Hz(E + i) # "sync" /\ script.tones[E + i + 1].of = <<k, c>>
  <2>1. /\ p.mode \in Modes /\ w > 1 /\ p.bits \in Nat
        /\ \A d \in 0..Count(p) - 1 :
             /\ Hz(LineAt(p, d)) = "sync"
             /\ \A i \in 1..w - 1 :
                  /\ Hz(LineAt(p, d) + i) # "sync"
                  /\ script.tones[LineAt(p, d) + i + 1].of = <<k, d>>
    BY <1>1, OnePicture
  <2> HIDE DEF p, w
  <2>2. /\ Hz(LineAt(p, c)) = "sync"
        /\ \A i \in 1..w - 1 :
             /\ Hz(LineAt(p, c) + i) # "sync"
             /\ script.tones[LineAt(p, c) + i + 1].of = <<k, c>>
    BY <1>1, <2>1, Zenon
  <2> QED
    BY <2>1, <2>2
<1>3. /\ w \in Nat /\ Count(p) \in Nat
      /\ \A d \in Nat : LineAt(p, d) \in Int /\ LineAt(p, d + 1) = LineAt(p, d) + w
  BY <1>2, LineTimes
<1>4. c \in Nat /\ E \in Int /\ Expected = E
  BY LineExpected
<1>5. state.rows = 0 <=> c = 0
  BY LineExpected
<1>6. /\ held.t0 \in Int /\ held.end \in Int /\ state.line \in Int
      /\ held.t0 <= state.line
  BY DEF PictureType, FrameInv, States
<1>7. Expected + w + Margin < held.end
  BY <1>1 DEF LineHeld, Known
<1>8. state.line <= E
  <2>1. CASE c = 0
    BY <1>a, <1>4, <2>1
  <2>2. CASE c # 0
    <3> HIDE DEF p, E, w
    <3>1. c - 1 \in Nat /\ (c - 1) + 1 = c
      BY <1>4, <2>2
    <3>2. LineAt(p, (c - 1) + 1) = LineAt(p, c - 1) + w /\ LineAt(p, c - 1) \in Int
      BY <1>3, <3>1
    <3>3. E = LineAt(p, c - 1) + w
      BY <3>1, <3>2 DEF E
    <3>4. state.line = LineAt(p, c - 1)
      BY <1>a, <2>2
    <3> QED
      BY <1>3, <3>2, <3>3, <3>4
  <2> QED
    BY <2>1, <2>2
<1>9. c # 0 => Hz(E - 1) # "sync"
  <2> SUFFICES ASSUME c # 0 PROVE Hz(E - 1) # "sync"
    OBVIOUS
  <2>1. c - 1 \in 0..Count(p) - 1 /\ c - 1 \in Nat /\ (c - 1) + 1 = c
    <3> DEFINE n == Count(p)
    <3>1. n \in Nat /\ c \in 0..n - 1 /\ c \in Nat
      BY <1>1, <1>3, <1>4
    <3> HIDE DEF n
    <3>2. c - 1 \in 0..n - 1 /\ c - 1 \in Nat /\ (c - 1) + 1 = c
      BY <3>1
    <3> QED
      BY <3>2 DEF n
  <2> DEFINE b == LineAt(p, c - 1)
  <2>2. \A i \in 1..w - 1 : Hz(b + i) # "sync"
    BY <1>1, <2>1, OnePicture
  <2>3. E = b + w /\ b \in Int
    <3> HIDE DEF p, E, w
    <3>1. LineAt(p, (c - 1) + 1) = b + w /\ b \in Int
      BY <1>3, <2>1
    <3> QED
      BY <2>1, <3>1 DEF E
  <2> HIDE DEF b, E, w, p
  <2>4. w - 1 \in 1..w - 1 /\ b + (w - 1) = E - 1
    BY <1>2, <1>3, <2>3
  <2>5. Hz(b + (w - 1)) # "sync"
    BY <2>2, <2>4
  <2> QED
    BY <2>4, <2>5
<1> HIDE DEF p, E, w
<1>10. Hz(E + 1) # "sync"
  <2>1. 1 \in 1..w - 1
    BY <1>2, <1>3
  <2> QED
    BY <1>2, <2>1
<1>11. {i \in Edges : Hz(i) = "sync"} = {E}
  <2>1. E \in Edges
    <3>1. E \in Expected - Back..Expected + 1
      BY <1>4 DEF Back
    <3>2. Held(E)
      BY <1>3, <1>4, <1>6, <1>7, <1>8, <1>2, Times_ DEF Held
    <3> QED
      BY <1>2, <3>1, <3>2 DEF Edges
  <2>2. ASSUME NEW i \in Edges, Hz(i) = "sync" PROVE i = E
    <3>1. i \in Expected - Back..Expected + 1
      BY DEF Edges
    <3>2. CASE c = 0
      <4>1. Back = 0
        BY <1>5, <3>2 DEF Back
      <4>2. i \in Int /\ E - 0 <= i /\ i <= E + 1
        BY <1>4, <3>1, <4>1
      <4> QED
        BY <1>4, <1>10, <2>2, <4>2
    <3>3. CASE c # 0
      <4>1. Back = 1
        BY <1>5, <3>3 DEF Back
      <4>2. i \in Int /\ E - 1 <= i /\ i <= E + 1
        BY <1>4, <3>1, <4>1
      <4>3. i = E - 1 \/ i = E \/ i = E + 1
        BY <1>4, <4>2
      <4> QED
        BY <1>9, <1>10, <2>2, <3>3, <4>3
    <3> QED
      BY <3>2, <3>3
  <2> QED
    BY <1>2, <2>1, <2>2
<1>12. Edge = E
  <2>1. (\E i \in Edges : Hz(i) = "sync") /\ Edges # {}
    BY <1>11
  <2>2. Edge = CHOOSE i \in {E} : \A j \in {E} : i <= j
    BY <1>11, <2>1 DEF Edge
  <2>3. E \in {E} /\ \A j \in {E} : E <= j
    BY <1>4
  <2>4. (CHOOSE i \in {E} : \A j \in {E} : i <= j) \in {E}
    BY <2>3
  <2> QED
    BY <2>2, <2>4
<1>13. ASSUME NEW i \in 1..w - 1 PROVE Known(E + i) /\ Content(E + i) = <<k, c>>
  <2>1. Known(E + i)
    BY <1>3, <1>4, <1>6, <1>7, <1>13, Times_ DEF Known
  <2>2. E + i \in Int /\ E + i >= held.t0
    BY <1>3, <1>4, <1>6, <1>8, <1>13
  <2> DEFINE j == E + i
  <2>3. Max({j, held.t0}) = j
    <3> HIDE DEF j
    <3> QED
      BY <1>6, <2>2, MaxOfTwo DEF j
  <2>4. Content(j) = script.tones[j + 1].of
    BY <2>1, <2>3 DEF Content
  <2> QED
    BY <1>2, <2>1, <2>4
<1>14. 1 \in 1..w - 1 /\ w - 1 \in 1..w - 1 /\ E + (w - 1) = E + w - 1
  BY <1>2, <1>3, <1>4
<1>15. /\ Content(E + 1) = <<k, c>> /\ Known(E + (w - 1)) /\ Content(E + (w - 1)) = <<k, c>>
  BY <1>13, <1>14
<1>16. state.mode.line = w
  BY <1>1 DEF w
<1> QED
  BY <1>12, <1>14, <1>15, <1>16 DEF E, p

\* A line pushed after the others is on the sheet with them.
LEMMA LinePainted ==
  ASSUME NEW p, p.mode \in Modes, p.mode.line > 1, p.bits \in Nat, NEW k,
         NEW c \in 0..Count(p) - 1, NEW drawn, Painted(drawn, p, k, c),
         NEW row, row.mode = p.mode, row.whole, row.of = <<k, c>>
  PROVE  Painted(PushLine(drawn, c * p.mode.per, row), p, k, c + 1)
<1> DEFINE m == p.mode
           per == m.per
           rows == m.rows
           first == c * per
           new == PushLine(drawn, first, row)
<1>1. /\ per \in Nat \ {0} /\ rows \in Nat \ {0} /\ Count(p) \in Nat /\ rows = Count(p) * per
  BY LineTimes
<1>2. c \in Nat /\ c + 1 <= Count(p)
  <2> HIDE DEF per, rows
  <2> QED
    BY <1>1
<1>3. /\ new.rows = rows
      /\ \A i \in 0..rows - 1 :
           new.px[i] = IF first <= i /\ i < first + per THEN <<row>>
                       ELSE IF drawn.rows = rows /\ first # 0 THEN drawn.px[i] ELSE <<>>
  BY DEF PushLine
<1>4. /\ c > 0 => drawn.rows = rows
      /\ \A y \in 0..first - 1 :
           c > 0 => /\ drawn.px[y] # <<>> /\ drawn.px[y][1].mode = m /\ drawn.px[y][1].whole
                    /\ drawn.px[y][1].of = <<k, y \div per>>
  BY DEF Painted
<1>5. /\ first \in Nat /\ (c + 1) * per = first + per /\ (c + 1) * per <= rows
      /\ first > 0 <=> c > 0
  <2> HIDE DEF per, rows
  <2>1. c * per \in Int /\ 0 * per <= c * per /\ (c + 1) * per <= Count(p) * per
    BY <1>1, <1>2, Product
  <2>2. (c + 1) * per = c * per + per /\ 0 * per = 0
    BY <1>1, <1>2
  <2>3. c > 0 => 1 * per <= c * per
    BY <1>1, <1>2, Product
  <2>4. 1 * per = per /\ (c = 0 => c * per = 0)
    BY <1>1
  <2> QED
    BY <1>1, <1>2, <2>1, <2>2, <2>3, <2>4
<1>6. row.mode = m
  OBVIOUS
<1> DEFINE after == first + per
<1>7. after <= rows /\ after \in Nat
  BY <1>1, <1>5
<1> HIDE DEF m, per, rows, new, after
<1>8. ASSUME NEW y \in 0..after - 1
      PROVE  /\ new.px[y] # <<>> /\ new.px[y][1].mode = m /\ new.px[y][1].whole
             /\ new.px[y][1].of = <<k, y \div per>>
  <2> HIDE DEF first
  <2>1. y \in Nat /\ y \in 0..rows - 1 /\ y < first + per
    BY <1>1, <1>5, <1>7 DEF after
  <2>2. CASE first <= y
    <3>1. new.px[y] = <<row>>
      BY <1>3, <2>1, <2>2
    <3>2. y \div per = c
      <4> DEFINE r == y - first
      <4>1. first = per * c
        BY <1>1, <1>2 DEF first
      <4>2. r \in Nat /\ r < per /\ y = per * c + r
        BY <1>1, <1>5, <2>1, <2>2, <4>1
      <4>3. y \in Int /\ c \in Int
        BY <1>2, <2>1
      <4> HIDE DEF r
      <4> QED
        BY <1>1, <4>2, <4>3, DivisionUnique
    <3>3. new.px[y] # <<>> /\ new.px[y][1] = row
      BY <3>1
    <3> QED
      BY <1>6, <3>2, <3>3
  <2>3. CASE y < first
    <3>1. c > 0 /\ first # 0 /\ y \in 0..first - 1
      BY <1>2, <1>5, <2>1, <2>3
    <3>2. new.px[y] = drawn.px[y]
      BY <1>3, <1>4, <1>5, <2>1, <2>3, <3>1
    <3> QED
      BY <1>4, <3>1, <3>2
  <2> QED
    BY <1>5, <2>1, <2>2, <2>3
<1>9. (c + 1) * per = after
  BY <1>5 DEF after
<1>10. /\ new.rows = rows
       /\ \A y \in 0..(c + 1) * per - 1 :
            /\ new.px[y] # <<>>
            /\ new.px[y][1].mode = m /\ new.px[y][1].whole
            /\ new.px[y][1].of = <<k, y \div per>>
  <2> HIDE DEF first
  <2> QED
    BY <1>3, <1>8, <1>9
<1> HIDE DEF first
<1>11. Painted(new, p, k, c + 1)
  BY <1>10 DEF Painted, m, per, rows
<1> QED
  BY <1>11 DEF new, first, per, m

\* A line is decoded after the one before it; the last one brings the search beyond it.
LEMMA LineFollows ==
  ASSUME manual = NoMode, PictureType, FrameInv, PaintInv, script \in Scripts, DecodeLine
  PROVE  /\ state'.kind = "search" => LedInv' /\ SeekInv'
         /\ state'.kind \in {"search", "frame"}
         /\ state'.kind = "frame" => PaintInv'
<1>0. PICK k \in 1..Len(Pics) : \E c \in 0..Count(Pics[k]) - 1 :
        At(k, c) /\ (k = Len(Pics) => Painted(sheet, Pics[k], k, c))
  BY DEF PaintInv, At
<1>1. PICK c \in 0..Count(Pics[k]) - 1 :
        At(k, c) /\ (k = Len(Pics) => Painted(sheet, Pics[k], k, c))
  BY <1>0
<1> DEFINE p == Pics[k]
           m == state.mode
           E == LineAt(p, c)
           row == [mode |-> m, of |-> Content(Edge + 1),
                   whole |-> Known(Edge + m.line - 1)
                             /\ Content(Edge + m.line - 1) = Content(Edge + 1)]
<1>2. /\ script' = script /\ LineHeld /\ state.kind = "frame"
      /\ sheet' = PushLine(sheet, state.rows, row)
      /\ IF state.rows + m.per >= m.rows
           THEN state' = Search /\ run' = Scan(Edge + m.line, Idle, run.onset)
           ELSE state' = [state EXCEPT !.line = Edge, !.rows = @ + m.per] /\ UNCHANGED run
  BY DEF DecodeLine
<1>a. /\ Edge = E /\ Content(Edge + 1) = <<k, c>>
      /\ Known(Edge + m.line - 1) /\ Content(Edge + m.line - 1) = <<k, c>>
  BY <1>1, <1>2, LineRead
<1>3. Edge = E /\ row.mode = m /\ row.whole /\ row.of = <<k, c>>
  BY <1>a
<1> HIDE DEF row
<1>4. Pics' = Pics /\ Final' = Final
  BY <1>2 DEF Pics, Final
<1>5. m = p.mode /\ state.rows = c * m.per /\ c \in 0..Count(p) - 1
  BY <1>1 DEF At
<1>6. /\ p.mode \in Modes /\ p.mode.line > 1 /\ p.bits \in Nat
      /\ k < Len(Pics) => Over(p) <= Final.start
  BY OnePicture
<1>7. /\ m.per \in Nat \ {0} /\ Count(p) \in Nat /\ m.rows = Count(p) * m.per
      /\ E \in Int /\ LineAt(p, c + 1) = E + m.line /\ c \in Nat /\ c + 1 <= Count(p)
  <2>1. /\ m.per \in Nat \ {0} /\ Count(p) \in Nat /\ m.rows = Count(p) * m.per
        /\ \A d \in Nat : LineAt(p, d) \in Int /\ LineAt(p, d + 1) = LineAt(p, d) + m.line
    BY <1>5, <1>6, LineTimes
  <2>2. c \in Nat /\ c + 1 <= Count(p)
    <3> HIDE DEF p
    <3> QED
      BY <1>5, <2>1
  <2> QED
    BY <2>1, <2>2
<1>8. k = Len(Pics) => Painted(sheet', p, k, c + 1)
  <2> SUFFICES ASSUME k = Len(Pics) PROVE Painted(sheet', p, k, c + 1)
    OBVIOUS
  <2>1. Painted(sheet, p, k, c)
    BY <1>1
  <2> HIDE DEF p, m
  <2>2. Painted(PushLine(sheet, c * p.mode.per, row), p, k, c + 1)
    BY <1>3, <1>5, <1>6, <2>1, LinePainted
  <2> QED
    BY <1>2, <1>5, <2>2
<1> HIDE DEF p, m, E
<1>9. state.rows + m.per >= m.rows <=> c + 1 >= Count(p)
  <2> DEFINE n == Count(p)
             w == m.per
  <2>1. /\ n \in Nat /\ w \in Nat \ {0} /\ c \in Nat /\ m.rows = n * w
        /\ state.rows = c * w
    BY <1>5, <1>7
  <2> HIDE DEF n, w
  <2>2. (c + 1) * w = c * w + w /\ (c + 2) * w = c * w + w + w /\ c * w \in Nat
    BY <2>1
  <2>3. CASE c + 1 >= n
    <3>1. n * w <= (c + 1) * w
      BY <2>1, <2>3, Product
    <3> QED
      BY <2>1, <2>2, <2>3, <3>1 DEF n, w
  <2>4. CASE c + 1 < n
    <3>1. (c + 2) * w <= n * w /\ n * w \in Int
      BY <2>1, <2>4, Product
    <3>2. ~(c * w + w >= n * w)
      <4> DEFINE a == c * w
                 b == n * w
                 d == (c + 2) * w
      <4>1. a \in Nat /\ b \in Int /\ d <= b /\ d = a + w + w
        BY <2>2, <3>1
      <4> HIDE DEF a, b, d
      <4>2. ~(a + w >= b)
        BY <2>1, <4>1
      <4> QED
        BY <4>2 DEF a, b
    <3> QED
      BY <2>1, <2>4, <3>2 DEF n, w
  <2> QED
    BY <2>1, <2>3, <2>4
<1>10. CASE c + 1 >= Count(p)
  <2>1. state' = Search /\ run' = Scan(Edge + m.line, Idle, run.onset) /\ c + 1 = Count(p)
    BY <1>2, <1>7, <1>9, <1>10
  <2>2. /\ run'.cur = LineAt(p, c + 1) /\ run'.leader = 0 /\ run'.saw = FALSE
    BY <1>3, <1>7, <2>1 DEF Scan, Idle
  <2>3. run'.cur = Over(p) /\ run'.cur \in Int
    BY <1>3, <1>7, <2>1, <2>2, ModeFields, <1>6, <1>5 DEF Over
  <2>4. LedInv'
    BY <2>2 DEF LedInv
  <2>5. SeekInv'
    <3>1. CASE k = Len(Pics)
      <4>1. p = Final
        BY <3>1, LastPicture DEF p
      <4>2. Painted(sheet', Final, Len(Pics), Count(Final)) /\ run'.cur >= Over(Final)
        BY <1>8, <2>1, <2>3, <3>1, <4>1
      <4> QED
        BY <1>4, <4>2 DEF SeekInv
    <3>2. CASE k # Len(Pics)
      <4>1. k < Len(Pics)
        BY <3>2, OnTheAir
      <4> QED
        BY <1>4, <1>6, <2>3, <4>1 DEF SeekInv
    <3> QED
      BY <3>1, <3>2
  <2> QED
    BY <2>1, <2>4, <2>5, StateFields
<1>11. CASE ~(c + 1 >= Count(p))
  <2>1. state' = [state EXCEPT !.line = Edge, !.rows = @ + m.per]
    BY <1>2, <1>9, <1>11
  <2>2. /\ state'.kind = "frame" /\ state'.mode = m /\ state'.line = E
        /\ state'.rows = state.rows + m.per
    BY <1>2, <1>3, <2>1 DEF PictureType, States, m
  <2> DEFINE d == c + 1
  <2>3. d \in 0..Count(p) - 1 /\ d # 0 /\ d - 1 = c
    BY <1>7, <1>11
  <2>4. state'.rows = d * m.per
    <3> DEFINE w == m.per
    <3>1. w \in Nat /\ c \in Nat /\ state'.rows = c * w + w
      BY <1>5, <1>7, <2>2
    <3> HIDE DEF w
    <3>2. (c + 1) * w = c * w + w
      BY <3>1
    <3> QED
      BY <3>1, <3>2 DEF w
  <2>5. k = Len(Pics) => Painted(sheet', p, k, d)
    BY <1>8
  <2> HIDE DEF d
  <2>6. /\ state'.mode = p.mode /\ state'.rows = d * state'.mode.per
        /\ state'.line = LineAt(p, IF d = 0 THEN 0 ELSE d - 1)
    BY <1>5, <2>2, <2>3, <2>4 DEF E
  <2>7. PaintInv'
    BY <1>4, <2>3, <2>5, <2>6 DEF PaintInv, p
  <2> QED
    BY <2>2, <2>7
<1> QED
  BY <1>10, <1>11

\* A receiver that is started has nothing held, no leader and a canvas without a row.
LEMMA WholeFresh ==
  ASSUME NEW pos \in Nat, pos <= Len(script'.tones), script' \in Scripts, Fresh(pos)
  PROVE  WholeInv'
<1>1. /\ held' = [t0 |-> pos, end |-> pos] /\ since' = pos /\ run' = Scan(pos, Idle, pos)
      /\ state' = Search /\ sheet' = Blank /\ canvas' = Blank
  BY DEF Fresh
<1>2. state'.kind = "search"
  BY <1>1, StateFields
<1>3. run'.cur = pos /\ run'.leader = 0 /\ run'.saw = FALSE /\ held'.t0 = pos /\ held'.end = pos
  BY <1>1 DEF Scan, Idle
<1>4. Waiting'
  BY <1>2, <1>3 DEF Waiting
<1>5. Settled'
  BY <1>1, <1>3, <1>4 DEF Settled
<1>6. since' <= Final'.start => LedInv' /\ SeekInv'
  BY <1>1, <1>3 DEF LedInv, SeekInv
<1> QED
  BY <1>2, <1>5, <1>6 DEF WholeInv

\* So it begins.
LEMMA WholeInit == Init => WholeInv
<1> SUFFICES ASSUME Init PROVE WholeInv
  OBVIOUS
<1>1. /\ script \in Scripts /\ held = [t0 |-> 0, end |-> 0] /\ since = 0 /\ run = Scan(0, Idle, 0)
      /\ state = Search /\ sheet = Blank /\ canvas = Blank
  BY DEF Init
<1>2. state.kind = "search"
  BY <1>1, StateFields
<1>3. run.cur = 0 /\ run.leader = 0 /\ run.saw = FALSE /\ held.t0 = 0 /\ held.end = 0
  BY <1>1 DEF Scan, Idle
<1>4. Waiting
  BY <1>2, <1>3 DEF Waiting
<1>5. Settled
  <2>1. Len(script.tones) \in Nat
    BY <1>1, OnTheAir
  <2> QED
    BY <1>1, <1>3, <1>4, <2>1 DEF Settled
<1>6. since <= Final.start => LedInv /\ SeekInv
  BY <1>1, <1>3 DEF LedInv, SeekInv
<1> QED
  BY <1>2, <1>5, <1>6 DEF WholeInv

\* Every step of the receiver keeps to the picture that is on the air.
LEMMA WholeNext == PictureInv /\ WholeInv /\ [Next]_vars => WholeInv'
<1> SUFFICES ASSUME PictureInv, WholeInv, [Next]_vars, manual' = NoMode PROVE WholeInv'
  BY DEF WholeInv
<1>0. manual = NoMode /\ script' = script
  BY DEF Next, Feed, Look, BeginPicture, ReadHeader, DecodeLine, Deliver, Restart, vars
<1>a. /\ PictureType /\ Settled
      /\ state.kind = "search" => SearchInv
      /\ state.kind = "vis" => VisInv
      /\ state.kind = "frame" => FrameInv
  BY <1>0 DEF PictureInv, WholeInv
<1>b. since <= Final.start =>
        /\ state.kind = "search" => LedInv /\ SeekInv
        /\ state.kind = "vis" => ReadInv
        /\ state.kind = "frame" => PaintInv
  BY <1>0 DEF WholeInv
<1>c. /\ held.t0 \in Int /\ held.end \in Int /\ held.t0 <= held.end
      /\ run \in Scans /\ run.cur \in Int /\ state.bit0 \in Int /\ state.line \in Int
      /\ state.kind \in {"search", "vis", "frame"}
  BY <1>a DEF PictureType, Scans, States
<1>d. /\ script \in Scripts /\ held.t0 >= 0 /\ held.end <= Len(script.tones)
      /\ ~busy => Waiting /\ canvas = sheet
  BY <1>a DEF Settled
<1>e. Pics' = Pics /\ Final' = Final
  BY <1>0 DEF Pics, Final
<1>1. ASSUME Feed PROVE WholeInv'
  <2>1. PICK n \in 1..MaxBlock :
          held.end + n <= Len(script.tones) /\ held' = [held EXCEPT !.end = @ + n]
    BY <1>1 DEF Feed
  <2>2. /\ busy' /\ run' = run /\ state' = state /\ sheet' = sheet /\ since' = since
    BY <1>1 DEF Feed
  <2>3. held'.t0 = held.t0 /\ held'.end <= Len(script.tones)
    BY <1>a, <1>c, <2>1 DEF PictureType
  <2>4. Settled'
    BY <1>0, <1>d, <2>2, <2>3 DEF Settled
  <2>5. /\ LedInv => LedInv'
        /\ SeekInv => SeekInv'
        /\ ReadInv => ReadInv'
        /\ PaintInv => PaintInv'
    BY <1>0, <1>e, <2>2, <2>3 DEF LedInv, Onset, SeekInv, ReadInv, HeaderRead, PaintInv
  <2> QED
    BY <1>b, <1>e, <2>2, <2>4, <2>5 DEF WholeInv
<1>2. ASSUME Look PROVE WholeInv'
  <2>1. /\ busy /\ busy' = busy /\ state.kind = "search" /\ state' = state /\ held' = held
        /\ since' = since
    BY <1>2 DEF Look, Searching
  <2>2. Settled'
    BY <1>0, <1>d, <2>1 DEF Settled
  <2>3. LedInv /\ SeekInv => LedInv' /\ SeekInv'
    BY <1>0, <1>a, <1>d, <1>2, <2>1, LedLook, SeekLook
  <2> QED
    BY <1>b, <1>e, <2>1, <2>2, <2>3 DEF WholeInv
<1>3. ASSUME BeginPicture PROVE WholeInv'
  <2>1. busy /\ busy' = busy /\ state.kind = "search" /\ held' = held /\ since' = since
    BY <1>3 DEF BeginPicture, Begins, Searching
  <2>2. Settled'
    BY <1>0, <1>d, <2>1 DEF Settled
  <2>3. LedInv => state'.kind = "vis" /\ ReadInv'
    BY <1>0, <1>a, <1>d, <1>3, <2>1, BeginReads
  <2> QED
    BY <1>b, <1>e, <2>1, <2>2, <2>3 DEF WholeInv
<1>4. ASSUME ReadHeader PROVE WholeInv'
  <2>1. busy /\ busy' = busy /\ state.kind = "vis" /\ since' = since /\ DropTo(HeaderRead, Rest(run))
    BY <1>4 DEF ReadHeader
  <2>2. held'.end = held.end /\ held.t0 <= held'.t0 /\ held'.t0 \in Int
    <3>1. Rest(run) \in Scans
      BY <1>c DEF Rest, Scan, Idle, Scans
    <3>2. HeaderRead \in Int
      BY <1>c, HeaderTakes, Times_ DEF HeaderRead
    <3> QED
      BY <1>a, <2>1, <3>1, <3>2, Dropped
  <2>3. Settled'
    <3>1. held'.t0 >= 0
      BY <1>c, <1>d, <2>2
    <3> QED
      BY <1>0, <1>d, <2>1, <2>2, <3>1 DEF Settled
  <2>4. ReadInv =>
          /\ state'.kind = "search" => LedInv' /\ SeekInv'
          /\ state'.kind = "vis" => ReadInv'
          /\ state'.kind = "frame" => PaintInv'
    BY <1>0, <1>a, <1>d, <1>4, <2>1, ReadLeads
  <2> QED
    BY <1>b, <1>e, <2>1, <2>3, <2>4 DEF WholeInv
<1>5. ASSUME DecodeLine PROVE WholeInv'
  <2>1. busy /\ busy' = busy /\ state.kind = "frame" /\ since' = since /\ held' = held
    BY <1>5 DEF DecodeLine
  <2>2. Settled'
    BY <1>0, <1>d, <2>1 DEF Settled
  <2>3. PaintInv =>
          /\ state'.kind = "search" => LedInv' /\ SeekInv'
          /\ state'.kind \in {"search", "frame"}
          /\ state'.kind = "frame" => PaintInv'
    BY <1>0, <1>a, <1>d, <1>5, <2>1, LineFollows
  <2> QED
    BY <1>b, <1>e, <2>1, <2>2, <2>3 DEF WholeInv
<1>6. ASSUME Deliver PROVE WholeInv'
  <2>1. /\ Waiting /\ DropTo(KeepFrom, run) /\ state' = state /\ sheet' = sheet /\ canvas' = sheet
        /\ since' = since
    BY <1>6 DEF Deliver
  <2>2. /\ state.kind = "search" => KeepFrom = held.end - Hold
        /\ state.kind = "vis" => KeepFrom = state.bit0 - HoldVis
        /\ state.kind = "frame" => KeepFrom = state.line
    <3>1. state.kind = "search" => KeepFrom = held.end - Hold
      BY DEF KeepFrom
    <3>2. state.kind = "vis" => KeepFrom = state.bit0 - HoldVis
      BY DEF KeepFrom
    <3>3. state.kind = "frame" => KeepFrom = state.line
      BY DEF KeepFrom
    <3> QED
      BY <3>1, <3>2, <3>3
  <2>3. KeepFrom \in Int
    BY <1>c, <2>2, Times_
  <2>4. /\ held'.end = held.end /\ held.t0 <= held'.t0 /\ held'.t0 <= held.end
        /\ held'.t0 > held.t0 => held'.t0 <= KeepFrom
        /\ run'.cur = run.cur \/ run'.cur = held'.t0
        /\ run'.cur >= run.cur /\ held'.t0 \in Int /\ run'.cur \in Int
        /\ run'.start = run.start /\ run'.onset = run.onset
        /\ run'.leader = run.leader /\ run'.quiet = run.quiet /\ run'.saw = run.saw
    BY <1>a, <1>c, <2>1, <2>3, Dropped DEF Scans
  <2>5. state.kind = "search" => run'.cur = run.cur /\ run.cur >= held.end
    <3>1. state.kind = "search" => run.cur >= held.end
      BY <2>1 DEF Waiting
    <3> QED
      BY <1>c, <2>4, <3>1
  <2>6. Waiting'
    <3>1. CASE state.kind = "search"
      BY <2>1, <2>4, <2>5, <3>1 DEF Waiting
    <3>2. CASE state.kind = "vis"
      BY <2>1, <2>4, <3>2 DEF Waiting, Known
    <3>3. CASE state.kind = "frame"
      BY <2>1, <2>4, <3>3 DEF Waiting, LineHeld, Known, Expected
    <3> QED
      BY <1>c, <3>1, <3>2, <3>3
  <2>7. Settled'
    <3>1. held'.t0 >= 0
      BY <1>c, <1>d, <2>4
    <3> QED
      BY <1>0, <1>d, <2>1, <2>4, <2>6, <3>1 DEF Settled
  <2>8. state.kind = "search" /\ LedInv /\ SeekInv => LedInv' /\ SeekInv'
    BY <1>0, <1>e, <2>1, <2>4, <2>5 DEF LedInv, Onset, SeekInv
  <2>9. state.kind = "vis" /\ ReadInv => ReadInv'
    <3> SUFFICES ASSUME state.kind = "vis", ReadInv PROVE ReadInv'
      OBVIOUS
    <3>1. HeaderRead' = HeaderRead
      BY <2>1 DEF HeaderRead
    <3>2. CASE \E k \in 1..Len(Pics) : state.bit0 = Pics[k].bits
      BY <1>e, <2>1, <3>2 DEF ReadInv
    <3>3. CASE /\ HeaderRead <= Final.start /\ run.cur <= Final.start /\ held.t0 <= Final.start
               /\ \A m \in Modes : ~Bears(script, state.bit0, m)
      <4>1. KeepFrom <= HeaderRead /\ HeaderRead \in Int
        BY <1>c, <2>2, HeaderTakes, Times_ DEF HeaderRead
      <4>2. Final.start \in Nat
        BY <1>d, LastPicture, OnePicture
      <4>3. held'.t0 <= Final.start /\ run'.cur <= Final.start
        BY <1>c, <2>3, <2>4, <3>3, <4>1, <4>2
      <4> QED
        BY <1>0, <1>e, <2>1, <3>1, <3>3, <4>3 DEF ReadInv
    <3> QED
      BY <3>2, <3>3 DEF ReadInv
  <2>10. PaintInv => PaintInv'
    BY <1>e, <2>1 DEF PaintInv
  <2> QED
    BY <1>b, <1>e, <2>1, <2>7, <2>8, <2>9, <2>10 DEF WholeInv
<1>7. ASSUME Restart PROVE WholeInv'
  <2>1. PICK missed \in 0..MaxBlock :
          held.end + missed <= Len(script.tones) /\ Fresh(held.end + missed)
    BY <1>7 DEF Restart
  <2>2. held.end + missed \in Nat
    BY <1>c, <1>d, <2>1
  <2> QED
    BY <1>0, <1>d, <2>1, <2>2, WholeFresh
<1>8. CASE UNCHANGED vars
  <2>1. /\ held' = held /\ run' = run /\ state' = state /\ sheet' = sheet /\ canvas' = canvas
        /\ busy' = busy /\ since' = since
    BY <1>8 DEF vars
  <2>2. Waiting' <=> Waiting
    BY <2>1 DEF Waiting, Known, LineHeld, Expected
  <2>3. Settled'
    BY <1>0, <1>d, <2>1, <2>2 DEF Settled
  <2>4. /\ LedInv => LedInv'
        /\ SeekInv => SeekInv'
        /\ ReadInv => ReadInv'
        /\ PaintInv => PaintInv'
    BY <1>0, <1>e, <2>1 DEF LedInv, Onset, SeekInv, ReadInv, HeaderRead, PaintInv
  <2> QED
    BY <1>b, <1>e, <2>1, <2>3, <2>4 DEF WholeInv
<1> QED
  BY <1>1, <1>2, <1>3, <1>4, <1>5, <1>6, <1>7, <1>8 DEF Next

\* At the end of what is on the air the receiver waits for nothing of a picture.
LEMMA WholeEnd == PictureInv /\ WholeInv => WholePicture
<1> SUFFICES ASSUME PictureInv, WholeInv PROVE WholePicture
  OBVIOUS
<1> SUFFICES ASSUME held.end = Len(script.tones), ~busy, manual = NoMode, since <= Final.start
             PROVE  /\ canvas.rows = Final.mode.rows
                    /\ \A y \in 0..Final.mode.rows - 1 :
                         /\ canvas.px[y] # <<>> /\ canvas.px[y][1].mode = Final.mode
                         /\ canvas.px[y][1].whole
                         /\ canvas.px[y][1].of = <<Len(Pics), y \div Final.mode.per>>
  <2>1. script \in Scripts => script.pictures[Len(script.pictures)] = Final
    BY LastPicture DEF Pics
  <2>2. manual = NoMode => script \in Scripts
    BY DEF WholeInv, Settled
  <2> QED
    BY <2>1, <2>2 DEF WholePicture, Pics
<1>1. /\ Waiting /\ canvas = sheet /\ script \in Scripts
      /\ state.kind = "search" => LedInv /\ SeekInv
      /\ state.kind = "vis" => ReadInv
      /\ state.kind = "frame" => PaintInv
  BY DEF WholeInv, Settled
<1>2. /\ run.cur \in Int /\ held.end \in Int /\ state.bit0 \in Int
      /\ state.kind \in {"search", "vis", "frame"}
  BY DEF PictureInv, PictureType, Scans, States
<1>3. /\ Final.mode \in Modes /\ Final.mode.line > 1 /\ Final.start \in Nat /\ Final.bits \in Nat
      /\ Final.start + LeaderMin < Final.bits - Bit
      /\ Final.bits < LineAt(Final, 0) /\ LineAt(Final, 0) < Over(Final)
      /\ Over(Final) + Margin < held.end
  BY <1>1, LastPicture, OnePicture, OnTheAir
<1>4. /\ Count(Final) \in Nat /\ Count(Final) > 0 /\ LineAt(Final, 0) \in Int /\ Over(Final) \in Int
      /\ Final.mode.rows = Count(Final) * Final.mode.per
  <2>1. Count(Final) \in Nat /\ 0 \in Nat
    BY <1>3, LineTimes
  <2> QED
    BY <1>3, <2>1, LineTimes DEF Over
<1> DEFINE s == Final.start
           b == Final.bits
           o == Over(Final)
<1>a. /\ s \in Int /\ b \in Int /\ o \in Int /\ s < held.end /\ b < held.end
      /\ o + Margin < held.end
  <2> DEFINE l == LineAt(Final, 0)
  <2>1. /\ s \in Nat /\ b \in Nat /\ s + LeaderMin < b - Bit /\ b < l /\ l < o
        /\ o + Margin < held.end /\ l \in Int /\ o \in Int
    BY <1>3, <1>4
  <2> HIDE DEF s, b, o, l
  <2> QED
    BY <1>2, <2>1, Times_
<1> HIDE DEF s, b, o
<1>5. CASE state.kind = "search"
  <2>1. run.cur >= held.end
    BY <1>1, <1>5 DEF Waiting
  <2>2. ~(run.cur <= s) /\ ~(run.cur <= b)
    BY <1>2, <1>a, <2>1
  <2>3. Painted(sheet, Final, Len(Pics), Count(Final))
    BY <1>1, <1>5, <2>2 DEF SeekInv, s, b
  <2> QED
    BY <1>1, <1>4, <2>3 DEF Painted
<1>6. CASE state.kind = "vis"
  <2>1. ~(state.bit0 + (NBits + 1) * Bit < held.end)
    BY <1>1, <1>6 DEF Waiting, Known
  <2>2. /\ NBits * Bit \in Nat /\ (NBits + 2) * Bit = NBits * Bit + Bit + Bit
        /\ (NBits + 1) * Bit = NBits * Bit + Bit
    BY HeaderTakes
  <2>3. HeaderRead \in Int /\ HeaderRead >= held.end
    <3> DEFINE h == NBits * Bit
               g == (NBits + 2) * Bit
               f == (NBits + 1) * Bit
    <3>1. /\ h \in Nat /\ g = h + Bit + Bit /\ f = h + Bit /\ ~(state.bit0 + f < held.end)
          /\ HeaderRead = state.bit0 + g
      BY <2>1, <2>2 DEF HeaderRead
    <3> HIDE DEF h, g, f
    <3> QED
      BY <1>2, <3>1, Times_
  <2>4. PICK k \in 1..Len(Pics) : state.bit0 = Pics[k].bits
    <3>1. ~(HeaderRead <= s)
      BY <1>2, <1>a, <2>3
    <3> QED
      BY <1>1, <1>6, <3>1 DEF ReadInv, s
  <2> DEFINE p == Pics[k]
  <2>5. /\ LineAt(p, 0) < Over(p) /\ Over(p) <= Over(Final) /\ p.mode \in Modes /\ p.mode.line > 1
        /\ p.bits \in Nat
    BY <1>1, OnePicture
  <2>6. LineAt(p, 0) = p.bits + (NBits + 2) * Bit /\ Count(p) \in Nat
    BY <2>5, LineTimes
  <2>7. Over(p) \in Int /\ state.bit0 = p.bits
    BY <2>4, <2>5, <2>6, LineTimes DEF Over
  <2> DEFINE e == Over(p)
             l == LineAt(p, 0)
  <2>8. e \in Int /\ l < e /\ e <= o /\ l = HeaderRead
    BY <2>5, <2>6, <2>7 DEF HeaderRead, o
  <2> HIDE DEF p, e, l
  <2>9. FALSE
    BY <1>2, <1>a, <2>3, <2>8, Times_
  <2> QED
    BY <2>9
<1>7. CASE state.kind = "frame"
  <2>1. ~(Expected + state.mode.line + Margin < held.end)
    BY <1>1, <1>7 DEF Waiting, LineHeld, Known
  <2>2. PICK k \in 1..Len(Pics) : \E c \in 0..Count(Pics[k]) - 1 : At(k, c)
    BY <1>1, <1>7 DEF PaintInv, At
  <2>3. PICK c \in 0..Count(Pics[k]) - 1 : At(k, c)
    BY <2>2
  <2> DEFINE p == Pics[k]
  <2>4. Over(p) <= Over(Final) /\ p.mode \in Modes /\ p.mode.line > 1 /\ p.bits \in Nat
    BY <1>1, OnePicture
  <2>5. Expected = LineAt(p, c) /\ c \in Nat /\ state.mode = p.mode
    BY <1>1, <2>3, LineExpected DEF At
  <2>6. /\ Count(p) \in Nat /\ p.mode.line \in Nat
        /\ \A d \in Nat : LineAt(p, d) \in Int /\ LineAt(p, d + 1) = LineAt(p, d) + p.mode.line
        /\ \A d, e \in Nat : d <= e => LineAt(p, d) <= LineAt(p, e)
    BY <2>4, LineTimes
  <2>7. c \in 0..Count(p) - 1
    OBVIOUS
  <2> HIDE DEF p
  <2>8. c + 1 \in Nat /\ c + 1 <= Count(p)
    <3> DEFINE n == Count(p)
    <3>1. n \in Nat /\ c \in 0..n - 1
      BY <2>6, <2>7
    <3> HIDE DEF n
    <3>2. c + 1 \in Nat /\ c + 1 <= n
      BY <3>1
    <3> QED
      BY <3>2 DEF n
  <2>9. LineAt(p, c + 1) <= Over(p) /\ Over(p) \in Int
    BY <2>6, <2>8 DEF Over
  <2>10. LineAt(p, c + 1) = LineAt(p, c) + p.mode.line /\ LineAt(p, c) \in Int
    BY <2>5, <2>6
  <2> DEFINE x == LineAt(p, c)
             y == LineAt(p, c + 1)
             e == Over(p)
             w == p.mode.line
  <2>11. /\ x \in Int /\ w \in Nat /\ e \in Int /\ y = x + w /\ y <= e /\ e <= o
         /\ ~(x + w + Margin < held.end)
    BY <2>1, <2>4, <2>5, <2>6, <2>9, <2>10 DEF o
  <2> HIDE DEF x, y, e, w
  <2>12. FALSE
    BY <1>2, <1>a, <2>11, Times_
  <2> QED
    BY <2>12
<1> QED
  BY <1>2, <1>5, <1>6, <1>7

\* However the samples are cut into blocks, a picture whose leader comes while the receiver
\* listens is on the canvas when it is over, every row from its own line (feed of Decoder).
THEOREM PictureIsWhole == ReceiversSpec => []WholePicture
<1>1. ReceiversInit => PictureInv /\ WholeInv
  BY PictureInit, WholeInit DEF ReceiversInit
<1>2. PictureInv /\ WholeInv /\ [ReceiversNext]_all => PictureInv' /\ WholeInv'
  <2>1. [ReceiversNext]_all => [Next]_vars
    BY DEF ReceiversNext, all
  <2> QED
    BY <2>1, PictureNext, WholeNext
<1>3. PictureInv /\ WholeInv => WholePicture
  BY WholeEnd
<1> QED
  BY <1>1, <1>2, <1>3, PTL DEF ReceiversSpec

-----------------------------------------------------------------------------
(* Weather satellites: the line after a line *)

\* The last row is where the next one is expected from.
LinesInv ==
    /\ pass \in Passes
    /\ words \in [from: Int, end: Int] /\ next \in Int \cup {None}
    /\ image \in Seq(Int)
    /\ next = None => image = <<>>
    /\ next # None => image # <<>> /\ next = image[Len(image)] + Width
    /\ LinesFollow

\* A line is found: it begins at a word.
LEMMA FoundIsInt ==
  ASSUME LinesInv
  PROVE  A!Found \subseteq Int /\ A!Window \subseteq Int
<1>1. Width \in Nat /\ Radius \in Nat
  BY ReceiversAssumption DEF A!WordsAssumption
<1>2. A!Window \subseteq Int
  BY <1>1 DEF A!Window, LinesInv
<1> QED
  BY <1>2 DEF A!Found

\* After a line of the satellite, if it sends another one, the search finds that one.
LEMMA FoundNext ==
  ASSUME LinesInv, image # <<>>,
         NEW r \in Int, r = image[Len(image)], r \in pass.syncs, r >= pass.clear,
         NEW j \in pass.syncs, j > r
  PROVE  A!Found = {A!NextSync(r)}
<1>1. Width \in Nat /\ Radius \in Nat /\ 3 * Radius < Width /\ None \notin Int
  BY ReceiversAssumption DEF A!WordsAssumption
<1>2. next = r + Width /\ next # None /\ A!Window = next - Radius..next + Radius
  BY <1>1 DEF LinesInv, A!Window
<1>3. /\ pass.syncs \subseteq Nat
      /\ \A a, b \in pass.syncs : a < b =>
           /\ a + Width - Radius <= b
           /\ \E k \in pass.syncs : a < k /\ k <= a + Width + Radius
  BY ReceiversAssumption DEF A!PassesAssumption, LinesInv
<1>4. PICK k \in pass.syncs : r < k /\ k <= r + Width + Radius
  BY <1>3
<1>5. k \in Int /\ r + Width - Radius <= k
  BY <1>3, <1>4
<1>6. \A i \in pass.syncs : i > r => k <= i
  <2> SUFFICES ASSUME NEW i \in pass.syncs, i > r, i < k
               PROVE  FALSE
    BY <1>3, <1>5
  <2>1. r + Width - Radius <= i /\ i + Width - Radius <= k /\ i \in Int
    BY <1>3, <1>5
  <2> QED
    BY <1>1, <1>4, <1>5, <2>1
<1>7. A!NextSync(r) = k
  <2> DEFINE P(i) == i > r /\ \A b \in pass.syncs : b > r => i <= b
  <2>1. P(k) /\ \A i \in pass.syncs : P(i) => i = k
    BY <1>3, <1>4, <1>5, <1>6
  <2>2. A!NextSync(r) = CHOOSE i \in pass.syncs : P(i)
    BY DEF A!NextSync
  <2> HIDE DEF P
  <2> QED
    BY <2>1, <2>2
<1>8. {i \in A!Window : i \in pass.syncs /\ i >= pass.clear} = {k}
  <2>1. k \in A!Window
    BY <1>1, <1>2, <1>4, <1>5
  <2>2. k >= pass.clear
    <3>1. pass.clear \in Nat
      BY ReceiversAssumption DEF A!PassesAssumption, LinesInv
    <3> QED
      BY <1>4, <1>5, <3>1
  <2>3. ASSUME NEW i \in A!Window, i \in pass.syncs
        PROVE  i = k
    <3>1. i \in Int /\ i >= r + Width - Radius /\ i <= r + Width + Radius
      BY <1>1, <1>2, <2>3
    <3>2. i < k => i + Width - Radius <= k
      BY <1>3, <2>3
    <3>3. k < i => k + Width - Radius <= i
      BY <1>3, <2>3
    <3> QED
      BY <1>1, <1>4, <1>5, <3>1, <3>2, <3>3
  <2> QED
    BY <2>1, <2>2, <2>3
<1> QED
  BY <1>7, <1>8 DEF A!Found

\* The rows that are left and the one that is new.
LEMMA Pushed ==
  ASSUME LinesInv, NEW start \in Int, A!PushLine(start)
  PROVE  /\ image' \in Seq(Int) /\ image' # <<>> /\ image'[Len(image')] = start
         /\ \A i \in 1..Len(image') - 1 :
              \E k \in 1..Len(image) :
                /\ image'[i] = image[k]
                /\ image'[i + 1] = IF k = Len(image) THEN start ELSE image[k + 1]
<1>1. image \in Seq(Int) /\ Len(image) \in Nat
  BY DEF LinesInv
<1>2. MaxLines \in Nat \ {0}
  BY ReceiversAssumption DEF A!WordsAssumption
<1>3. CASE Len(image) = MaxLines
  <2>1. image # <<>> /\ image' = Append(Tail(image), start)
    BY <1>1, <1>2, <1>3 DEF A!PushLine
  <2>2. /\ Tail(image) \in Seq(Int) /\ Len(Tail(image)) = Len(image) - 1
        /\ \A i \in 1..Len(image) - 1 : Tail(image)[i] = image[i + 1]
    BY <1>1, <2>1
  <2>3. /\ image' \in Seq(Int) /\ Len(image') = Len(image) /\ image'[Len(image)] = start
        /\ \A i \in 1..Len(image) - 1 : image'[i] = image[i + 1]
    BY <1>1, <2>1, <2>2
  <2>4. \A i \in 1..Len(image') - 1 :
          /\ i + 1 \in 1..Len(image) /\ image'[i] = image[i + 1]
          /\ image'[i + 1] = IF i + 1 = Len(image) THEN start ELSE image[i + 1 + 1]
    BY <1>1, <2>3
  <2>5. image' # <<>>
    BY <1>1, <1>2, <1>3, <2>3
  <2> QED
    BY <2>3, <2>4, <2>5
<1>4. CASE Len(image) # MaxLines
  <2>1. image' = Append(image, start)
    BY <1>4 DEF A!PushLine
  <2>2. /\ image' \in Seq(Int) /\ Len(image') = Len(image) + 1 /\ image'[Len(image) + 1] = start
        /\ \A i \in 1..Len(image) : image'[i] = image[i]
    BY <1>1, <2>1
  <2>3. ASSUME NEW i \in 1..Len(image') - 1
        PROVE  /\ i \in 1..Len(image) /\ image'[i] = image[i]
               /\ image'[i + 1] = IF i = Len(image) THEN start ELSE image[i + 1]
    <3>1. i \in 1..Len(image) /\ (i # Len(image) => i + 1 \in 1..Len(image))
      BY <1>1, <2>2
    <3>2. CASE i = Len(image)
      BY <2>2, <3>1, <3>2
    <3>3. CASE i # Len(image)
      BY <2>2, <3>1, <3>3
    <3> QED
      BY <3>2, <3>3
  <2> QED
    BY <1>1, <2>2, <2>3
<1> QED
  BY <1>3, <1>4

\* Every step keeps the rows in order.
LEMMA LinesNext == LinesInv /\ [A!Next]_apt => LinesInv'
<1> SUFFICES ASSUME LinesInv, [A!Next]_apt
             PROVE  LinesInv'
  OBVIOUS
<1> USE DEF LinesInv
<1>1. Width \in Nat /\ None \notin Int
  BY ReceiversAssumption DEF A!WordsAssumption
<1>2. CASE A!Process
  <2>1. PICK n \in 1..MaxBlock : words' = [words EXCEPT !.end = @ + n]
    BY <1>2 DEF A!Process
  <2>2. pass' = pass /\ next' = next /\ image' = image
    BY <1>2 DEF A!Process
  <2>3. MaxBlock \in Nat
    BY ReceiversAssumption DEF A!WordsAssumption
  <2> QED
    BY <2>1, <2>2, <2>3 DEF LinesFollow, A!LinesFollow, A!NextSync
<1>3. CASE A!DrainLine
  <2>1. PICK start \in A!Found : /\ A!PushLine(start) /\ next' = start + Width
                                 /\ words' = [words EXCEPT !.from = start]
    BY <1>3 DEF A!DrainLine
  <2>2. start \in Int /\ pass' = pass
    BY <1>3, FoundIsInt DEF A!DrainLine
  <2>3. next' \in Int /\ words' \in [from: Int, end: Int]
    BY <1>1, <2>1, <2>2
  <2>4. /\ image' \in Seq(Int) /\ image' # <<>> /\ image'[Len(image')] = start
        /\ \A i \in 1..Len(image') - 1 :
             \E k \in 1..Len(image) :
               /\ image'[i] = image[k]
               /\ image'[i + 1] = IF k = Len(image) THEN start ELSE image[k + 1]
    BY <2>1, <2>2, Pushed
  <2>5. LinesFollow'
    <3> SUFFICES ASSUME NEW i \in 1..Len(image') - 1,
                        image'[i] \in pass.syncs, image'[i] >= pass.clear,
                        \E j \in pass.syncs : j > image'[i]
                 PROVE  image'[i + 1] = A!NextSync(image'[i])
      BY <2>2 DEF LinesFollow, A!LinesFollow, A!NextSync
    <3>1. PICK k \in 1..Len(image) :
            /\ image'[i] = image[k]
            /\ image'[i + 1] = IF k = Len(image) THEN start ELSE image[k + 1]
      BY <2>4
    <3>2. CASE k = Len(image)
      <4>1. PICK j \in pass.syncs : j > image[k]
        BY <3>1
      <4>2. image # <<>> /\ image[k] \in Int
        BY <3>1
      <4>3. A!Found = {A!NextSync(image[k])}
        BY <3>1, <3>2, <4>1, <4>2, FoundNext
      <4> QED
        BY <2>1, <3>1, <3>2, <4>3
    <3>3. CASE k # Len(image)
      <4>1. k \in 1..Len(image) - 1
        BY <3>1, <3>3
      <4> QED
        BY <3>1, <3>3, <4>1 DEF LinesFollow, A!LinesFollow
    <3> QED
      BY <3>2, <3>3
  <2> QED
    BY <1>1, <2>1, <2>2, <2>3, <2>4, <2>5
<1>4. CASE A!Drained \/ UNCHANGED apt
  BY <1>4 DEF A!Drained, apt, LinesFollow, A!LinesFollow, A!NextSync
<1> QED
  BY <1>2, <1>3, <1>4 DEF A!Next

\* However far the lines drift within the reach of the search, whatever the noise before
\* them and the blocks they come in, no line of the satellite is lost or doubled.
THEOREM LinesAreNext == ReceiversSpec => []LinesFollow
<1>1. ReceiversInit => LinesInv
  <2> SUFFICES ASSUME ReceiversInit
               PROVE  LinesInv
    OBVIOUS
  <2>1. A!Init
    BY DEF ReceiversInit
  <2> QED
    BY <2>1 DEF A!Init, LinesInv, LinesFollow, A!LinesFollow
<1>2. LinesInv /\ [ReceiversNext]_all => LinesInv'
  <2>1. [ReceiversNext]_all => [A!Next]_apt
    BY DEF ReceiversNext, all
  <2> QED
    BY <2>1, LinesNext
<1>3. LinesInv => LinesFollow
  BY DEF LinesInv
<1> QED
  BY <1>1, <1>2, <1>3, PTL DEF ReceiversSpec

-----------------------------------------------------------------------------
(* Squitters: how often a frame is handed on *)

Indicator(P) == IF P THEN 1 ELSE 0

\* The frames on the air that pass the checksum.
Good == {f \in aired.frames : f.ok}

SquitType ==
    /\ aired \in Airs
    /\ mag \in [from: Nat, end: Nat] /\ at \in Nat /\ decoding \in BOOLEAN
    /\ passed \in Seq(Nat) /\ cut \subseteq Nat

\* The tail that is kept begins where a window of it does.
TailInv ==
    /\ mag.from <= at
    /\ mag.from > 0 => mag.from + M!Window <= mag.end /\ (decoding => mag.from + M!Window < mag.end)
    /\ ~decoding => at = mag.from /\ mag.end <= mag.from + M!Window

\* A block that ended with a window is over.
CutInv ==
    /\ \A c \in cut : c + M!Window <= mag.end /\ (decoding => c + M!Window < mag.end)
    /\ ~decoding => \A f \in aired.frames : f.at + M!Window = mag.end => f.at \in cut

\* What is behind the loop was handed on once, and once more for each block that ended
\* with its window.
CountInv ==
    \A f \in Good : /\ f.at < at => f.at + M!Window <= mag.end
                    /\ M!Times(f.at) = Indicator(f.at < at) + Indicator(f.at \in cut)

OrderInv ==
    /\ \A i \in 1..Len(passed) : passed[i] <= at /\ passed[i] + M!Window <= mag.end
    /\ \A i \in 1..Len(passed) - 1 : passed[i] <= passed[i + 1]

SquitInv == SquitType /\ TailInv /\ CutInv /\ CountInv /\ OrderInv

\* The cardinality of an instance's module is that of the library.
LEMMA SameCardinality == \A S : M!Cardinality(S) = Cardinality(S)
BY DEF M!Cardinality, Cardinality

\* A window is as long as a preamble and a frame, or longer.
LEMMA WindowLength ==
  /\ M!Window \in Nat /\ Preamble \in Nat /\ MaxRead \in Nat /\ M!Window > 0
  /\ \A f \in M!Frames : f.at \in Nat /\ f.len \in Nat \ {0} /\ Preamble + f.len <= M!Window
BY ReceiversAssumption DEF M!LengthsAssumption, M!Window, M!Frames

\* Frames are where the samples are numbered, and good ones are apart.
LEMMA GoodApart ==
  ASSUME aired \in Airs
  PROVE  /\ aired.frames \subseteq M!Frames
         /\ \A f, g \in Good :
              f = g \/ f.at + Preamble + f.len <= g.at \/ g.at + Preamble + g.len <= f.at
BY ReceiversAssumption DEF M!AirsAssumption, M!Apart, Good

\* A frame that is handed on is handed on once more.
LEMMA TimesAppend ==
  ASSUME NEW j \in Nat, NEW k \in Nat, passed \in Seq(Nat), passed' = Append(passed, k)
  PROVE  M!Times(j)' = M!Times(j) + Indicator(k = j)
<1> DEFINE S == {i \in DOMAIN passed : passed[i] = j}
           n == Len(passed)
<1>1. n \in Nat /\ DOMAIN passed = 1..n /\ DOMAIN passed' = 1..n + 1
      /\ (\A i \in 1..n : passed'[i] = passed[i]) /\ passed'[n + 1] = k
  OBVIOUS
<1>2. IsFiniteSet(S)
  <2>1. IsFiniteSet(1..n)
    BY <1>1, FS_Interval
  <2> QED
    BY <1>1, <2>1, FS_Subset
<1>3. n + 1 \notin S
  BY <1>1
<1>4. {i \in DOMAIN passed' : passed'[i] = j} = IF k = j THEN S \cup {n + 1} ELSE S
  BY <1>1
<1>5. Cardinality(S) \in Nat /\ Cardinality(S \cup {n + 1}) = Cardinality(S) + 1
  BY <1>2, <1>3, FS_AddElement, FS_CardinalityType
<1>6. M!Times(j) = Cardinality(S)
  BY SameCardinality DEF M!Times
<1>7. M!Times(j)' = Cardinality({i \in DOMAIN passed' : passed'[i] = j})
  BY SameCardinality DEF M!Times
<1> HIDE DEF S, n
<1>8. CASE k = j
  <2>1. {i \in DOMAIN passed' : passed'[i] = j} = S \cup {n + 1}
    BY <1>4, <1>8
  <2>2. M!Times(j)' = M!Times(j) + 1
    BY <1>5, <1>6, <1>7, <2>1
  <2>3. Indicator(k = j) = 1
    BY <1>8 DEF Indicator
  <2> QED
    BY <2>2, <2>3
<1>9. CASE k # j
  <2>1. M!Times(j)' = M!Times(j) /\ M!Times(j) \in Nat
    BY <1>4, <1>5, <1>6, <1>7, <1>9
  <2>2. Indicator(k = j) = 0
    BY <1>9 DEF Indicator
  <2> QED
    BY <2>1, <2>2
<1> QED
  BY <1>8, <1>9

\* What is not handed on is counted as before.
LEMMA TimesSame ==
  ASSUME NEW j, passed' = passed
  PROVE  M!Times(j)' = M!Times(j)
BY DEF M!Times

\* A block comes: nothing is behind the loop that was not.
LEMMA SquitProcess ==
  ASSUME SquitInv, M!Process
  PROVE  SquitInv'
<1>0. SquitType /\ TailInv /\ CutInv /\ CountInv /\ OrderInv
  BY DEF SquitInv
<1>1. PICK n \in 1..MaxRead : mag' = [mag EXCEPT !.end = @ + n]
  BY DEF M!Process
<1>2. UNCHANGED <<aired, at, passed, cut>> /\ ~decoding /\ decoding' = TRUE
  BY DEF M!Process
<1>3. n \in Nat /\ n > 0 /\ M!Window \in Nat
  BY WindowLength
<1>4. /\ mag' \in [from: Nat, end: Nat] /\ mag'.from = mag.from /\ mag'.end = mag.end + n
      /\ mag.from \in Nat /\ mag.end \in Nat /\ at \in Nat
  BY <1>0, <1>1, <1>3 DEF SquitType
<1>5. M!Window' = M!Window /\ Good' = Good
  BY <1>2 DEF M!Window, Good
<1>6. \A f \in Good : f.at \in Nat
  BY <1>0, GoodApart, WindowLength DEF Good, SquitType
<1>7. SquitType'
  BY <1>0, <1>2, <1>4 DEF SquitType
<1>8. TailInv'
  BY <1>0, <1>2, <1>3, <1>4, <1>5 DEF TailInv
<1>9. CutInv'
  <2>1. \A c \in cut : c \in Nat /\ c + M!Window <= mag.end
    BY <1>0 DEF CutInv, SquitType
  <2> QED
    BY <2>1, <1>2, <1>3, <1>4, <1>5 DEF CutInv
<1>10. CountInv'
  <2> SUFFICES ASSUME NEW f \in Good
               PROVE  /\ f.at < at => f.at + M!Window <= mag'.end
                      /\ M!Times(f.at)' = Indicator(f.at < at) + Indicator(f.at \in cut)
    BY <1>2, <1>5 DEF CountInv, Indicator
  <2>1. M!Times(f.at)' = M!Times(f.at)
    BY <1>2, TimesSame
  <2> QED
    BY <1>0, <1>3, <1>4, <1>6, <2>1 DEF CountInv
<1>11. OrderInv'
  <2>1. \A i \in 1..Len(passed) : passed[i] \in Nat
    BY <1>0 DEF SquitType
  <2> QED
    BY <1>0, <1>2, <1>3, <1>4, <1>5, <2>1 DEF OrderInv
<1> QED
  BY <1>7, <1>8, <1>9, <1>10, <1>11 DEF SquitInv

\* Nothing is found at a sample.
LEMMA SquitNoFrame ==
  ASSUME SquitInv, M!NoFrame
  PROVE  SquitInv'
<1>0. SquitType /\ TailInv /\ CutInv /\ CountInv /\ OrderInv
  BY DEF SquitInv
<1>1. /\ decoding /\ at + M!Window <= mag.end /\ at' = at + 1
      /\ UNCHANGED <<aired, mag, decoding, passed, cut>> /\ M!FrameAt(at) = {}
  BY DEF M!NoFrame, M!WindowHeld
<1>2. M!Window \in Nat /\ M!Window' = M!Window /\ Good' = Good
  BY <1>1, WindowLength DEF M!Window, Good
<1>3. \A f \in Good : f.at \in Nat /\ f.at # at
  BY <1>0, <1>1, GoodApart, WindowLength DEF Good, M!FrameAt, SquitType
<1>4. at \in Nat /\ mag.from \in Nat /\ mag.end \in Nat
  BY <1>0 DEF SquitType
<1>5. SquitType' /\ TailInv' /\ CutInv'
  BY <1>0, <1>1, <1>2, <1>4 DEF SquitType, TailInv, CutInv
<1>6. CountInv'
  <2> SUFFICES ASSUME NEW f \in Good
               PROVE  /\ f.at < at' => f.at + M!Window <= mag.end
                      /\ M!Times(f.at)' = Indicator(f.at < at') + Indicator(f.at \in cut)
    BY <1>1, <1>2 DEF CountInv, Indicator
  <2>1. M!Times(f.at)' = M!Times(f.at)
    BY <1>1, TimesSame
  <2>2. f.at < at' <=> f.at < at
    BY <1>1, <1>3, <1>4
  <2> QED
    BY <1>0, <2>1, <2>2 DEF CountInv, Indicator
<1>7. OrderInv'
  <2>1. \A i \in 1..Len(passed) : passed[i] \in Nat
    BY <1>0 DEF SquitType
  <2> QED
    BY <1>0, <1>1, <1>2, <1>4, <2>1 DEF OrderInv
<1> QED
  BY <1>5, <1>6, <1>7 DEF SquitInv

\* A frame is handed on, and no good one begins before it ends.
LEMMA SquitPassFrame ==
  ASSUME SquitInv, M!PassFrame
  PROVE  SquitInv'
<1>0. SquitType /\ TailInv /\ CutInv /\ CountInv /\ OrderInv
  BY DEF SquitInv
<1>1. /\ decoding /\ at + M!Window <= mag.end /\ passed' = Append(passed, at)
      /\ UNCHANGED <<aired, mag, decoding, cut>>
  BY DEF M!PassFrame, M!WindowHeld
<1>2. PICK g \in M!FrameAt(at) : at' = at + Preamble + g.len
  BY DEF M!PassFrame
<1>3. M!Window \in Nat /\ M!Window' = M!Window /\ Good' = Good
  BY <1>1, WindowLength DEF M!Window, Good
<1>4. g \in Good /\ g.at = at /\ g.len \in Nat /\ g.len > 0 /\ Preamble \in Nat
  BY <1>0, GoodApart, WindowLength DEF M!FrameAt, Good, SquitType
<1>5. \A f \in Good : f.at \in Nat /\ f.len \in Nat /\ f.len > 0
  BY <1>0, GoodApart, WindowLength DEF Good, SquitType
<1>6. at' \in Nat /\ at < at' /\ at \in Nat /\ mag.from \in Nat /\ mag.end \in Nat
  BY <1>0, <1>2, <1>4 DEF SquitType
<1>7. ASSUME NEW f \in Good
      PROVE  f.at < at' <=> f.at < at \/ f.at = at
  <2>1. \/ f = g \/ f.at + Preamble + f.len <= g.at \/ g.at + Preamble + g.len <= f.at
    BY <1>0, <1>4, GoodApart DEF SquitType
  <2> QED
    BY <1>2, <1>4, <1>5, <1>6, <2>1
<1>8. CountInv'
  <2> SUFFICES ASSUME NEW f \in Good
               PROVE  /\ f.at < at' => f.at + M!Window <= mag.end
                      /\ M!Times(f.at)' = Indicator(f.at < at') + Indicator(f.at \in cut)
    BY <1>1, <1>3 DEF CountInv, Indicator
  <2>1. M!Times(f.at)' = M!Times(f.at) + Indicator(at = f.at)
    BY <1>0, <1>1, <1>5, <1>6, TimesAppend DEF SquitType
  <2>2. /\ M!Times(f.at) = Indicator(f.at < at) + Indicator(f.at \in cut)
        /\ f.at < at => f.at + M!Window <= mag.end
    BY <1>0 DEF CountInv
  <2> QED
    BY <1>1, <1>5, <1>6, <1>7, <2>1, <2>2 DEF Indicator
<1>9. /\ passed' \in Seq(Nat) /\ Len(passed') = Len(passed) + 1
      /\ passed'[Len(passed) + 1] = at /\ \A i \in 1..Len(passed) : passed'[i] = passed[i]
      /\ Len(passed) \in Nat
  BY <1>0, <1>1, <1>6 DEF SquitType
<1>10. \A i \in 1..Len(passed') : passed'[i] <= at' /\ passed'[i] + M!Window <= mag.end
  <2> TAKE i \in 1..Len(passed')
  <2>1. CASE i = Len(passed) + 1
    BY <1>1, <1>6, <1>9, <2>1
  <2>2. CASE i \in 1..Len(passed)
    <3>1. passed'[i] = passed[i]
      BY <1>9, <2>2
    <3>2. passed[i] \in Nat
      BY <1>0, <2>2 DEF SquitType
    <3>3. passed[i] <= at /\ passed[i] + M!Window <= mag.end
      BY <1>0, <2>2 DEF OrderInv
    <3> QED
      BY <1>6, <3>1, <3>2, <3>3
  <2> QED
    BY <1>9, <2>1, <2>2
<1>11. \A i \in 1..Len(passed') - 1 : passed'[i] <= passed'[i + 1]
  <2> TAKE i \in 1..Len(passed') - 1
  <2>1. i \in 1..Len(passed) /\ passed'[i] = passed[i] /\ passed[i] <= at
    BY <1>0, <1>9 DEF OrderInv
  <2>2. CASE i = Len(passed)
    BY <1>9, <2>1, <2>2
  <2>3. CASE i # Len(passed)
    <3>1. i \in 1..Len(passed) - 1 /\ i + 1 \in 1..Len(passed)
      BY <1>9, <2>1, <2>3
    <3> QED
      BY <1>0, <1>9, <2>1, <3>1 DEF OrderInv
  <2> QED
    BY <2>2, <2>3
<1>12. SquitType' /\ TailInv' /\ CutInv'
  BY <1>0, <1>1, <1>3, <1>6, <1>9 DEF SquitType, TailInv, CutInv
<1>13. OrderInv'
  BY <1>1, <1>3, <1>10, <1>11 DEF OrderInv
<1> QED
  BY <1>8, <1>12, <1>13 DEF SquitInv

\* The end of a block: what is kept begins with the last whole window.
LEMMA SquitDrain ==
  ASSUME SquitInv, M!Drain
  PROVE  SquitInv'
<1>0. SquitType /\ TailInv /\ CutInv /\ CountInv /\ OrderInv
  BY DEF SquitInv
<1>1. /\ mag.from \in Nat /\ mag.end \in Nat /\ at \in Nat
      /\ M!Window \in Nat /\ M!Window > 0 /\ M!Window' = M!Window
  BY <1>0, WindowLength DEF SquitType, M!Window
<1>2. /\ decoding /\ ~(at + M!Window <= mag.end) /\ decoding' = FALSE
      /\ mag' = [mag EXCEPT !.from = mag.end - M!Kept(mag.end - mag.from)] /\ at' = mag'.from
      /\ cut' = cut \cup {f.at : f \in {g \in aired.frames : g.at + M!Window = mag.end}}
      /\ aired' = aired /\ passed' = passed
  BY DEF M!Drain, M!WindowHeld
<1>3. /\ Good' = Good /\ mag.end < at + M!Window
      /\ \A f \in aired.frames : f.at \in Nat
      /\ \A f \in Good : f \in aired.frames
  BY <1>0, <1>1, <1>2, GoodApart, WindowLength DEF Good, SquitType
<1>4. mag.end - M!Kept(mag.end - mag.from)
        = IF mag.end < mag.from + M!Window THEN mag.from ELSE mag.end - M!Window
  BY <1>1 DEF M!Kept
<1>5. /\ mag' \in [from: Nat, end: Nat] /\ mag'.end = mag.end
      /\ mag'.from = IF mag.end < mag.from + M!Window THEN mag.from ELSE mag.end - M!Window
  BY <1>0, <1>1, <1>2, <1>4 DEF SquitType
<1>6. /\ at' = mag'.from /\ mag'.from \in Nat
      /\ mag'.from > 0 => mag'.from + M!Window = mag.end
      /\ mag.end <= mag'.from + M!Window
  BY <1>0, <1>1, <1>2, <1>5 DEF TailInv
<1>7. \A c \in cut : c \in Nat /\ c + M!Window < mag.end
  BY <1>0, <1>2 DEF CutInv, SquitType
<1>8. \A j : j \in cut' <=> j \in cut \/ \E f \in aired.frames : f.at = j /\ f.at + M!Window = mag.end
  BY <1>2
<1>9. SquitType' /\ TailInv'
  <2>1. cut' \subseteq Nat
    BY <1>3, <1>7, <1>8
  <2>2. at' \in Nat /\ decoding' \in BOOLEAN
    BY <1>2, <1>6
  <2>3. SquitType'
    BY <1>0, <1>2, <1>5, <2>1, <2>2 DEF SquitType
  <2>4. TailInv'
    BY <1>1, <1>2, <1>5, <1>6 DEF TailInv
  <2> QED
    BY <2>3, <2>4
<1>10. CutInv'
  <2>1. \A c \in cut' : c \in Nat /\ c + M!Window <= mag.end
    BY <1>1, <1>3, <1>7, <1>8
  <2>2. \A f \in aired.frames : f.at + M!Window = mag.end => f.at \in cut'
    BY <1>8
  <2> QED
    BY <1>1, <1>2, <1>5, <2>1, <2>2 DEF CutInv
<1>11. CountInv'
  <2> SUFFICES ASSUME NEW f \in Good
               PROVE  /\ f.at < at' => f.at + M!Window <= mag.end
                      /\ M!Times(f.at)' = Indicator(f.at < at') + Indicator(f.at \in cut')
    BY <1>1, <1>3, <1>5 DEF CountInv, Indicator
  <2>1. /\ M!Times(f.at)' = Indicator(f.at < at) + Indicator(f.at \in cut)
        /\ f.at < at => f.at + M!Window <= mag.end
    BY <1>0, <1>2, TimesSame DEF CountInv
  <2>2. f.at \in Nat /\ f \in aired.frames
    BY <1>3
  <2>3. CASE f.at + M!Window < mag.end
    <3>1. f.at < at
      BY <1>1, <1>3, <2>2, <2>3
    <3>2. f.at < at'
      BY <1>1, <1>6, <2>2, <2>3
    <3>3. f.at \in cut' <=> f.at \in cut
      BY <1>1, <1>8, <2>2, <2>3
    <3> QED
      BY <2>1, <3>1, <3>2, <3>3 DEF Indicator
  <2>4. CASE f.at + M!Window = mag.end
    <3>1. f.at < at /\ f.at \notin cut
      BY <1>1, <1>3, <1>7, <2>2, <2>4
    <3>2. ~(f.at < at') /\ f.at \in cut'
      BY <1>1, <1>6, <1>8, <2>2, <2>4
    <3> QED
      BY <2>1, <2>4, <3>1, <3>2 DEF Indicator
  <2>5. CASE f.at + M!Window > mag.end
    <3>1. ~(f.at < at) /\ f.at \notin cut
      BY <1>1, <1>7, <2>1, <2>2, <2>5
    <3>2. ~(f.at < at')
      BY <1>1, <1>6, <2>2, <2>5
    <3>3. f.at \notin cut'
      BY <1>1, <1>8, <2>2, <2>5, <3>1
    <3> QED
      BY <2>1, <3>1, <3>2, <3>3 DEF Indicator
  <2> QED
    BY <1>1, <2>2, <2>3, <2>4, <2>5
<1>12. OrderInv'
  <2>1. ASSUME NEW i \in 1..Len(passed)
        PROVE  passed[i] <= at' /\ passed[i] + M!Window <= mag.end
    <3>1. passed[i] \in Nat /\ passed[i] + M!Window <= mag.end
      BY <1>0 DEF OrderInv, SquitType
    <3> QED
      BY <1>1, <1>6, <3>1
  <2> QED
    BY <1>0, <1>1, <1>2, <1>5, <2>1 DEF OrderInv
<1> QED
  BY <1>9, <1>10, <1>11, <1>12 DEF SquitInv

\* However the samples are cut into blocks, every frame is handed on in order, and once
\* unless a block ended with its window.
THEOREM PassedOnce == ReceiversSpec => []TwiceOnlyAtCut
<1>1. ReceiversInit => SquitInv
  <2> SUFFICES ASSUME ReceiversInit
               PROVE  SquitInv
    OBVIOUS
  <2>1. M!Init
    BY DEF ReceiversInit
  <2>2. aired \in Airs
    BY <2>1 DEF M!Init
  <2>3. \A f \in aired.frames : f.at \in Nat
    BY <2>2, GoodApart, WindowLength
  <2>4. \A j : M!Times(j) = 0
    <3>1. \A j : {i \in DOMAIN passed : passed[i] = j} = {}
      BY <2>1 DEF M!Init
    <3> QED
      BY <3>1, FS_EmptySet, SameCardinality DEF M!Times
  <2>5. M!Window \in Nat /\ M!Window > 0
    BY WindowLength
  <2>6. SquitType /\ TailInv
    <3>1. /\ mag = [from |-> 0, end |-> 0] /\ at = 0 /\ decoding = FALSE
          /\ passed = <<>> /\ cut = {}
      BY <2>1 DEF M!Init
    <3>2. mag \in [from: Nat, end: Nat] /\ at \in Nat /\ decoding \in BOOLEAN
      BY <3>1
    <3>3. SquitType
      BY <2>2, <3>1, <3>2 DEF SquitType
    <3>4. mag.from = 0 /\ mag.end = 0
      BY <3>1
    <3> QED
      BY <2>5, <3>1, <3>3, <3>4 DEF TailInv
  <2>7. CutInv /\ OrderInv
    BY <2>1, <2>3, <2>5 DEF M!Init, CutInv, OrderInv
  <2>8. CountInv
    BY <2>1, <2>3, <2>4 DEF M!Init, CountInv, Good, Indicator
  <2> QED
    BY <2>6, <2>7, <2>8 DEF SquitInv
<1>2. SquitInv /\ [ReceiversNext]_all => SquitInv'
  <2> SUFFICES ASSUME SquitInv, [ReceiversNext]_all
               PROVE  SquitInv'
    OBVIOUS
  <2>1. M!Next \/ UNCHANGED squit
    BY DEF ReceiversNext, all
  <2>2. CASE UNCHANGED squit
    <3>1. Good' = Good /\ (\A j : M!Times(j)' = M!Times(j))
      BY <2>2, TimesSame DEF squit, Good
    <3> QED
      BY <2>2, <3>1 DEF squit, SquitInv, SquitType, TailInv, CutInv, CountInv, OrderInv,
                        M!Window, Indicator
  <2> QED
    BY <2>1, <2>2, SquitProcess, SquitNoFrame, SquitPassFrame, SquitDrain DEF M!Next
<1>3. SquitInv => TwiceOnlyAtCut
  <2> SUFFICES ASSUME SquitInv
               PROVE  TwiceOnlyAtCut
    OBVIOUS
  <2>1. SquitType /\ TailInv /\ CutInv /\ CountInv /\ OrderInv
    BY DEF SquitInv
  <2>2. ASSUME ~decoding, NEW f \in aired.frames, f.ok, f.at + M!Window <= mag.end
        PROVE  M!Times(f.at) = IF f.at \in cut /\ f.at + M!Window < mag.end THEN 2 ELSE 1
    <3>1. /\ f \in Good /\ f.at \in Nat /\ M!Window \in Nat
          /\ mag.end \in Nat /\ mag.from \in Nat
      BY <2>1, <2>2, GoodApart, WindowLength DEF Good, SquitType
    <3>2. M!Times(f.at) = Indicator(f.at < at) + Indicator(f.at \in cut)
      BY <2>1, <3>1 DEF CountInv
    <3>3. at = mag.from /\ mag.end <= mag.from + M!Window
          /\ (mag.from > 0 => mag.from + M!Window <= mag.end)
      BY <2>1, <2>2 DEF TailInv
    <3>4. CASE f.at + M!Window < mag.end
      <4>1. f.at < at
        BY <3>1, <3>3, <3>4
      <4> QED
        BY <3>2, <3>4, <4>1 DEF Indicator
    <3>5. CASE f.at + M!Window = mag.end
      <4>1. ~(f.at < at) /\ f.at \in cut
        BY <2>1, <2>2, <3>1, <3>3, <3>5 DEF CutInv
      <4> QED
        BY <3>1, <3>2, <3>5, <4>1 DEF Indicator
    <3> QED
      BY <2>2, <3>1, <3>4, <3>5
  <2> QED
    BY <2>1, <2>2 DEF TwiceOnlyAtCut, M!TwiceOnlyAtCut, OrderInv
<1> QED
  BY <1>1, <1>2, <1>3, PTL DEF ReceiversSpec

-----------------------------------------------------------------------------
(* Tracks: the places that position frames stand for *)

\* The zones are as wide as they are many in the other kind of frame, times a step.
Step == World \div (EvenZones * OddZones)
\* What the widths of the zones are, and that a step and a zone are positive.
LEMMA Zones ==
  /\ World \in Nat \ {0} /\ OddZones \in Nat \ {0} /\ EvenZones = OddZones + 1 /\ Step \in Nat \ {0}
  /\ T!Even = OddZones * Step /\ T!Odd = EvenZones * Step
  /\ World = EvenZones * T!Even /\ World = OddZones * T!Odd
  /\ T!Even \in Nat \ {0} /\ T!Odd \in Nat \ {0} /\ T!Even <= T!Odd
<1> DEFINE E == EvenZones
           O == OddZones
           k == World \div (4 * E * O)
<1>1. World \in Nat \ {0} /\ O \in Nat \ {0} /\ E = O + 1 /\ World % (4 * E * O) = 0
  BY ReceiversAssumption DEF T!WorldAssumption
<1>2. E * O \in Nat \ {0} /\ 4 * E * O \in Nat \ {0} /\ E \in Nat \ {0} /\ 4 * E * O = 4 * (E * O)
  BY <1>1
<1>3. k \in Int /\ World = (4 * E * O) * k
  <2> DEFINE D == 4 * E * O
  <2>1. World \in Int /\ D \in Nat \ {0} /\ World % D = 0
    BY <1>1, <1>2
  <2> HIDE DEF D
  <2>2. World \div D \in Int /\ World = D * (World \div D)
    BY <2>1, Division
  <2> QED
    BY <2>2 DEF D
<1> HIDE DEF E, O, k
<1>4. World = (E * O) * (4 * k) + 0
  BY <1>1, <1>2, <1>3
<1>5. World \div (E * O) = 4 * k
  BY <1>1, <1>2, <1>3, <1>4, DivisionUnique
<1>6. Step = 4 * k
  BY <1>5 DEF Step, E, O
<1>7. k > 0
  BY <1>1, <1>2, <1>3
<1>8. World = E * (O * Step) + 0 /\ World = O * (E * Step) + 0
  BY <1>1, <1>2, <1>3, <1>4, <1>6
<1>9. O * Step \in Int /\ E * Step \in Int /\ Step \in Nat \ {0}
  BY <1>1, <1>2, <1>3, <1>6, <1>7
<1>10. World \div E = O * Step /\ World \div O = E * Step
  BY <1>1, <1>2, <1>8, <1>9, DivisionUnique
<1>11. O * Step > 0 /\ E * Step > 0 /\ O * Step <= E * Step
  BY <1>1, <1>2, <1>9
<1> QED
  BY <1>1, <1>8, <1>9, <1>10, <1>11 DEF E, O, T!Even, T!Odd

\* Where an even frame is in its zone and in which of the zones its craft is says where
\* the craft is, on this side of the ring; the same goes for an odd one.
LEMMA SignedPlace ==
  ASSUME NEW p \in Int, -World <= 4 * p, 4 * p <= World,
         NEW n \in Nat \ {0}, NEW w \in Nat \ {0}, World = n * w
  PROVE  T!Signed(w * ((p \div w) % n) + (p % w)) = p
<1> DEFINE q == p \div w
           r == p % w
           t == q \div n
           z == q % n
           s == w * z + r
<1>1. World \in Nat \ {0}
  BY Zones
<1>2. q \in Int /\ r \in Nat /\ r < w /\ p = w * q + r
  BY Division
<1>3. t \in Int /\ z \in Nat /\ z < n /\ q = n * t + z
  BY <1>2, Division
<1> HIDE DEF q, r, t, z
<1>4. w * z \in Nat /\ w * z + w <= World
  <2>1. (z + 1) * w <= n * w
    BY <1>3, Product
  <2> QED
    BY <1>3, <2>1
<1>5. s \in Nat /\ s < World
  BY <1>1, <1>2, <1>4
<1>6. p = World * t + s
  <2>1. w * (n * t + z) = (n * w) * t + w * z
    BY <1>3
  <2> QED
    BY <1>2, <1>3, <2>1
<1> HIDE DEF s
<1>7. CASE t = 0
  BY <1>1, <1>5, <1>6, <1>7 DEF T!Signed, s, q, r, z
<1>8. CASE t = -1
  <2>1. s = p + World
    BY <1>1, <1>5, <1>6, <1>8
  <2>2. 4 * s >= 3 * World
    BY <1>1, <2>1
  <2>3. T!Signed(s) = s - World
    BY <2>2 DEF T!Signed
  <2> QED
    BY <1>1, <2>1, <2>3 DEF s, q, r, z
<1>9. CASE t >= 1
  <2>1. 1 * World <= t * World
    BY <1>1, <1>3, <1>9, Product
  <2> QED
    BY <1>1, <1>3, <1>5, <1>6, <2>1
<1>10. CASE t <= -2
  <2>1. t * World <= (-2) * World
    BY <1>1, <1>3, <1>10, Product
  <2> QED
    BY <1>1, <1>3, <1>5, <1>6, <2>1
<1> QED
  BY <1>3, <1>7, <1>8, <1>9, <1>10

\* Where the places a and b are in their zones says how their zones are apart, when a and
\* b are near each other.
LEMMA ZonesApart ==
  ASSUME NEW a \in Int, NEW b \in Int, 2 * T!Dist(a, b) < Step
  PROVE  LET j == (2 * EvenZones * OddZones * ((a % T!Even) - (b % T!Odd)) + World) \div (2 * World)
         IN  /\ j % EvenZones = (a \div T!Even) % EvenZones
             /\ j % OddZones = (b \div T!Odd) % OddZones
<1> DEFINE E == EvenZones
           O == OddZones
           q == a \div T!Even
           p == b \div T!Odd
           e == a % T!Even
           o == b % T!Odd
           d == a - b
           k == E * p - O * q
           R == (E * O) * (2 * d + Step)
<1>1. /\ World \in Nat \ {0} /\ O \in Nat \ {0} /\ E = O + 1 /\ Step \in Nat \ {0}
      /\ T!Even = O * Step /\ T!Odd = E * Step /\ World = E * T!Even
      /\ T!Even \in Nat \ {0} /\ T!Odd \in Nat \ {0}
  BY Zones
<1>2. q \in Int /\ e \in Nat /\ a = T!Even * q + e
  BY <1>1, Division
<1>3. p \in Int /\ o \in Nat /\ b = T!Odd * p + o
  BY <1>1, Division
<1>4. d \in Int /\ 0 < 2 * d + Step /\ 2 * d + Step < 2 * Step
  BY <1>1 DEF T!Dist
<1> HIDE DEF E, O, q, p, e, o, d
<1>5. E * O \in Nat \ {0} /\ World = (E * O) * Step
  BY <1>1
<1>6. k \in Int /\ R \in Int
  BY <1>1, <1>2, <1>3, <1>4, <1>5
<1>7. 0 <= R /\ R < 2 * World
  <2> DEFINE n == E * O
             m == 2 * d + Step
  <2>1. n \in Nat \ {0} /\ m \in Nat /\ m + 1 <= 2 * Step /\ World = n * Step
    BY <1>1, <1>4, <1>5
  <2> HIDE DEF n, m
  <2>2. (m + 1) * n <= (2 * Step) * n
    BY <1>1, <2>1, Product
  <2>3. n * m \in Nat /\ n * m + n <= 2 * (n * Step)
    BY <1>1, <2>1, <2>2
  <2> QED
    BY <2>1, <2>3 DEF n, m
<1>8. 2 * E * O * (e - o) + World = (2 * World) * k + R
  <2>1. e - o = d - (O * Step) * q + (E * Step) * p
    BY <1>1, <1>2, <1>3, <1>4 DEF d
  <2>2. 2 * E * O * (e - o) = 2 * (E * O) * d + (2 * ((E * O) * Step)) * (E * p - O * q)
    BY <1>1, <1>2, <1>3, <1>4, <2>1
  <2> QED
    BY <1>1, <1>2, <1>3, <1>4, <1>5, <2>2
<1>9. (2 * E * O * (e - o) + World) \div (2 * World) = k
  <2>1. 2 * E * O * (e - o) + World \in Int /\ 2 * World \in Nat \ {0}
    BY <1>1, <1>2, <1>3
  <2> HIDE DEF k, R
  <2> QED
    BY <1>6, <1>7, <1>8, <2>1, DivisionUnique
<1>10. k % E = q % E
  <2>1. k = E * (p - q) + q /\ p - q \in Int /\ E \in Nat \ {0}
    BY <1>1, <1>2, <1>3
  <2>2. (E * (p - q) + q) % E = q % E
    BY <1>2, <1>3, <2>1, Congruent
  <2> QED
    BY <2>1, <2>2
<1>11. k % O = p % O
  <2>1. k = O * (p - q) + p /\ p - q \in Int /\ O \in Nat \ {0}
    BY <1>1, <1>2, <1>3
  <2>2. (O * (p - q) + p) % O = p % O
    BY <1>2, <1>3, <2>1, Congruent
  <2> QED
    BY <2>1, <2>2
<1> QED
  BY <1>9, <1>10, <1>11 DEF E, O, q, p, e, o

\* A pair of frames sent near each other says where each was sent.
LEMMA GlobalTrue ==
  ASSUME NEW a \in Int, NEW b \in Int, 2 * T!Dist(a, b) < Step, T!IsLat(a), T!IsLat(b)
  PROVE  /\ T!GlobalEven(a % T!Even, b % T!Odd) = a
         /\ T!GlobalOdd(a % T!Even, b % T!Odd) = b
<1>1. /\ -World <= 4 * a /\ 4 * a <= World /\ -World <= 4 * b /\ 4 * b <= World
      /\ EvenZones \in Nat \ {0} /\ OddZones \in Nat \ {0}
  BY Zones DEF T!IsLat
<1>2. T!Signed(T!Even * ((a \div T!Even) % EvenZones) + (a % T!Even)) = a
  BY <1>1, Zones, SignedPlace
<1>3. T!Signed(T!Odd * ((b \div T!Odd) % OddZones) + (b % T!Odd)) = b
  BY <1>1, Zones, SignedPlace
<1> QED
  BY <1>2, <1>3, ZonesApart DEF T!GlobalEven, T!GlobalOdd

\* A lone frame is put at the place nearest to the reference that has its place in a zone.
LEMMA LocalPlace ==
  ASSUME NEW p \in Int, NEW w \in Nat \ {0}, NEW ref \in Int
  PROVE  LET d == T!LocalDecode(p % w, w, ref)
         IN  d \in Int /\ 2 * T!Dist(ref, d) <= w /\ \E k \in Int : d = p + w * k
<1> DEFINE y == p % w
           g == ref % w
           x == 2 * (g - y) + w
           m == x \div (2 * w)
           d == w * ((ref \div w) + m) + y
<1>1. p \div w \in Int /\ y \in Nat /\ y < w /\ p = w * (p \div w) + y
  BY Division
<1>2. ref \div w \in Int /\ g \in Nat /\ g < w /\ ref = w * (ref \div w) + g
  BY Division
<1>3. x \in Int /\ 2 * w \in Nat \ {0}
  BY <1>1, <1>2
<1>4. m \in Int /\ x % (2 * w) \in Nat /\ x % (2 * w) < 2 * w /\ x = (2 * w) * m + (x % (2 * w))
  BY <1>3, Division
<1>5. T!LocalDecode(p % w, w, ref) = d
  BY DEF T!LocalDecode
<1> DEFINE a == p \div w
           b == ref \div w
           h == x % (2 * w)
<1> HIDE DEF m, y, g, a, b, h
<1>6. d = w * b + w * m + y /\ d \in Int
  BY <1>1, <1>2, <1>4 DEF a, b
<1>7. 2 * (g - y) + w = 2 * (w * m) + h /\ w * m \in Int /\ h \in Nat /\ h < 2 * w
  BY <1>1, <1>2, <1>4 DEF h
<1>8. ref = w * b + g /\ w * b \in Int /\ w * a \in Int /\ p = w * a + y
  BY <1>1, <1>2 DEF a, b
<1>9. 2 * T!Dist(ref, d) <= w
  BY <1>1, <1>2, <1>6, <1>7, <1>8 DEF T!Dist
<1>10. d = p + w * (b + m - a) /\ b + m - a \in Int
  <2>1. a \in Int /\ b \in Int /\ m \in Int /\ y \in Int
    BY <1>1, <1>2, <1>4 DEF a, b
  <2>2. w * (b + m - a) = w * b + w * m - w * a /\ b + m - a \in Int
    BY <2>1
  <2> HIDE DEF d
  <2> QED
    BY <1>6, <1>7, <1>8, <2>1, <2>2
<1> QED
  BY <1>5, <1>6, <1>9, <1>10

\* Two places that differ by whole zones are one or a zone apart.
LEMMA ZoneApart ==
  ASSUME NEW p \in Int, NEW w \in Nat \ {0}, NEW k \in Int, T!Dist(p, p + w * k) < w
  PROVE  p + w * k = p
<1>1. w * k \in Int
  OBVIOUS
<1>2. CASE k >= 1
  <2>1. 1 * w <= k * w
    BY <1>2, Product
  <2> QED
    BY <1>1, <2>1 DEF T!Dist
<1>3. CASE k <= -1
  <2>1. k * w <= (-1) * w
    BY <1>3, Product
  <2> QED
    BY <1>1, <2>1 DEF T!Dist
<1>4. CASE k = 0
  BY <1>4
<1> QED
  BY <1>2, <1>3, <1>4

-----------------------------------------------------------------------------
(* Tracks: every place is where the craft was *)

\* Where a craft is at a time.
Along(t) == plan.from + plan.speed * t

\* A time at which a craft was heard, and where it was then.
Heard(point) == /\ point.at \in Nat /\ point.at <= now
                /\ point.was = Along(point.at) /\ T!Dist(0, point.was) <= Reach
PointType == [at: Int, place: Int, was: Int, stray: BOOLEAN]

\* A gate so wide that the receiver may be too far a reference.
WideGate == MaxRange + Reach >= T!Even

\* A place is true or a stray, and only a wide gate lets strays in.
PlaceOk(spot, was, stray) == IF stray THEN plan.kind = "adsb" /\ WideGate ELSE spot = was

FixOk(point) ==
    /\ point \in PointType /\ PlaceOk(point.place, point.was, point.stray)
    /\ point.at = -1 \/ Heard(point)
SlotOk(point, width) ==
    point \in PointType /\ (point.at = -1 \/ (Heard(point) /\ point.place = point.was % width))
TrailOk(trail) ==
    /\ trail \in Seq(PointType)
    /\ \A i \in 1..Len(trail) : PlaceOk(trail[i].place, trail[i].was, trail[i].stray)

TrackType == [seen: Int, fix: PointType, even: PointType, odd: PointType,
              trail: Seq(PointType), due: Int]
TrackOk(t) ==
    /\ t \in TrackType /\ 0 <= t.seen /\ t.seen <= now
    /\ FixOk(t.fix) /\ SlotOk(t.even, T!Even) /\ SlotOk(t.odd, T!Odd) /\ TrailOk(t.trail)

\* A frame that shows its place: the receiver has a reference and the craft is in range.
InSight(c) == T!Dist(0, place[c]) <= MaxRange /\ plan.ref

TracksInv ==
    /\ plan \in Plans /\ now \in Nat
    /\ place = [c \in Crafts |-> Along(now)]
    /\ heard \in [Crafts -> Int] /\ tracks = [c \in Crafts |-> tracks[c]]
    /\ \A c \in Crafts : heard[c] <= now
    /\ \A c \in T!Tracked : /\ TrackOk(tracks[c]) /\ tracks[c].seen <= heard[c]
                            /\ tracks[c].due <= tracks[c].fix.at

\* The constants are numbers, and the plans are plans.
LEMMA TrackNumbers ==
  /\ MaxRange \in Nat /\ PairAge \in Nat /\ LocalAge \in Nat /\ Gate \in Nat /\ 1 <= Gate
  /\ TrailSecs \in Nat /\ Forget \in Nat /\ Reach \in Nat
  /\ 4 * Reach <= World /\ 2 * LocalAge < T!Even /\ 2 * PairAge < Step
  /\ plan \in Plans => plan.from \in Int /\ plan.speed \in {-1, 0, 1} /\ plan.ref \in BOOLEAN
BY ReceiversAssumption
   DEF T!WorldAssumption, T!ReachAssumption, T!PlansAssumption, T!PlanType, T!Even, Step

\* No craft is faster than a place a second.
LEMMA NotFaster ==
  ASSUME plan \in Plans, NEW s \in Int, NEW t \in Int
  PROVE  /\ Along(s) \in Int /\ Along(t) \in Int
         /\ T!Dist(Along(s), Along(t)) = T!Dist(s, t) \/ T!Dist(Along(s), Along(t)) = 0
         /\ Along(t + 1) = Along(t) + plan.speed
<1>1. plan.from \in Int /\ plan.speed \in {-1, 0, 1}
  BY TrackNumbers
<1>2. CASE plan.speed = 0
  BY <1>1, <1>2 DEF Along, T!Dist
<1>3. CASE plan.speed = 1
  BY <1>1, <1>3 DEF Along, T!Dist
<1>4. CASE plan.speed = -1
  <2>1. \A n \in Int : (-1) * n = -n
    OBVIOUS
  <2>2. Along(s) = plan.from - s /\ Along(t) = plan.from - t /\ Along(t + 1) = plan.from - (t + 1)
    BY <1>1, <1>4, <2>1 DEF Along
  <2> QED
    BY <1>1, <1>4, <2>2 DEF T!Dist
<1> QED
  BY <1>1, <1>2, <1>3, <1>4

\* Points that were heard.
LEMMA HeardPoint ==
  ASSUME TracksInv, NEW point, Heard(point)
  PROVE  /\ point.was \in Int /\ T!IsLat(point.was)
         /\ \A c \in Crafts : place[c] \in Int /\ T!Dist(point.was, place[c]) <= now - point.at
<1>1. plan \in Plans /\ now \in Nat /\ \A c \in Crafts : place[c] = Along(now)
  BY DEF TracksInv
<1>2. point.at \in Nat /\ point.at <= now /\ point.was = Along(point.at)
      /\ T!Dist(0, point.was) <= Reach
  BY DEF Heard
<1>3. /\ Along(point.at) \in Int /\ Along(now) \in Int
      /\ \/ T!Dist(Along(point.at), Along(now)) = T!Dist(point.at, now)
         \/ T!Dist(Along(point.at), Along(now)) = 0
  BY <1>1, <1>2, NotFaster
<1>4. T!Dist(Along(point.at), Along(now)) <= now - point.at
  BY <1>1, <1>2, <1>3 DEF T!Dist
<1>5. T!IsLat(point.was)
  BY <1>2, <1>3, TrackNumbers, Zones DEF T!Dist, T!IsLat
<1> QED
  BY <1>1, <1>2, <1>3, <1>4, <1>5

-----------------------------------------------------------------------------
\* A trail keeps points it had.
LEMMA TrimmedOk ==
  ASSUME TracksInv, NEW trail, TrailOk(trail), NEW point \in PointType,
         PlaceOk(point.place, point.was, point.stray), point.at = now
  PROVE  TrailOk(T!Trimmed(Append(trail, point)))
<1> DEFINE s == Append(trail, point)
           recent == {i \in DOMAIN s : s[i].at >= now - TrailSecs}
           first == CHOOSE i \in recent : \A j \in recent : i <= j
<1>1. /\ trail \in Seq(PointType)
      /\ \A i \in 1..Len(trail) : PlaceOk(trail[i].place, trail[i].was, trail[i].stray)
  BY DEF TrailOk
<1>2. /\ s \in Seq(PointType) /\ Len(s) = Len(trail) + 1 /\ Len(trail) \in Nat
      /\ s[Len(s)] = point /\ \A i \in 1..Len(trail) : s[i] = trail[i]
  BY <1>1
<1>3. \A i \in 1..Len(s) : PlaceOk(s[i].place, s[i].was, s[i].stray)
  <2> TAKE i \in 1..Len(s)
  <2>1. CASE i = Len(s)
    BY <1>2, <2>1
  <2>2. CASE i # Len(s)
    <3>1. i \in 1..Len(trail)
      BY <1>2, <2>2
    <3> QED
      BY <1>1, <1>2, <3>1
  <2> QED
    BY <2>1, <2>2
<1>4. now \in Nat /\ TrailSecs \in Nat
  BY TrackNumbers DEF TracksInv
<1>5. Len(s) \in recent /\ recent \subseteq Nat /\ recent \subseteq 1..Len(s)
  BY <1>2, <1>4
<1>6. first \in 1..Len(s)
  <2> HIDE DEF recent
  <2>1. \E i \in recent : \A j \in recent : i <= j
    BY <1>5, LeastNat
  <2> QED
    BY <1>5, <2>1
<1> HIDE DEF first, s
<1>7. /\ SubSeq(s, first, Len(s)) \in Seq(PointType)
      /\ \A i \in 1..Len(SubSeq(s, first, Len(s))) :
           /\ SubSeq(s, first, Len(s))[i] = s[first + i - 1]
           /\ first + i - 1 \in 1..Len(s)
  BY <1>2, <1>6
<1>8. \A i \in 1..Len(SubSeq(s, first, Len(s))) :
        LET q == SubSeq(s, first, Len(s))[i] IN PlaceOk(q.place, q.was, q.stray)
  BY <1>3, <1>7
<1>9. T!Trimmed(s) = SubSeq(s, first, Len(s))
  BY DEF T!Trimmed, first
<1>10. TrailOk(T!Trimmed(s))
  BY <1>7, <1>8, <1>9 DEF TrailOk
<1> QED
  BY <1>10 DEF s

\* A place found is a number; and where the craft is, a stray, or out of range.
FoundOk(found, c) ==
    /\ found = [place |-> found.place, stray |-> found.stray]
    /\ found.place \in Int /\ found.stray \in BOOLEAN
    /\ T!Near(found.place) => PlaceOk(found.place, place[c], found.stray)

\* What goes through the gates is a place where the craft is, or a stray; and a true place
\* does if the last fix is true.
LEMMA PlacedOk ==
  ASSUME TracksInv, NEW t, TrackOk(t), NEW c \in Crafts, NEW found, FoundOk(found, c),
         T!Dist(0, place[c]) <= Reach
  PROVE  /\ TrackOk(T!Placed(t, c, found)) /\ T!Placed(t, c, found).seen = t.seen
         /\ T!Placed(t, c, found).due = t.due
         /\ T!Placed(t, c, found).fix.at = now \/ T!Placed(t, c, found).fix = t.fix
         /\ T!Near(found.place) /\ ~found.stray /\ ~t.fix.stray =>
              T!Placed(t, c, found).fix.at = now
<1> DEFINE p == found.place
           point == [at |-> now, place |-> p, was |-> place[c], stray |-> found.stray]
           u == [t EXCEPT !.fix = point, !.trail = T!Trimmed(Append(@, point))]
<1>1. now \in Nat /\ place[c] = Along(now) /\ plan \in Plans
  BY DEF TracksInv
<1>2. place[c] \in Int
  BY <1>1, NotFaster
<1>0. /\ p \in Int /\ found.stray \in BOOLEAN
      /\ T!Near(p) => PlaceOk(p, place[c], found.stray)
  BY DEF FoundOk
<1>3. T!Near(p) /\ ~found.stray /\ ~t.fix.stray => T!Plausible(t, p)
  <2> SUFFICES ASSUME T!Near(p), ~found.stray, ~t.fix.stray, T!Known(t.fix)
               PROVE  T!Dist(t.fix.place, p) <= Gate * (now - t.fix.at)
    BY DEF T!Plausible
  <2>0. p = place[c]
    BY <1>0 DEF PlaceOk
  <2>1. Heard(t.fix) /\ t.fix.place = t.fix.was
    BY DEF TrackOk, FixOk, PlaceOk, T!Known
  <2>2. T!Dist(t.fix.was, place[c]) <= now - t.fix.at /\ t.fix.was \in Int
    BY <2>1, HeardPoint
  <2>3. now - t.fix.at \in Nat
    BY <1>1, <2>1 DEF Heard
  <2>4. now - t.fix.at <= Gate * (now - t.fix.at)
    <3> DEFINE n == now - t.fix.at
    <3>1. n \in Nat /\ Gate \in Nat /\ 1 <= Gate
      BY <2>3, TrackNumbers
    <3> HIDE DEF n
    <3>2. n <= Gate * n
      BY <3>1, Product
    <3> QED
      BY <3>2 DEF n
  <2>5. T!Dist(t.fix.was, place[c]) \in Int /\ Gate * (now - t.fix.at) \in Int
    BY <1>2, <2>2, <2>3, TrackNumbers DEF T!Dist
  <2> QED
    BY <2>0, <2>1, <2>2, <2>3, <2>4, <2>5
<1>4. CASE T!Near(p) /\ T!Plausible(t, p)
  <2>1. T!Placed(t, c, found) = u
    BY <1>4 DEF T!Placed
  <2>2. /\ point \in PointType /\ PlaceOk(point.place, point.was, point.stray)
        /\ point.at = now /\ point.was = place[c]
    BY <1>0, <1>1, <1>2, <1>4 DEF PointType
  <2>3. Heard(point)
    BY <1>1, <2>2 DEF Heard
  <2>4. FixOk(point)
    BY <2>2, <2>3 DEF FixOk
  <2>5. TrailOk(T!Trimmed(Append(t.trail, point)))
    BY <2>2, TrimmedOk DEF TrackOk
  <2> HIDE DEF point
  <2>6. t \in TrackType /\ T!Trimmed(Append(t.trail, point)) \in Seq(PointType)
    BY <2>5 DEF TrackOk, TrailOk
  <2>7. /\ u \in TrackType /\ u.fix = point /\ u.trail = T!Trimmed(Append(t.trail, point))
        /\ u.seen = t.seen /\ u.even = t.even /\ u.odd = t.odd /\ u.due = t.due
    BY <2>2, <2>6 DEF TrackType
  <2>8. TrackOk(u)
    BY <2>4, <2>5, <2>7 DEF TrackOk
  <2> QED
    BY <1>4, <2>1, <2>2, <2>7, <2>8
<1>5. CASE ~(T!Near(p) /\ T!Plausible(t, p))
  BY <1>3, <1>5 DEF T!Placed
<1> QED
  BY <1>4, <1>5

\* A frame put into its slot.
Slotted(t, c, odd) ==
    LET slot == [at |-> now, place |-> place[c] % T!Zone(odd), was |-> place[c], stray |-> FALSE]
    IN  IF odd THEN [t EXCEPT !.odd = slot] ELSE [t EXCEPT !.even = slot]

\* A frame put into its slot leaves a track as it should be, and is the newest there.
LEMMA SlottedOk ==
  ASSUME TracksInv, NEW t, TrackOk(t), NEW c \in Crafts, NEW odd \in BOOLEAN,
         T!Dist(0, place[c]) <= Reach
  PROVE  LET u == Slotted(t, c, odd)
         IN  /\ TrackOk(u) /\ u.seen = t.seen /\ u.due = t.due /\ u.fix = t.fix
             /\ odd => u.odd.at = now /\ u.odd.was = place[c]
             /\ ~odd => u.even.at = now /\ u.even.was = place[c]
<1> DEFINE slot == [at |-> now, place |-> place[c] % T!Zone(odd), was |-> place[c], stray |-> FALSE]
<1>1. now \in Nat /\ place[c] = Along(now) /\ plan \in Plans
  BY DEF TracksInv
<1>2. place[c] \in Int
  BY <1>1, NotFaster
<1>3. T!Zone(odd) \in Nat \ {0} /\ (odd => T!Zone(odd) = T!Odd) /\ (~odd => T!Zone(odd) = T!Even)
  BY Zones DEF T!Zone
<1>4. place[c] % T!Zone(odd) \in Nat
  BY <1>2, <1>3, Division
<1>5. /\ slot \in PointType /\ slot.at = now /\ slot.was = place[c]
      /\ slot.place = place[c] % T!Zone(odd)
  BY <1>1, <1>2, <1>4 DEF PointType
<1> HIDE DEF slot
<1>6. SlotOk(slot, T!Zone(odd))
  BY <1>1, <1>5 DEF SlotOk, Heard
<1>7. t \in TrackType
  BY DEF TrackOk
<1>8. CASE odd
  <2> DEFINE u == [t EXCEPT !.odd = slot]
  <2>1. /\ u \in TrackType /\ u.odd = slot /\ u.seen = t.seen /\ u.due = t.due
        /\ u.fix = t.fix /\ u.even = t.even /\ u.trail = t.trail
    BY <1>5, <1>7 DEF TrackType
  <2>2. Slotted(t, c, odd) = u
    BY <1>8 DEF Slotted, slot
  <2> HIDE DEF u
  <2>3. TrackOk(u)
    BY <1>3, <1>6, <1>8, <2>1 DEF TrackOk
  <2> QED
    BY <1>5, <1>8, <2>1, <2>2, <2>3
<1>9. CASE ~odd
  <2> DEFINE u == [t EXCEPT !.even = slot]
  <2>1. /\ u \in TrackType /\ u.even = slot /\ u.seen = t.seen /\ u.due = t.due
        /\ u.fix = t.fix /\ u.odd = t.odd /\ u.trail = t.trail
    BY <1>5, <1>7 DEF TrackType
  <2>2. Slotted(t, c, odd) = u
    BY <1>9 DEF Slotted, slot
  <2> HIDE DEF u
  <2>3. TrackOk(u)
    BY <1>3, <1>6, <1>9, <2>1 DEF TrackOk
  <2> QED
    BY <1>5, <1>9, <2>1, <2>2, <2>3
<1> QED
  BY <1>8, <1>9

\* A pair says where both its frames were sent.
LEMMA PairTrue ==
  ASSUME TracksInv, NEW u, TrackOk(u), T!Paired(u)
  PROVE  /\ T!GlobalEven(u.even.place, u.odd.place) = u.even.was
         /\ T!GlobalOdd(u.even.place, u.odd.place) = u.odd.was
<1>1. /\ Heard(u.even) /\ Heard(u.odd)
      /\ u.even.place = u.even.was % T!Even /\ u.odd.place = u.odd.was % T!Odd
      /\ T!Dist(u.even.at, u.odd.at) <= PairAge
  BY DEF T!Paired, T!Known, TrackOk, SlotOk
<1>2. /\ u.even.was \in Int /\ T!IsLat(u.even.was) /\ u.odd.was \in Int /\ T!IsLat(u.odd.was)
  BY <1>1, HeardPoint
<1>3. plan \in Plans /\ u.even.at \in Int /\ u.odd.at \in Int
      /\ u.even.was = Along(u.even.at) /\ u.odd.was = Along(u.odd.at)
  BY <1>1 DEF TracksInv, Heard
<1>4. T!Dist(u.even.was, u.odd.was) = T!Dist(u.even.at, u.odd.at) \/ T!Dist(u.even.was, u.odd.was) = 0
  BY <1>3, NotFaster
<1>5. T!Dist(u.even.at, u.odd.at) \in Int
  BY <1>3 DEF T!Dist
<1>6. 2 * T!Dist(u.even.was, u.odd.was) < Step
  BY <1>1, <1>4, <1>5, TrackNumbers, Zones
<1> QED
  BY <1>1, <1>2, <1>6, GlobalTrue

\* The newer frame of the pair is the one that came.
LEMMA NewerTrue ==
  ASSUME TracksInv, NEW t, TrackOk(t), NEW c \in Crafts, NEW odd \in BOOLEAN,
         T!Dist(0, place[c]) <= Reach, T!Paired(Slotted(t, c, odd))
  PROVE  LET u == Slotted(t, c, odd)
         IN  place[c] = IF u.odd.at >= u.even.at THEN u.odd.was ELSE u.even.was
<1> DEFINE u == Slotted(t, c, odd)
<1>1. /\ TrackOk(u) /\ (odd => u.odd.at = now /\ u.odd.was = place[c])
      /\ (~odd => u.even.at = now /\ u.even.was = place[c])
  BY SlottedOk
<1> HIDE DEF u
<1>2. Heard(u.even) /\ Heard(u.odd)
  BY <1>1 DEF T!Paired, T!Known, TrackOk, SlotOk, u
<1>3. /\ now \in Nat /\ place[c] = Along(now)
      /\ u.even.at \in Nat /\ u.even.at <= now /\ u.even.was = Along(u.even.at)
      /\ u.odd.at \in Nat /\ u.odd.at <= now /\ u.odd.was = Along(u.odd.at)
  BY <1>2 DEF TracksInv, Heard
<1>4. CASE odd
  BY <1>1, <1>3, <1>4 DEF u
<1>5. CASE ~odd
  BY <1>1, <1>3, <1>5 DEF u
<1> QED
  BY <1>4, <1>5

\* A lone frame decoded against a fresh fix that is true is where the craft is; against the
\* receiver, if that is not too far a reference, it is, or it is out of range.
LEMMA LoneTrue ==
  ASSUME TracksInv, NEW u, TrackOk(u), NEW c \in Crafts, NEW odd \in BOOLEAN,
         plan.kind = "adsb", T!Dist(0, place[c]) <= Reach, NEW ref \in T!References(u, c, odd)
  PROVE  LET d == T!LocalDecode(place[c] % T!Zone(odd), T!Zone(odd), ref.place)
         IN  /\ FoundOk(T!Solved(d, ref.stray), c)
             /\ InSight(c) /\ ~ref.stray => d = place[c]
<1> DEFINE w == T!Zone(odd)
           d == T!LocalDecode(place[c] % w, w, ref.place)
<1>1. /\ now \in Nat /\ place[c] = Along(now) /\ plan \in Plans /\ place[c] \in Int
      /\ plan.ref \in BOOLEAN
  BY NotFaster, TrackNumbers DEF TracksInv
<1>2. w \in Nat \ {0} /\ T!Even <= w /\ T!Even \in Nat
  BY Zones DEF T!Zone
<1>3. \/ /\ T!Known(u.fix) /\ now - u.fix.at <= LocalAge
         /\ ref = T!Solved(u.fix.place, u.fix.stray)
      \/ plan.ref /\ ref = T!Solved(0, T!TooFar(place[c], w))
  BY DEF T!References, T!hasRef
<1>4. ref.place \in Int /\ ref.stray \in BOOLEAN
  <2>1. u.fix.place \in Int /\ u.fix.stray \in BOOLEAN
    BY DEF TrackOk, FixOk, PointType
  <2>2. T!TooFar(place[c], w) \in BOOLEAN
    BY DEF T!TooFar
  <2> HIDE DEF w
  <2> QED
    BY <1>3, <2>1, <2>2 DEF T!Solved
<1> HIDE DEF w
<1>5. d \in Int /\ 2 * T!Dist(ref.place, d) <= w /\ \E k \in Int : d = place[c] + w * k
  BY <1>1, <1>2, <1>4, LocalPlace
<1>6. PICK k \in Int : d = place[c] + w * k
  BY <1>5
<1> HIDE DEF d
<1>7. T!Dist(place[c], d) < w => d = place[c]
  BY <1>1, <1>2, <1>6, ZoneApart
<1>8. /\ ref.stray => WideGate
      /\ ~ref.stray /\ (T!Near(d) \/ InSight(c)) => d = place[c]
  <2>1. CASE /\ T!Known(u.fix) /\ now - u.fix.at <= LocalAge
             /\ ref = T!Solved(u.fix.place, u.fix.stray)
    <3>1. /\ Heard(u.fix) /\ ref.place = u.fix.place /\ ref.stray = u.fix.stray
          /\ PlaceOk(u.fix.place, u.fix.was, u.fix.stray)
      BY <2>1 DEF TrackOk, FixOk, T!Known, T!Solved
    <3>2. ASSUME ~ref.stray PROVE d = place[c]
      <4>1. ref.place = u.fix.was
        BY <3>1, <3>2 DEF PlaceOk
      <4>2. T!Dist(ref.place, place[c]) <= now - u.fix.at
        BY <3>1, <4>1, HeardPoint
      <4>3. u.fix.at \in Nat
        BY <3>1 DEF Heard
      <4>4. T!Dist(ref.place, place[c]) \in Int /\ T!Dist(ref.place, d) \in Int
        BY <1>1, <1>4, <1>5 DEF T!Dist
      <4>5. 2 * T!Dist(ref.place, place[c]) < w
        BY <1>1, <1>2, <2>1, <4>2, <4>3, <4>4, TrackNumbers
      <4>6. T!Dist(place[c], d) < w
        BY <1>1, <1>2, <1>4, <1>5, <4>4, <4>5 DEF T!Dist
      <4> QED
        BY <1>7, <4>6
    <3>3. ref.stray => WideGate
      BY <3>1 DEF PlaceOk
    <3> QED
      BY <3>2, <3>3
  <2>2. CASE plan.ref /\ ref = T!Solved(0, T!TooFar(place[c], w))
    <3>1. ref.place = 0 /\ ref.stray = T!TooFar(place[c], w)
      BY <2>2 DEF T!Solved
    <3> DEFINE far == 2 * T!Dist(0, place[c]) >= w /\ T!Dist(0, place[c]) + MaxRange >= w
    <3>0. (ref.stray => far) /\ (~ref.stray => ~far)
      BY <3>1, Zenon DEF T!TooFar
    <3>2. ref.stray => WideGate
      BY <1>1, <1>2, <3>0, TrackNumbers DEF T!Dist, WideGate
    <3>3. ASSUME ~ref.stray, T!Near(d) PROVE d = place[c]
      <4>1. T!Dist(0, d) <= MaxRange
        BY <2>2, <3>3 DEF T!Near, T!hasRef
      <4>2. 2 * T!Dist(0, place[c]) < w \/ T!Dist(0, place[c]) + MaxRange < w
        BY <1>1, <1>2, <3>0, <3>3, TrackNumbers DEF T!Dist
      <4>3. T!Dist(place[c], d) < w
        BY <1>1, <1>2, <1>5, <3>1, <4>1, <4>2, TrackNumbers DEF T!Dist
      <4> QED
        BY <1>7, <4>3
    <3>4. ASSUME ~ref.stray, InSight(c) PROVE d = place[c]
      <4>1. T!Dist(0, place[c]) <= MaxRange
        BY <3>4 DEF InSight
      <4>2. 2 * T!Dist(0, place[c]) < w \/ T!Dist(0, place[c]) + MaxRange < w
        BY <1>1, <1>2, <3>0, <3>4, TrackNumbers DEF T!Dist
      <4>3. T!Dist(place[c], d) < w
        BY <1>1, <1>2, <1>5, <3>1, <4>1, <4>2, TrackNumbers DEF T!Dist
      <4> QED
        BY <1>7, <4>3
    <3> QED
      BY <3>2, <3>3, <3>4
  <2> QED
    BY <1>3, <2>1, <2>2
<1>9. T!Solved(d, ref.stray).place = d /\ T!Solved(d, ref.stray).stray = ref.stray
      /\ T!Solved(d, ref.stray) = [place |-> d, stray |-> ref.stray]
  BY DEF T!Solved
<1>10. FoundOk(T!Solved(d, ref.stray), c)
  BY <1>4, <1>5, <1>8, <1>9 DEF FoundOk, PlaceOk
<1> QED
  BY <1>8, <1>10 DEF d, w

\* What a position frame makes of a track.
LEMMA PositionOk ==
  ASSUME TracksInv, NEW t, TrackOk(t), NEW c \in Crafts, NEW odd \in BOOLEAN,
         plan.kind = "adsb", T!Dist(0, place[c]) <= Reach,
         NEW v \in T!UpdatePosition(t, c, odd)
  PROVE  /\ TrackOk(v) /\ v.seen = t.seen /\ v.due = t.due
         /\ v.fix.at = now \/ v.fix = t.fix
         /\ InSight(c) /\ T!Sound(t, c, odd) => v.fix.at = now
<1> DEFINE u == Slotted(t, c, odd)
           e == T!GlobalEven(u.even.place, u.odd.place)
           o == T!GlobalOdd(u.even.place, u.odd.place)
           whole == T!Paired(u) /\ T!IsLat(e) /\ T!IsLat(o)
           global == IF ~whole THEN {}
                     ELSE {T!Solved(IF u.odd.at >= u.even.at THEN o ELSE e, FALSE)}
           slot == [at |-> now, place |-> place[c] % T!Zone(odd), was |-> place[c], stray |-> FALSE]
           local == {T!Solved(T!LocalDecode(slot.place, T!Zone(odd), r.place), r.stray) :
                       r \in T!References(u, c, odd)}
           fixes == IF ~whole THEN local ELSE IF e = o THEN global ELSE global \cup local
<1>1. v \in IF fixes = {} \/ (whole /\ e # o /\ local = {})
              THEN {u} \cup {T!Placed(u, c, f) : f \in {g \in fixes : T!IsLat(g.place)}}
              ELSE {IF T!IsLat(f.place) THEN T!Placed(u, c, f) ELSE u : f \in fixes}
  BY DEF T!UpdatePosition, Slotted
<1>2. TrackOk(u) /\ u.seen = t.seen /\ u.due = t.due /\ u.fix = t.fix
  BY SlottedOk
<1> HIDE DEF u
<1>3. place[c] \in Int
  BY NotFaster DEF TracksInv
<1> DEFINE here == T!Solved(place[c], FALSE)
<1>4. whole => global = {here}
  <2> SUFFICES ASSUME whole
               PROVE  global = {here}
    OBVIOUS
  <2>1. e = u.even.was /\ o = u.odd.was
    BY <1>2, PairTrue
  <2>2. place[c] = IF u.odd.at >= u.even.at THEN u.odd.was ELSE u.even.was
    BY NewerTrue DEF u
  <2> HIDE DEF e, o
  <2> QED
    BY <2>1, <2>2
<1>5. /\ here.place = place[c] /\ here.stray = FALSE
      /\ FoundOk(here, c)
  BY <1>3 DEF T!Solved, FoundOk, PlaceOk
<1> HIDE DEF here
<1> DEFINE sound == InSight(c) /\ T!Sound(t, c, odd)
<1>6. \A f \in local : FoundOk(f, c) /\ (sound => f.place = place[c] /\ ~f.stray)
  <2> TAKE f \in local
  <2>1. PICK r \in T!References(u, c, odd) :
          f = T!Solved(T!LocalDecode(place[c] % T!Zone(odd), T!Zone(odd), r.place), r.stray)
    OBVIOUS
  <2>2. T!References(u, c, odd) = T!References(t, c, odd)
    BY <1>2 DEF T!References
  <2>3. sound => ~r.stray
    BY <2>1, <2>2 DEF T!Sound
  <2>4. /\ FoundOk(f, c)
        /\ InSight(c) /\ ~r.stray =>
             T!LocalDecode(place[c] % T!Zone(odd), T!Zone(odd), r.place) = place[c]
    BY <1>2, <2>1, LoneTrue
  <2> HIDE DEF local
  <2> QED
    BY <2>1, <2>3, <2>4 DEF T!Solved
<1>7. InSight(c) => local # {}
  <2>1. InSight(c) => T!References(u, c, odd) # {}
    BY DEF T!References, T!hasRef, InSight
  <2> QED
    BY <2>1
<1>8. T!Sound(t, c, odd) => ~u.fix.stray
  BY <1>2 DEF T!Sound
<1> HIDE DEF local, e, o, global, sound
<1>9. \A f \in fixes : FoundOk(f, c) /\ (sound => f.place = place[c] /\ ~f.stray)
  BY <1>4, <1>5, <1>6
<1>10. InSight(c) => fixes # {} /\ ~(whole /\ e # o /\ local = {})
  BY <1>4, <1>7
<1> HIDE DEF whole, fixes
<1>11. ASSUME NEW f \in fixes
       PROVE  /\ TrackOk(T!Placed(u, c, f)) /\ T!Placed(u, c, f).seen = t.seen
              /\ T!Placed(u, c, f).due = t.due
              /\ T!Placed(u, c, f).fix.at = now \/ T!Placed(u, c, f).fix = t.fix
              /\ T!Near(f.place) /\ ~f.stray /\ ~u.fix.stray => T!Placed(u, c, f).fix.at = now
  BY <1>2, <1>9, PlacedOk
<1>12. v = u \/ \E f \in fixes : v = T!Placed(u, c, f)
  BY <1>1
<1>13. ASSUME InSight(c), T!Sound(t, c, odd) PROVE v.fix.at = now
  <2>1. PICK f \in fixes : v = IF T!IsLat(f.place) THEN T!Placed(u, c, f) ELSE u
    BY <1>1, <1>10, <1>13
  <2>2. f.place = place[c] /\ ~f.stray
    BY <1>9, <1>13 DEF sound
  <2>3. T!IsLat(f.place)
    BY <1>3, <2>2, TrackNumbers, Zones DEF T!IsLat, T!Dist
  <2>4. T!Near(f.place)
    BY <1>13, <2>2 DEF InSight, T!Near
  <2> QED
    BY <1>8, <1>11, <1>13, <2>1, <2>2, <2>3, <2>4
<1> QED
  BY <1>2, <1>11, <1>12, <1>13

\* A track that was not there is opened, and what is in it stays.
LEMMA OpenedOk ==
  ASSUME TracksInv, NEW c \in Crafts
  PROVE  TrackOk(T!Opened(c)) /\ T!Opened(c).seen = now /\ T!Opened(c).due <= T!Opened(c).fix.at
<1> DEFINE u == IF tracks[c] = NoTrack THEN T!NewTrack ELSE tracks[c]
<1>1. now \in Nat
  BY DEF TracksInv
<1>2. TrackOk(u) /\ u.due <= u.fix.at
  <2>1. CASE tracks[c] = NoTrack
    <3>1. /\ T!Never \in PointType /\ T!Never.at = -1
          /\ PlaceOk(T!Never.place, T!Never.was, T!Never.stray)
      BY DEF T!Never, PointType, PlaceOk
    <3>2. FixOk(T!Never) /\ SlotOk(T!Never, T!Even) /\ SlotOk(T!Never, T!Odd)
      BY <3>1 DEF FixOk, SlotOk
    <3>3. TrailOk(<<>>)
      BY DEF TrailOk
    <3>4. /\ T!NewTrack \in TrackType /\ T!NewTrack.seen = now /\ T!NewTrack.fix = T!Never
          /\ T!NewTrack.even = T!Never /\ T!NewTrack.odd = T!Never /\ T!NewTrack.trail = <<>>
          /\ T!NewTrack.due = -1
      BY <1>1, <3>1 DEF T!NewTrack, TrackType
    <3>5. TrackOk(T!NewTrack)
      BY <1>1, <3>2, <3>3, <3>4 DEF TrackOk
    <3> QED
      BY <2>1, <3>1, <3>4, <3>5
  <2>2. CASE tracks[c] # NoTrack
    BY <2>2 DEF TracksInv, T!Tracked
  <2> QED
    BY <2>1, <2>2
<1>3. T!Opened(c) = [u EXCEPT !.seen = now]
  BY DEF T!Opened
<1> HIDE DEF u
<1>4. u \in TrackType
  BY <1>2 DEF TrackOk
<1>5. /\ T!Opened(c) \in TrackType /\ T!Opened(c).seen = now /\ T!Opened(c).fix = u.fix
      /\ T!Opened(c).even = u.even /\ T!Opened(c).odd = u.odd /\ T!Opened(c).trail = u.trail
      /\ T!Opened(c).due = u.due
  BY <1>1, <1>3, <1>4 DEF TrackType
<1> QED
  BY <1>1, <1>2, <1>5 DEF TrackOk

\* A frame falls due when it shows its place.
LEMMA DueOk ==
  ASSUME TracksInv, NEW c \in Crafts
  PROVE  LET t == T!Due(T!Opened(c), c)
         IN  /\ TrackOk(t) /\ t.seen = now /\ t.fix = T!Opened(c).fix
             /\ IF InSight(c) THEN t.due = now ELSE t.due <= t.fix.at
<1> DEFINE u == T!Opened(c)
           t == T!Due(u, c)
<1>1. TrackOk(u) /\ u.seen = now /\ u.due <= u.fix.at /\ now \in Nat
  BY OpenedOk DEF TracksInv
<1> HIDE DEF u
<1>2. u \in TrackType
  BY <1>1 DEF TrackOk
<1>3. t = [u EXCEPT !.due = IF InSight(c) THEN now ELSE u.due]
  BY DEF T!Due, InSight, T!hasRef
<1>4. /\ t \in TrackType /\ t.seen = now /\ t.fix = u.fix /\ t.even = u.even /\ t.odd = u.odd
      /\ t.trail = u.trail /\ t.due = IF InSight(c) THEN now ELSE u.due
  BY <1>1, <1>2, <1>3 DEF TrackType
<1> HIDE DEF t
<1>5. TrackOk(t)
  BY <1>1, <1>4 DEF TrackOk
<1> QED
  BY <1>1, <1>4, <1>5 DEF u, t

\* A track stays what it is as time goes by.
LEMMA Later ==
  ASSUME NEW v, TrackOk(v), plan' = plan, now \in Nat, now' \in Nat, now <= now'
  PROVE  TrackOk(v)'
<1>1. v \in TrackType /\ v.fix.at \in Int /\ v.even.at \in Int /\ v.odd.at \in Int /\ v.seen \in Int
  BY DEF TrackOk, TrackType, PointType
<1>2. ASSUME NEW point, point.at \in Int, Heard(point)
      PROVE  Heard(point)'
  BY <1>2 DEF Heard, Along
<1>3. FixOk(v.fix)'
  BY <1>1, <1>2 DEF TrackOk, FixOk, PlaceOk
<1>4. SlotOk(v.even, T!Even)' /\ SlotOk(v.odd, T!Odd)'
  BY <1>1, <1>2 DEF TrackOk, SlotOk, T!Even, T!Odd
<1>5. TrailOk(v.trail)'
  BY DEF TrackOk, TrailOk, PlaceOk
<1> QED
  BY <1>1, <1>3, <1>4, <1>5 DEF TrackOk

\* One track changes.
LEMMA OneTrack ==
  ASSUME TracksInv, NEW c \in Crafts, T!Heard(c), NEW v, TrackOk(v), v.seen = now,
         v.due <= v.fix.at, tracks' = [tracks EXCEPT ![c] = v]
  PROVE  TracksInv'
<1>1. /\ UNCHANGED <<plan, now, place>> /\ heard' = [heard EXCEPT ![c] = now]
      /\ now \in Nat /\ heard \in [Crafts -> Int] /\ tracks = [x \in Crafts |-> tracks[x]]
      /\ \A x \in Crafts : heard[x] <= now
  BY DEF T!Heard, TracksInv
<1>2. /\ heard' \in [Crafts -> Int] /\ tracks' = [x \in Crafts |-> tracks'[x]]
      /\ heard'[c] = now /\ tracks'[c] = v
      /\ \A x \in Crafts : x # c => heard'[x] = heard[x] /\ tracks'[x] = tracks[x]
  BY <1>1
<1>3. ASSUME NEW x \in T!Tracked'
      PROVE  (TrackOk(tracks[x]) /\ tracks[x].seen <= heard[x] /\ tracks[x].due <= tracks[x].fix.at)'
  <2>1. x \in Crafts /\ tracks'[x] # NoTrack
    BY <1>3 DEF T!Tracked
  <2>2. CASE x = c
    <3>1. TrackOk(v)'
      BY <1>1, Later
    <3> QED
      BY <1>1, <1>2, <2>2, <3>1
  <2>3. CASE x # c
    <3>1. x \in T!Tracked
      BY <1>2, <2>1, <2>3 DEF T!Tracked
    <3>2. TrackOk(tracks[x]) /\ tracks[x].seen <= heard[x] /\ tracks[x].due <= tracks[x].fix.at
      BY <3>1 DEF TracksInv
    <3>3. tracks'[x] = tracks[x] /\ heard'[x] = heard[x]
      BY <1>2, <2>1, <2>3
    <3>4. TrackOk(tracks[x])'
      BY <1>1, <3>2, <3>3, Later
    <3> QED
      BY <3>2, <3>3, <3>4
  <2> QED
    BY <2>2, <2>3
<1>4. \A x \in Crafts : heard'[x] <= now
  BY <1>1, <1>2
<1>5. plan \in Plans /\ place = [x \in Crafts |-> Along(now)]
  BY DEF TracksInv
<1> QED
  BY <1>1, <1>2, <1>3, <1>4, <1>5 DEF TracksInv, Along

\* No track changes, but some may go, and time may go by.
LEMMA NoNewTrack ==
  ASSUME TracksInv, plan' = plan, now' \in Nat, now <= now', place' = [c \in Crafts |-> Along(now')],
         heard' \in [Crafts -> Int], \A c \in Crafts : heard[c] <= heard'[c] /\ heard'[c] <= now',
         tracks' = [c \in Crafts |-> tracks'[c]],
         \A c \in Crafts : tracks'[c] = NoTrack \/ tracks'[c] = tracks[c]
  PROVE  TracksInv'
<1>1. plan \in Plans /\ now \in Nat /\ heard \in [Crafts -> Int]
  BY DEF TracksInv
<1>2. ASSUME NEW c \in T!Tracked'
      PROVE  (TrackOk(tracks[c]) /\ tracks[c].seen <= heard[c] /\ tracks[c].due <= tracks[c].fix.at)'
  <2>1. c \in Crafts /\ c \in T!Tracked /\ tracks'[c] = tracks[c]
    BY <1>2 DEF T!Tracked
  <2>2. TrackOk(tracks[c]) /\ tracks[c].seen <= heard[c] /\ tracks[c].due <= tracks[c].fix.at
    BY <2>1 DEF TracksInv
  <2>3. TrackOk(tracks[c])'
    BY <1>1, <2>1, <2>2, Later
  <2>4. tracks[c].seen \in Int /\ heard[c] \in Int /\ heard'[c] \in Int
    BY <1>1, <2>1, <2>2 DEF TrackOk, TrackType
  <2> QED
    BY <2>1, <2>2, <2>3, <2>4
<1> QED
  BY <1>1, <1>2 DEF TracksInv, Along

\* Every step of the pipeline and of the crafts keeps all tracks true.
LEMMA TracksNext == TracksInv /\ [T!Next]_air => TracksInv'
<1> SUFFICES ASSUME TracksInv, [T!Next]_air
             PROVE  TracksInv'
  OBVIOUS
<1>1. /\ now \in Nat /\ plan \in Plans /\ heard \in [Crafts -> Int] /\ place = [c \in Crafts |-> Along(now)]
      /\ tracks = [c \in Crafts |-> tracks[c]]
      /\ \A c \in Crafts : heard[c] <= now /\ heard[c] \in Int
  BY DEF TracksInv
<1>2. ASSUME NEW c \in Crafts, T!IngestFrame(c)
      PROVE  TracksInv'
  <2> DEFINE was == T!Opened(c)
             t(odd) == IF T!Sound(was, c, odd) THEN T!Due(was, c) ELSE was
  <2>1. PICK odd \in BOOLEAN : \E v \in T!UpdatePosition(t(odd), c, odd) :
          tracks' = [tracks EXCEPT ![c] = v]
    BY <1>2 DEF T!IngestFrame
  <2>2. PICK v \in T!UpdatePosition(t(odd), c, odd) : tracks' = [tracks EXCEPT ![c] = v]
    BY <2>1
  <2>3. T!Heard(c) /\ T!Dist(0, place[c]) <= Reach /\ plan.kind = "adsb"
    BY <1>2 DEF T!IngestFrame, T!Heard, T!kind
  <2> DEFINE d == t(odd)
  <2>4. /\ TrackOk(d) /\ d.seen = now
        /\ d.due <= d.fix.at \/ (InSight(c) /\ T!Sound(d, c, odd) /\ d.due = now)
    <3>1. CASE T!Sound(was, c, odd)
      <4>1. d = T!Due(was, c)
        BY <3>1
      <4>2. /\ TrackOk(d) /\ d.seen = now /\ d.fix = was.fix
            /\ IF InSight(c) THEN d.due = now ELSE d.due <= d.fix.at
        BY <4>1, DueOk
      <4>3. T!Sound(d, c, odd)
        BY <3>1, <4>2 DEF T!Sound, T!References
      <4> QED
        BY <4>2, <4>3
    <3>2. CASE ~T!Sound(was, c, odd)
      BY <3>2, OpenedOk
    <3> QED
      BY <3>1, <3>2
  <2>5. d.fix.at \in Int /\ d.fix.at <= now /\ d.due \in Int
    BY <1>1, <2>4 DEF TrackOk, TrackType, FixOk, Heard, PointType
  <2> HIDE DEF d
  <2>6. /\ TrackOk(v) /\ v.seen = d.seen /\ v.due = d.due
        /\ v.fix.at = now \/ v.fix = d.fix
        /\ InSight(c) /\ T!Sound(d, c, odd) => v.fix.at = now
    BY <2>2, <2>3, <2>4, PositionOk DEF d
  <2>7. v.due <= v.fix.at
    BY <1>1, <2>4, <2>5, <2>6
  <2> QED
    BY <2>2, <2>3, <2>4, <2>6, <2>7, OneTrack
<1>3. ASSUME NEW c \in Crafts, T!IngestReport(c)
      PROVE  TracksInv'
  <2>1. T!Heard(c) /\ T!Dist(0, place[c]) <= Reach
    BY <1>3 DEF T!IngestReport, T!Heard
  <2>2. CASE plan.kind = "aprs" /\ ~T!Near(place[c])
    <3>1. tracks' = tracks
      BY <1>3, <2>2 DEF T!IngestReport, T!kind
    <3>2. UNCHANGED <<plan, now, place>> /\ heard' = [heard EXCEPT ![c] = now]
      BY <2>1 DEF T!Heard
    <3> QED
      BY <1>1, <3>1, <3>2, NoNewTrack DEF Along
  <2>3. CASE ~(plan.kind = "aprs" /\ ~T!Near(place[c]))
    <3> DEFINE t == T!Due(T!Opened(c), c)
               here == T!Solved(place[c], FALSE)
               v == T!Placed(t, c, here)
    <3>1. tracks' = [tracks EXCEPT ![c] = v]
      BY <1>3, <2>3 DEF T!IngestReport, T!kind
    <3>2. TrackOk(t) /\ t.seen = now /\ IF InSight(c) THEN t.due = now ELSE t.due <= t.fix.at
      BY DueOk
    <3>3. t.fix.at \in Int /\ t.fix.at <= now /\ t.due \in Int
      BY <1>1, <3>2 DEF TrackOk, TrackType, FixOk, Heard, PointType
    <3> HIDE DEF t
    <3>4. FoundOk(here, c) /\ here.place = place[c] /\ here.stray = FALSE
      BY <1>1, NotFaster DEF T!Solved, FoundOk, PlaceOk
    <3>0. ~t.fix.stray
      BY <1>3, <3>2 DEF T!IngestReport, T!kind, TrackOk, FixOk, PlaceOk
    <3> HIDE DEF here
    <3>5. /\ TrackOk(v) /\ v.seen = t.seen /\ v.due = t.due
          /\ v.fix.at = now \/ v.fix = t.fix
          /\ T!Near(place[c]) => v.fix.at = now
      BY <2>1, <3>0, <3>2, <3>4, PlacedOk
    <3> HIDE DEF v
    <3>6. InSight(c) => T!Near(place[c])
      BY DEF InSight, T!Near
    <3>7. v.due <= v.fix.at
      BY <1>1, <3>2, <3>3, <3>5, <3>6
    <3> QED
      BY <2>1, <3>1, <3>2, <3>5, <3>7, OneTrack
  <2> QED
    BY <2>2, <2>3
<1>4. ASSUME NEW c \in Crafts, T!IngestOther(c)
      PROVE  TracksInv'
  <2>1. T!Heard(c) /\ tracks' = [tracks EXCEPT ![c] = T!Opened(c)]
    BY <1>4 DEF T!IngestOther
  <2> QED
    BY <2>1, OpenedOk, OneTrack
<1>5. CASE T!Start \/ T!Open \/ T!OpenFails \/ T!Stop \/ UNCHANGED air
  <2>1. UNCHANGED <<plan, now, place, tracks, heard>>
    BY <1>5 DEF T!Start, T!Open, T!OpenFails, T!Stop, T!Goto, air
  <2> QED
    BY <1>1, <2>1, NoNewTrack DEF Along
<1>6. CASE T!Reset
  <2>1. UNCHANGED <<plan, now, place, heard>> /\ tracks' = [c \in Crafts |-> NoTrack]
    BY <1>6 DEF T!Reset
  <2> QED
    BY <1>1, <2>1, NoNewTrack DEF Along
<1>7. CASE T!Prune
  <2>1. UNCHANGED <<plan, now, place, heard>>
        /\ tracks' = [c \in Crafts |->
             IF tracks[c] # NoTrack /\ now - tracks[c].seen > Forget THEN NoTrack ELSE tracks[c]]
    BY <1>7 DEF T!Prune
  <2>2. tracks' = [c \in Crafts |-> tracks'[c]]
        /\ \A c \in Crafts : tracks'[c] = NoTrack \/ tracks'[c] = tracks[c]
    BY <2>1
  <2> QED
    BY <1>1, <2>1, <2>2, NoNewTrack DEF Along
<1>8. CASE T!Tick
  <2>1. UNCHANGED <<plan, tracks, heard>> /\ now' = now + 1
        /\ place' = [c \in Crafts |-> place[c] + plan.speed]
    BY <1>8 DEF T!Tick
  <2>2. Along(now + 1) = Along(now) + plan.speed
    BY <1>1, NotFaster
  <2>3. place' = [c \in Crafts |-> Along(now')]
    BY <1>1, <2>1, <2>2
  <2> QED
    BY <1>1, <2>1, <2>3, NoNewTrack
<1> QED
  BY <1>2, <1>3, <1>4, <1>5, <1>6, <1>7, <1>8 DEF T!Next

\* There is no track to begin with.
LEMMA TracksInit == ReceiversInit => TracksInv
<1> SUFFICES ASSUME ReceiversInit
             PROVE  TracksInv
  OBVIOUS
<1>1. /\ plan \in Plans /\ now = 0 /\ place = [c \in Crafts |-> plan.from]
      /\ tracks = [c \in Crafts |-> NoTrack] /\ heard = [c \in Crafts |-> -1]
  BY DEF ReceiversInit, T!Init
<1>2. Along(now) = plan.from
  BY <1>1, TrackNumbers DEF Along
<1>3. T!Tracked = {}
  BY <1>1 DEF T!Tracked
<1> QED
  BY <1>1, <1>2, <1>3 DEF TracksInv

\* What the other receivers do leaves the tracks alone.
LEMMA TracksStep == TracksInv /\ [ReceiversNext]_all => TracksInv'
<1>1. [ReceiversNext]_all => [T!Next]_air
  BY DEF ReceiversNext, all
<1> QED
  BY <1>1, TracksNext

\* What a track shows is true, or a stray that a wide gate let in.
LEMMA PointsOk ==
  ASSUME TracksInv, NEW c \in T!Tracked, NEW point \in T!PointsOf(c)
  PROVE  PlaceOk(point.place, point.was, point.stray)
<1>1. TrackOk(tracks[c])
  BY DEF TracksInv
<1> QED
  BY <1>1 DEF T!PointsOf, TrackOk, FixOk, TrailOk

\* For every ring, range, age, gate and length of a trail within the assumptions, which ask
\* nothing of the range: no place is shown that the craft was not at, but for strays.
THEOREM FixesAreTrue == ReceiversSpec => []FixIsTrue
<1>1. TracksInv => FixIsTrue
  BY PointsOk DEF PlaceOk, FixIsTrue, T!FixIsTrue
<1> QED
  BY <1>1, TracksInit, TracksStep, PTL DEF ReceiversSpec

\* A gate that together with what the receiver hears is narrower than a zone lets no stray
\* in: no place is shown that the craft was not at.
THEOREM NarrowGateIsTrue ==
  ASSUME MaxRange + Reach < T!Even
  PROVE  ReceiversSpec => []ReferenceIsNear
<1>1. ~WideGate
  BY TrackNumbers, Zones DEF WideGate
<1>2. TracksInv => ReferenceIsNear
  BY <1>1, PointsOk DEF PlaceOk, ReferenceIsNear, T!ReferenceIsNear
<1> QED
  BY <1>2, TracksInit, TracksStep, PTL DEF ReceiversSpec

\* And every craft that is shown was heard lately, at a place no older than the last one it
\* told.
THEOREM ShownAreCurrent == ReceiversSpec => []ShownIsCurrent
<1>1. TracksInv => ShownIsCurrent
  <2> SUFFICES ASSUME TracksInv, NEW c \in T!Shown
               PROVE  /\ T!Known([at |-> heard[c]]) /\ now - heard[c] <= Forget
                      /\ tracks[c].fix.at >= tracks[c].due
    BY DEF ShownIsCurrent, T!ShownIsCurrent
  <2>1. /\ c \in T!Tracked /\ c \in Crafts /\ now - tracks[c].seen <= Forget
    BY DEF T!Shown, T!Tracked
  <2>2. /\ TrackOk(tracks[c]) /\ tracks[c].seen <= heard[c] /\ tracks[c].due <= tracks[c].fix.at
        /\ heard[c] \in Int /\ now \in Nat
    BY <2>1 DEF TracksInv
  <2>3. /\ 0 <= tracks[c].seen /\ tracks[c].seen \in Int
        /\ tracks[c].due \in Int /\ tracks[c].fix.at \in Int
    BY <2>2 DEF TrackOk, TrackType, PointType
  <2>4. T!Known([at |-> heard[c]])
    BY <2>2, <2>3 DEF T!Known
  <2> QED
    BY <2>1, <2>2, <2>3, <2>4, TrackNumbers
<1> QED
  BY <1>1, TracksInit, TracksStep, PTL DEF ReceiversSpec

-----------------------------------------------------------------------------
(* Packets *)

\* What a receiver of packets is in.
RxState == [level: BOOLEAN, window: 0..255, inFrame: BOOLEAN, ones: Nat, bits: Seq(BOOLEAN)]

\* The window after one more bit.
Shift(w, b) == (2 * w + (IF b THEN 1 ELSE 0)) % 256

\* The last bits of the window are a zero and k ones.
Ends(w, k) ==
    /\ k = 0 => w % 2 = 0
    /\ k = 1 => w % 4 = 1
    /\ k = 2 => w % 8 = 3
    /\ k = 3 => w % 16 = 7
    /\ k = 4 => w % 32 = 15
    /\ k = 5 => w % 64 = 31
    /\ k = 6 => w % 128 = 63

\* A one makes the run longer and is never the end of a flag; a zero ends the run, and it
\* ends a flag if the run was of six.
LEMMA Runs ==
  ASSUME NEW w \in 0..255, NEW k \in 0..6, Ends(w, k)
  PROVE  /\ Shift(w, TRUE) # H!Flag /\ (k < 6 => Ends(Shift(w, TRUE), k + 1))
         /\ Shift(w, FALSE) = H!Flag <=> k = 6
<1>1. Shift(w, TRUE) = (2 * w + 1) % 256 /\ Shift(w, FALSE) = (2 * w) % 256 /\ H!Flag = 126
  BY DEF Shift, H!Flag
<1>2. (2 * w + 1) % 256 # 126
  OBVIOUS
<1>3. ASSUME k < 6
      PROVE  Ends((2 * w + 1) % 256, k + 1)
  <2>0. CASE k = 0
    BY <2>0 DEF Ends
  <2>1. CASE k = 1
    BY <2>1 DEF Ends
  <2>2. CASE k = 2
    BY <2>2 DEF Ends
  <2>3. CASE k = 3
    BY <2>3 DEF Ends
  <2>4. CASE k = 4
    BY <2>4 DEF Ends
  <2>5. CASE k = 5
    BY <2>5 DEF Ends
  <2> QED
    BY <1>3, <2>0, <2>1, <2>2, <2>3, <2>4, <2>5
<1>4. (2 * w) % 256 = 126 <=> w % 128 = 63
  OBVIOUS
<1>5. w % 128 = 63 <=> k = 6
  <2>1. CASE k = 6
    BY <2>1 DEF Ends
  <2>2. CASE k < 6
    <3>1. w % 2 = 0 \/ w % 4 = 1 \/ w % 8 = 3 \/ w % 16 = 7 \/ w % 32 = 15 \/ w % 64 = 31
      BY <2>2 DEF Ends
    <3>2. w % 128 # 63
      BY <3>1
    <3> QED
      BY <2>2, <3>2
  <2> QED
    BY <2>1, <2>2
<1>6. Shift(w, TRUE) # H!Flag
  BY <1>1, <1>2
<1>7. k < 6 => Ends(Shift(w, TRUE), k + 1)
  BY <1>1, <1>3
<1>8. Shift(w, FALSE) = H!Flag <=> k = 6
  <2>1. CASE k = 6
    BY <1>1, <1>4, <1>5, <2>1
  <2>2. CASE k # 6
    <3>1. (2 * w) % 256 # 126
      BY <1>4, <1>5, <2>2
    <3>2. Shift(w, FALSE) # H!Flag
      BY <1>1, <3>1
    <3> QED
      BY <2>2, <3>2
  <2> QED
    BY <2>1, <2>2
<1> QED
  BY <1>6, <1>7, <1>8

\* After a one it is not a flag's.
LEMMA OddWindow ==
  ASSUME NEW w \in 0..255
  PROVE  Shift(w, TRUE) # H!Flag
  BY DEF Shift, H!Flag

\* After a zero the window ends with one, whatever it was.
LEMMA ZeroEnds ==
  ASSUME NEW w \in 0..255, NEW b \in BOOLEAN
  PROVE  Shift(w, b) \in 0..255 /\ Ends(Shift(w, FALSE), 0)
  BY DEF Shift, Ends

-----------------------------------------------------------------------------
(* Packets: what a receiver makes of a bit *)

WireType ==
    /\ wire \in Wires
    /\ phase \in {"gap", "lead", "data", "tail"}
    /\ bit \in Nat /\ flags \in Nat /\ frames \in Nat
    /\ payload \in Seq(BOOLEAN) /\ ones \in 0..5 /\ level \in BOOLEAN
    /\ rx \in [H!Receivers -> RxState] /\ got \in [H!Receivers -> Nat]
    /\ rx["ais"].level = rx["aprs"].level /\ rx["ais"].window = rx["aprs"].window

\* A receiver that differs from another in these fields.
Differs(s, n, i, o, bs) ==
    /\ n \in RxState /\ n.level = s.level /\ n.window = s.window
    /\ n.inFrame = i /\ n.ones = o /\ n.bits = bs

\* A receiver that has read a level differs in the level and in the window.
LEMMA RxShifted ==
  ASSUME NEW s \in RxState, NEW l \in BOOLEAN, NEW n, n = H!Shifted(s, l)
  PROVE  /\ n \in RxState /\ n.level = l /\ n.window = Shift(s.window, l = s.level)
         /\ n.inFrame = s.inFrame /\ n.ones = s.ones /\ n.bits = s.bits
<1> DEFINE w == (2 * s.window + (IF l = s.level THEN 1 ELSE 0)) % 256
<1>1. n = [s EXCEPT !.level = l, !.window = w]
  BY DEF H!Shifted
<1>2. w = Shift(s.window, l = s.level)
  BY DEF Shift
<1>3. w \in 0..255
  <2>1. s.window \in 0..255
    BY DEF RxState
  <2>2. w = (2 * s.window + 1) % 256 \/ w = (2 * s.window + 0) % 256
    OBVIOUS
  <2> QED
    BY <2>1, <2>2
<1> HIDE DEF w
<1>4. n \in RxState
  BY <1>1, <1>3 DEF RxState
<1>5. n.level = l /\ n.window = w
  BY <1>1, <1>3 DEF RxState
<1>6. n.inFrame = s.inFrame /\ n.ones = s.ones /\ n.bits = s.bits
  BY <1>1 DEF RxState
<1> QED
  BY <1>2, <1>4, <1>5, <1>6

\* A flag begins a frame.
LEMMA RxFlag ==
  ASSUME NEW s \in RxState, NEW n, n = [s EXCEPT !.inFrame = TRUE, !.ones = 0, !.bits = <<>>]
  PROVE  Differs(s, n, TRUE, 0, <<>>)
<1>0. /\ s.ones + 1 \in Nat /\ <<>> \in Seq(BOOLEAN)
      /\ Append(s.bits, TRUE) \in Seq(BOOLEAN) /\ Append(s.bits, FALSE) \in Seq(BOOLEAN)
  BY DEF RxState
<1>1. n \in RxState
  BY <1>0 DEF RxState
<1>2. n.level = s.level /\ n.window = s.window
  BY DEF RxState
<1>3. n.inFrame = TRUE /\ n.ones = 0 /\ n.bits = <<>>
  BY DEF RxState
<1> QED
  BY <1>1, <1>2, <1>3 DEF Differs

\* An abort ends it.
LEMMA RxAbort ==
  ASSUME NEW s \in RxState, NEW n, n = [s EXCEPT !.ones = @ + 1, !.inFrame = FALSE, !.bits = <<>>]
  PROVE  Differs(s, n, FALSE, s.ones + 1, <<>>)
<1>0. /\ s.ones + 1 \in Nat /\ <<>> \in Seq(BOOLEAN)
      /\ Append(s.bits, TRUE) \in Seq(BOOLEAN) /\ Append(s.bits, FALSE) \in Seq(BOOLEAN)
  BY DEF RxState
<1>1. n \in RxState
  BY <1>0 DEF RxState
<1>2. n.level = s.level /\ n.window = s.window
  BY DEF RxState
<1>3. n.inFrame = FALSE /\ n.ones = s.ones + 1 /\ n.bits = <<>>
  BY DEF RxState
<1> QED
  BY <1>1, <1>2, <1>3 DEF Differs

\* A flag ends it.
LEMMA RxEnd ==
  ASSUME NEW s \in RxState, NEW n, n = [s EXCEPT !.inFrame = FALSE, !.bits = <<>>]
  PROVE  Differs(s, n, FALSE, s.ones, <<>>)
<1>0. /\ s.ones + 1 \in Nat /\ <<>> \in Seq(BOOLEAN)
      /\ Append(s.bits, TRUE) \in Seq(BOOLEAN) /\ Append(s.bits, FALSE) \in Seq(BOOLEAN)
  BY DEF RxState
<1>1. n \in RxState
  BY <1>0 DEF RxState
<1>2. n.level = s.level /\ n.window = s.window
  BY DEF RxState
<1>3. n.inFrame = FALSE /\ n.ones = s.ones /\ n.bits = <<>>
  BY DEF RxState
<1> QED
  BY <1>1, <1>2, <1>3 DEF Differs

\* A one is kept.
LEMMA RxOne ==
  ASSUME NEW s \in RxState, NEW n, n = [s EXCEPT !.ones = @ + 1, !.bits = Append(@, TRUE)]
  PROVE  Differs(s, n, s.inFrame, s.ones + 1, Append(s.bits, TRUE))
<1>0. /\ s.ones + 1 \in Nat /\ <<>> \in Seq(BOOLEAN)
      /\ Append(s.bits, TRUE) \in Seq(BOOLEAN) /\ Append(s.bits, FALSE) \in Seq(BOOLEAN)
  BY DEF RxState
<1>1. n \in RxState
  BY <1>0 DEF RxState
<1>2. n.level = s.level /\ n.window = s.window
  BY DEF RxState
<1>3. n.inFrame = s.inFrame /\ n.ones = s.ones + 1 /\ n.bits = Append(s.bits, TRUE)
  BY DEF RxState
<1> QED
  BY <1>1, <1>2, <1>3 DEF Differs

\* A one is kept, and may end the frame.
LEMMA RxOneOrAbort ==
  ASSUME NEW s \in RxState, NEW i \in BOOLEAN, NEW n, n = [s EXCEPT !.ones = @ + 1, !.bits = Append(@, TRUE), !.inFrame = i]
  PROVE  Differs(s, n, i, s.ones + 1, Append(s.bits, TRUE))
<1>0. /\ s.ones + 1 \in Nat /\ <<>> \in Seq(BOOLEAN)
      /\ Append(s.bits, TRUE) \in Seq(BOOLEAN) /\ Append(s.bits, FALSE) \in Seq(BOOLEAN)
  BY DEF RxState
<1>1. n \in RxState
  BY <1>0 DEF RxState
<1>2. n.level = s.level /\ n.window = s.window
  BY DEF RxState
<1>3. n.inFrame = i /\ n.ones = s.ones + 1 /\ n.bits = Append(s.bits, TRUE)
  BY DEF RxState
<1> QED
  BY <1>1, <1>2, <1>3 DEF Differs

\* A zero is kept.
LEMMA RxZero ==
  ASSUME NEW s \in RxState, NEW n, n = [s EXCEPT !.ones = 0, !.bits = Append(@, FALSE)]
  PROVE  Differs(s, n, s.inFrame, 0, Append(s.bits, FALSE))
<1>0. /\ s.ones + 1 \in Nat /\ <<>> \in Seq(BOOLEAN)
      /\ Append(s.bits, TRUE) \in Seq(BOOLEAN) /\ Append(s.bits, FALSE) \in Seq(BOOLEAN)
  BY DEF RxState
<1>1. n \in RxState
  BY <1>0 DEF RxState
<1>2. n.level = s.level /\ n.window = s.window
  BY DEF RxState
<1>3. n.inFrame = s.inFrame /\ n.ones = 0 /\ n.bits = Append(s.bits, FALSE)
  BY DEF RxState
<1> QED
  BY <1>1, <1>2, <1>3 DEF Differs

\* A stuffed zero is not.
LEMMA RxStuffed ==
  ASSUME NEW s \in RxState, NEW n, n = [s EXCEPT !.ones = 0]
  PROVE  Differs(s, n, s.inFrame, 0, s.bits)
<1>0. /\ s.ones + 1 \in Nat /\ <<>> \in Seq(BOOLEAN)
      /\ Append(s.bits, TRUE) \in Seq(BOOLEAN) /\ Append(s.bits, FALSE) \in Seq(BOOLEAN)
  BY DEF RxState
<1>1. n \in RxState
  BY <1>0 DEF RxState
<1>2. n.level = s.level /\ n.window = s.window
  BY DEF RxState
<1>3. n.inFrame = s.inFrame /\ n.ones = 0 /\ n.bits = s.bits
  BY DEF RxState
<1> QED
  BY <1>1, <1>2, <1>3 DEF Differs

\* What is counted when a receiver takes so many bits for a frame.
Counted(frame) == IF H!Valid(frame) THEN 1 ELSE 0

\* A bit is read with the level that comes: it goes into the window, whatever the receiver.
LEMMA Reads ==
  ASSUME WireType, NEW b \in BOOLEAN, H!Put(b), NEW r \in H!Receivers
  PROVE  LET h == level' = rx[r].level
             s == H!Shifted(rx[r], level')
             p == IF r = "ais" THEN H!AisPush(s, h) ELSE H!AprsPush(s, h)
         IN  /\ rx'[r] = p.state /\ got'[r] = got[r] + Counted(p.frame)
             /\ s \in RxState /\ s.level = level' /\ s.window = Shift(rx[r].window, h)
             /\ s.inFrame = rx[r].inFrame /\ s.ones = rx[r].ones /\ s.bits = rx[r].bits
             /\ level' \in BOOLEAN
<1>1. level' \in BOOLEAN /\ rx[r] \in RxState
  BY DEF WireType, H!Put
<1>2. rx'[r] = H!Push(r, level').state
      /\ got'[r] = got[r] + Counted(H!Push(r, level').frame)
  BY DEF H!Put, Counted
<1> QED
  BY <1>1, <1>2, RxShifted DEF H!Push

\* What the aprs receiver makes of a bit that is in the window already.
AprsMakes(s, h, n, f) ==
    /\ n \in RxState /\ n.level = s.level /\ n.window = s.window
    /\ f = <<>> \/ (f \in Seq(BOOLEAN) /\ Len(f) = Len(s.bits) - 7)
    /\ s.window = H!Flag =>
         /\ n.inFrame /\ n.ones = 0 /\ n.bits = <<>>
         /\ s.inFrame /\ Len(s.bits) >= 7 => f = H!FlagTail(s.bits)
    /\ s.window # H!Flag =>
         /\ f = <<>> /\ Len(n.bits) <= Len(s.bits) + 1
         /\ s.inFrame /\ h /\ s.ones < 6 =>
              n.inFrame /\ n.ones = s.ones + 1 /\ n.bits = Append(s.bits, TRUE)
         /\ s.inFrame /\ ~h /\ s.ones = 5 => n.inFrame /\ n.ones = 0 /\ n.bits = s.bits
         /\ s.inFrame /\ ~h /\ s.ones # 5 =>
              n.inFrame /\ n.ones = 0 /\ n.bits = Append(s.bits, FALSE)

\* It makes that of it.
LEMMA AprsTakes ==
  ASSUME NEW s \in RxState, NEW h \in BOOLEAN
  PROVE  AprsMakes(s, h, H!AprsPush(s, h).state, H!AprsPush(s, h).frame)
<1> SUFFICES ASSUME NEW n, NEW f, n = H!AprsPush(s, h).state, f = H!AprsPush(s, h).frame
             PROVE  AprsMakes(s, h, n, f)
  OBVIOUS
<1> USE DEF AprsMakes
<1>0. Len(<<>>) = 0
  OBVIOUS
<1>1. s.inFrame \in BOOLEAN /\ s.ones \in Nat /\ s.bits \in Seq(BOOLEAN) /\ Len(s.bits) \in Nat
  BY DEF RxState
<1>2. Len(Append(s.bits, TRUE)) = Len(s.bits) + 1 /\ Len(Append(s.bits, FALSE)) = Len(s.bits) + 1
  BY <1>1
<1>3. CASE s.window = H!Flag
  <2>1. n = [s EXCEPT !.inFrame = TRUE, !.ones = 0, !.bits = <<>>]
        /\ f = IF s.inFrame /\ Len(s.bits) >= 7 THEN H!FlagTail(s.bits) ELSE <<>>
    BY <1>3 DEF H!AprsPush, H!AprsFlag, H!Result, H!NoFrame
  <2>2. Differs(s, n, TRUE, 0, <<>>)
    BY <2>1, RxFlag
  <2>3. Len(s.bits) >= 7 => H!FlagTail(s.bits) \in Seq(BOOLEAN) /\ Len(H!FlagTail(s.bits)) = Len(s.bits) - 7
    BY <1>1 DEF H!FlagTail, H!Cut
  <2> QED
    BY <1>3, <2>1, <2>2, <2>3 DEF Differs
<1>4. CASE s.window # H!Flag
  <2>0. f = <<>>
    BY <1>4 DEF H!AprsPush, H!Result, H!NoFrame
  <2>1. CASE ~s.inFrame
    <3>1. n = s
      BY <1>4, <2>1 DEF H!AprsPush, H!Result
    <3>2. Len(n.bits) <= Len(s.bits) + 1
      BY <1>1, <3>1
    <3> QED
      BY <1>4, <2>0, <2>1, <3>1, <3>2
  <2>2. CASE s.inFrame /\ h /\ s.ones + 1 >= 7
    <3>1. n = [s EXCEPT !.ones = @ + 1, !.inFrame = FALSE, !.bits = <<>>]
      BY <1>4, <2>2 DEF H!AprsPush, H!Result
    <3>2. Differs(s, n, FALSE, s.ones + 1, <<>>)
      BY <3>1, RxAbort
    <3>3. Len(n.bits) = 0
      BY <1>0, <3>2 DEF Differs
    <3>4. s.ones + 1 >= 7
      BY <2>2
    <3>5. Len(n.bits) <= Len(s.bits) + 1 /\ ~(s.ones < 6)
      BY <1>1, <3>3, <3>4
    <3> QED
      BY <1>4, <2>0, <2>2, <3>2, <3>5 DEF Differs
  <2>3. CASE s.inFrame /\ h /\ ~(s.ones + 1 >= 7)
    <3>1. n = [s EXCEPT !.ones = @ + 1, !.bits = Append(@, TRUE)]
      BY <1>4, <2>3 DEF H!AprsPush, H!Result
    <3>2. Differs(s, n, s.inFrame, s.ones + 1, Append(s.bits, TRUE))
      BY <3>1, RxOne
    <3>3. Len(n.bits) <= Len(s.bits) + 1
      BY <1>1, <1>2, <3>2 DEF Differs
    <3> QED
      BY <1>4, <2>0, <2>3, <3>2, <3>3 DEF Differs
  <2>4. CASE s.inFrame /\ ~h /\ s.ones = 5
    <3>1. n = [s EXCEPT !.ones = 0]
      BY <1>4, <2>4 DEF H!AprsPush, H!Result, H!Stuffed
    <3>2. Differs(s, n, s.inFrame, 0, s.bits)
      BY <3>1, RxStuffed
    <3> QED
      BY <1>1, <1>4, <2>0, <2>4, <3>2 DEF Differs
  <2>5. CASE s.inFrame /\ ~h /\ s.ones # 5
    <3>1. n = [s EXCEPT !.ones = 0, !.bits = Append(@, FALSE)]
      BY <1>4, <2>5 DEF H!AprsPush, H!Result, H!Stuffed
    <3>2. Differs(s, n, s.inFrame, 0, Append(s.bits, FALSE))
      BY <3>1, RxZero
    <3>3. Len(n.bits) <= Len(s.bits) + 1
      BY <1>1, <1>2, <3>2 DEF Differs
    <3> QED
      BY <1>4, <2>0, <2>5, <3>2, <3>3 DEF Differs
  <2> QED
    BY <2>1, <2>2, <2>3, <2>4, <2>5
<1> QED
  BY <1>3, <1>4

\* What the ais receiver makes of it.
AisMakes(s, h, n, f) ==
    /\ n \in RxState /\ n.level = s.level /\ n.window = s.window
    /\ ~s.inFrame /\ s.window # H!Flag => f = <<>> /\ ~n.inFrame
    /\ ~s.inFrame /\ s.window = H!Flag =>
         f = <<>> /\ n.inFrame /\ n.ones = 0 /\ n.bits = <<>>
    /\ s.inFrame /\ h => f = <<>>
    /\ s.inFrame /\ h /\ s.ones < 6 =>
         n.inFrame /\ n.ones = s.ones + 1 /\ n.bits = Append(s.bits, TRUE)
    /\ s.inFrame /\ ~h /\ s.ones = 5 =>
         f = <<>> /\ n.inFrame /\ n.ones = 0 /\ n.bits = s.bits
    /\ s.inFrame /\ ~h /\ s.ones < 5 =>
         f = <<>> /\ n.inFrame /\ n.ones = 0 /\ n.bits = Append(s.bits, FALSE)
    /\ s.inFrame /\ ~h /\ s.ones = 6 => f = H!FlagTail(s.bits) /\ ~n.inFrame

\* It makes that of it.
LEMMA AisTakes ==
  ASSUME NEW s \in RxState, NEW h \in BOOLEAN
  PROVE  AisMakes(s, h, H!AisPush(s, h).state, H!AisPush(s, h).frame)
<1> SUFFICES ASSUME NEW n, NEW f, n = H!AisPush(s, h).state, f = H!AisPush(s, h).frame
             PROVE  AisMakes(s, h, n, f)
  OBVIOUS
<1> USE DEF AisMakes
<1>1. s.inFrame \in BOOLEAN /\ s.ones \in Nat
  BY DEF RxState
<1>2. CASE ~s.inFrame /\ s.window # H!Flag
  <2>1. n = s /\ f = <<>>
    BY <1>2 DEF H!AisPush, H!Result, H!NoFrame
  <2> QED
    BY <1>2, <2>1
<1>3. CASE ~s.inFrame /\ s.window = H!Flag
  <2>1. n = [s EXCEPT !.inFrame = TRUE, !.ones = 0, !.bits = <<>>] /\ f = <<>>
    BY <1>3 DEF H!AisPush, H!Result, H!NoFrame
  <2>2. Differs(s, n, TRUE, 0, <<>>)
    BY <2>1, RxFlag
  <2> QED
    BY <1>3, <2>1, <2>2 DEF Differs
<1>4. CASE s.inFrame /\ h
  <2> DEFINE i == s.ones + 1 < 7
  <2>1. n = [s EXCEPT !.ones = @ + 1, !.bits = Append(@, TRUE), !.inFrame = i] /\ f = <<>>
    BY <1>4 DEF H!AisPush, H!Result, H!NoFrame
  <2>2. i \in BOOLEAN /\ (s.ones < 6 => i)
    BY <1>1
  <2> HIDE DEF i
  <2>3. Differs(s, n, i, s.ones + 1, Append(s.bits, TRUE))
    BY <2>1, <2>2, RxOneOrAbort
  <2> QED
    BY <1>4, <2>1, <2>2, <2>3 DEF Differs
<1>5. CASE s.inFrame /\ ~h /\ s.ones = 5
  <2>1. n = [s EXCEPT !.ones = 0] /\ f = <<>>
    BY <1>5 DEF H!AisPush, H!Result, H!NoFrame, H!Stuffed
  <2>2. Differs(s, n, s.inFrame, 0, s.bits)
    BY <2>1, RxStuffed
  <2> QED
    BY <1>5, <2>1, <2>2 DEF Differs
<1>6. CASE s.inFrame /\ ~h /\ s.ones = 6
  <2>1. n = [s EXCEPT !.inFrame = FALSE, !.bits = <<>>] /\ f = H!FlagTail(s.bits)
    BY <1>6 DEF H!AisPush, H!Result, H!Stuffed
  <2>2. Differs(s, n, FALSE, s.ones, <<>>)
    BY <2>1, RxEnd
  <2> QED
    BY <1>6, <2>1, <2>2 DEF Differs
<1>7. CASE s.inFrame /\ ~h /\ s.ones # 5 /\ s.ones # 6
  <2>1. n = [s EXCEPT !.ones = 0, !.bits = Append(@, FALSE)] /\ f = <<>>
    BY <1>7 DEF H!AisPush, H!Result, H!NoFrame, H!Stuffed
  <2>2. Differs(s, n, s.inFrame, 0, Append(s.bits, FALSE))
    BY <2>1, RxZero
  <2> QED
    BY <1>7, <2>1, <2>2 DEF Differs
<1> QED
  BY <1>1, <1>2, <1>3, <1>4, <1>5, <1>6, <1>7

\* What a receiver is after a one, a zero, a stuffed zero or a flag.
TakesOne(s, n)   == n.inFrame /\ n.ones = s.ones + 1 /\ n.bits = Append(s.bits, TRUE)
TakesZero(s, n)  == n.inFrame /\ n.ones = 0 /\ n.bits = Append(s.bits, FALSE)
TakesStuff(s, n) == n.inFrame /\ n.ones = 0 /\ n.bits = s.bits
NewFrame(n)      == n.inFrame /\ n.ones = 0 /\ n.bits = <<>>

\* Whatever was put, both receivers have the level and the same window afterwards.
AfterPut ==
    /\ level' \in BOOLEAN
    /\ rx' \in [H!Receivers -> RxState] /\ got' \in [H!Receivers -> Nat]
    /\ rx'["aprs"].level = level' /\ rx'["ais"].level = level'
    /\ rx'["ais"].window = rx'["aprs"].window /\ rx'["aprs"].window \in 0..255

\* Nothing is counted for no frame, a short one, or another than the one that was sent.
LEMMA NothingCounted ==
  ASSUME NEW f, payload \in Seq(BOOLEAN)
  PROVE  /\ Counted(f) \in {0, 1} /\ Counted(<<>>) = 0
         /\ payload = <<>> => Counted(f) = 0
         /\ f \in Seq(BOOLEAN) /\ Len(f) < MinBits => Counted(f) = 0
         /\ Len(payload) >= MinBits => Counted(payload) = 1
<1>1. MinBits \in Nat /\ MinBits > 0 /\ Len(<<>>) = 0
  BY ReceiversAssumption DEF H!LengthAssumption
<1>2. Counted(f) \in {0, 1} /\ (payload = <<>> => Counted(f) = 0) /\ Counted(<<>>) = 0
  BY <1>1 DEF Counted, H!Valid
<1>3. f \in Seq(BOOLEAN) /\ Len(f) < MinBits => Counted(f) = 0
  BY <1>1 DEF Counted, H!Valid
<1>4. Len(payload) >= MinBits => Counted(payload) = 1
  BY <1>1 DEF Counted, H!Valid
<1> QED
  BY <1>2, <1>3, <1>4

\* A bit is heard by both receivers, whatever they are in when it is in their windows.
HeardAs(h, a, i, f, g) ==
    /\ a.window = rx'["aprs"].window /\ a.inFrame = rx["aprs"].inFrame
    /\ a.ones = rx["aprs"].ones /\ a.bits = rx["aprs"].bits
    /\ i.window = rx'["aprs"].window /\ i.inFrame = rx["ais"].inFrame
    /\ i.ones = rx["ais"].ones /\ i.bits = rx["ais"].bits
    /\ AprsMakes(a, h, rx'["aprs"], f) /\ AisMakes(i, h, rx'["ais"], g)
    /\ got'["aprs"] = got["aprs"] + Counted(f) /\ got'["ais"] = got["ais"] + Counted(g)
Hear(h) == \E a, i \in RxState : \E f, g : HeardAs(h, a, i, f, g)

\* What is put is heard, as the bit that the levels make it.
LEMMA PutHeard ==
  ASSUME WireType, NEW b \in BOOLEAN, H!Put(b), NEW h \in BOOLEAN,
         h <=> (level' = rx["aprs"].level)
  PROVE  AfterPut /\ rx'["aprs"].window = Shift(rx["aprs"].window, h) /\ Hear(h)
<1> DEFINE a == H!Shifted(rx["aprs"], level')
           i == H!Shifted(rx["ais"], level')
           p == H!AprsPush(a, h)
           q == H!AisPush(i, h)
<1>1. "aprs" \in H!Receivers /\ "ais" \in H!Receivers /\ "aprs" # "ais"
      /\ H!Receivers = {"ais", "aprs"}
  BY DEF H!Receivers
<1>2. h = (level' = rx["aprs"].level) /\ h = (level' = rx["ais"].level)
  BY DEF WireType
<1>3. /\ rx'["aprs"] = p.state /\ got'["aprs"] = got["aprs"] + Counted(p.frame)
      /\ a \in RxState /\ a.level = level' /\ a.window = Shift(rx["aprs"].window, h)
      /\ a.inFrame = rx["aprs"].inFrame /\ a.ones = rx["aprs"].ones /\ a.bits = rx["aprs"].bits
      /\ level' \in BOOLEAN
  BY <1>1, <1>2, Reads
<1>4. /\ rx'["ais"] = q.state /\ got'["ais"] = got["ais"] + Counted(q.frame)
      /\ i \in RxState /\ i.level = level' /\ i.window = Shift(rx["ais"].window, h)
      /\ i.inFrame = rx["ais"].inFrame /\ i.ones = rx["ais"].ones /\ i.bits = rx["ais"].bits
  BY <1>1, <1>2, Reads
<1>5. AprsMakes(a, h, p.state, p.frame) /\ AisMakes(i, h, q.state, q.frame)
  BY <1>3, <1>4, AprsTakes, AisTakes
<1> HIDE DEF a, i, p, q
<1>6. AprsMakes(a, h, rx'["aprs"], p.frame) /\ AisMakes(i, h, rx'["ais"], q.frame)
  BY <1>3, <1>4, <1>5
<1>7. rx["ais"].window = rx["aprs"].window /\ payload \in Seq(BOOLEAN)
      /\ got \in [H!Receivers -> Nat]
  BY DEF WireType
<1>8. rx'["aprs"] \in RxState /\ rx'["aprs"].level = level' /\ rx'["aprs"].window = a.window
  BY <1>3, <1>6 DEF AprsMakes
<1>9. rx'["ais"] \in RxState /\ rx'["ais"].level = level' /\ rx'["ais"].window = i.window
  BY <1>4, <1>6 DEF AisMakes
<1>10. AfterPut
  <2>1. rx' \in [H!Receivers -> RxState]
    BY <1>1, <1>8, <1>9 DEF H!Put
  <2>2. got'["aprs"] \in Nat /\ got'["ais"] \in Nat
    BY <1>1, <1>3, <1>4, <1>7, NothingCounted
  <2>3. got' \in [H!Receivers -> Nat]
    BY <1>1, <2>2 DEF H!Put
  <2>4. rx'["aprs"].window \in 0..255
    BY <1>8 DEF RxState
  <2> QED
    BY <1>3, <1>4, <1>7, <1>8, <1>9, <2>1, <2>3, <2>4 DEF AfterPut
<1>11. Hear(h)
  BY <1>3, <1>4, <1>6, <1>7, <1>8, <1>9 DEF Hear, HeardAs
<1> QED
  BY <1>3, <1>8, <1>10, <1>11

\* A one that is heard.
OneHeard ==
    /\ AfterPut /\ rx'["aprs"].window = Shift(rx["aprs"].window, TRUE)
    /\ got'["aprs"] = got["aprs"] /\ got'["ais"] = got["ais"]
    /\ Len(rx'["aprs"].bits) <= Len(rx["aprs"].bits) + 1
    /\ rx["aprs"].inFrame /\ rx["aprs"].ones < 6 => TakesOne(rx["aprs"], rx'["aprs"])
    /\ ~rx["ais"].inFrame => ~rx'["ais"].inFrame
    /\ rx["ais"].inFrame /\ rx["ais"].ones < 6 => TakesOne(rx["ais"], rx'["ais"])

\* What comes of it.
LEMMA HearOne ==
  ASSUME WireType, AfterPut, rx'["aprs"].window = Shift(rx["aprs"].window, TRUE), Hear(TRUE)
  PROVE  OneHeard
<1>0. PICK a \in RxState, i \in RxState : \E f, g : HeardAs(TRUE, a, i, f, g)
  BY DEF Hear
<1>1. PICK f, g :
      /\ a.window = rx'["aprs"].window /\ a.inFrame = rx["aprs"].inFrame
      /\ a.ones = rx["aprs"].ones /\ a.bits = rx["aprs"].bits
      /\ i.window = rx'["aprs"].window /\ i.inFrame = rx["ais"].inFrame
      /\ i.ones = rx["ais"].ones /\ i.bits = rx["ais"].bits
      /\ AprsMakes(a, TRUE, rx'["aprs"], f) /\ AisMakes(i, TRUE, rx'["ais"], g)
      /\ got'["aprs"] = got["aprs"] + Counted(f) /\ got'["ais"] = got["ais"] + Counted(g)
  BY <1>0 DEF HeardAs
<1>2. rx["aprs"].window \in 0..255 /\ got["aprs"] \in Nat /\ got["ais"] \in Nat
      /\ payload \in Seq(BOOLEAN)
  BY DEF WireType, RxState, H!Receivers
<1>3. a.window # H!Flag
  BY <1>1, <1>2, OddWindow
<1>4. /\ f = <<>> /\ Len(rx'["aprs"].bits) <= Len(a.bits) + 1
      /\ a.inFrame /\ a.ones < 6 => TakesOne(a, rx'["aprs"])
  BY <1>1, <1>3 DEF AprsMakes, TakesOne
<1>5. /\ ~i.inFrame => g = <<>> /\ ~rx'["ais"].inFrame
      /\ i.inFrame => g = <<>>
      /\ i.inFrame /\ i.ones < 6 => TakesOne(i, rx'["ais"])
  BY <1>1, <1>3 DEF AisMakes, TakesOne
<1>6. g = <<>>
  BY <1>5
<1>7. Counted(<<>>) = 0
  BY <1>2, NothingCounted
<1>8. got'["aprs"] = got["aprs"] /\ got'["ais"] = got["ais"]
  BY <1>1, <1>2, <1>4, <1>6, <1>7
<1> QED
  BY <1>1, <1>4, <1>5, <1>8 DEF TakesOne, OneHeard

\* What a zero makes of the aprs receiver, if it ends a flag and if not, and of the ais one.
FlagToAprs(s, n) ==
    n.window = H!Flag =>
      /\ NewFrame(n)
      /\ payload = <<>> \/ Len(s.bits) < MinBits + 7 => got'["aprs"] = got["aprs"]
      /\ s.inFrame /\ Len(s.bits) >= 7 =>
           got'["aprs"] = got["aprs"] + Counted(H!FlagTail(s.bits))
ZeroToAprs(s, n) ==
    n.window # H!Flag =>
      /\ got'["aprs"] = got["aprs"] /\ Len(n.bits) <= Len(s.bits) + 1
      /\ s.inFrame /\ s.ones = 5 => TakesStuff(s, n)
      /\ s.inFrame /\ s.ones # 5 => TakesZero(s, n)
ZeroToAis(s, n) ==
    /\ ~s.inFrame => got'["ais"] = got["ais"]
    /\ ~s.inFrame /\ rx'["aprs"].window # H!Flag => ~n.inFrame
    /\ ~s.inFrame /\ rx'["aprs"].window = H!Flag => NewFrame(n)
    /\ s.inFrame /\ s.ones = 5 => got'["ais"] = got["ais"] /\ TakesStuff(s, n)
    /\ s.inFrame /\ s.ones < 5 => got'["ais"] = got["ais"] /\ TakesZero(s, n)
    /\ s.inFrame /\ s.ones = 6 =>
         got'["ais"] = got["ais"] + Counted(H!FlagTail(s.bits)) /\ ~n.inFrame

\* A zero that is heard.
ZeroHeard ==
    /\ AfterPut /\ rx'["aprs"].window = Shift(rx["aprs"].window, FALSE)
    /\ FlagToAprs(rx["aprs"], rx'["aprs"]) /\ ZeroToAprs(rx["aprs"], rx'["aprs"])
    /\ ZeroToAis(rx["ais"], rx'["ais"])

\* What comes of it.
LEMMA HearZero ==
  ASSUME WireType, AfterPut, rx'["aprs"].window = Shift(rx["aprs"].window, FALSE), Hear(FALSE)
  PROVE  ZeroHeard
<1>0. PICK a \in RxState, i \in RxState : \E f, g : HeardAs(FALSE, a, i, f, g)
  BY DEF Hear
<1>1. PICK f, g :
      /\ a.window = rx'["aprs"].window /\ a.inFrame = rx["aprs"].inFrame
      /\ a.ones = rx["aprs"].ones /\ a.bits = rx["aprs"].bits
      /\ i.window = rx'["aprs"].window /\ i.inFrame = rx["ais"].inFrame
      /\ i.ones = rx["ais"].ones /\ i.bits = rx["ais"].bits
      /\ AprsMakes(a, FALSE, rx'["aprs"], f) /\ AisMakes(i, FALSE, rx'["ais"], g)
      /\ got'["aprs"] = got["aprs"] + Counted(f) /\ got'["ais"] = got["ais"] + Counted(g)
  BY <1>0 DEF HeardAs
<1> DEFINE old == rx["aprs"]
           new == rx'["aprs"]
           oldAis == rx["ais"]
           newAis == rx'["ais"]
<1>2. /\ got["aprs"] \in Nat /\ got["ais"] \in Nat /\ payload \in Seq(BOOLEAN)
      /\ a.bits \in Seq(BOOLEAN) /\ Len(a.bits) \in Nat /\ MinBits \in Nat
  BY ReceiversAssumption DEF WireType, RxState, H!Receivers, H!LengthAssumption
<1>3. Counted(<<>>) = 0 /\ (payload = <<>> => Counted(f) = 0)
      /\ (f \in Seq(BOOLEAN) /\ Len(f) < MinBits => Counted(f) = 0)
  BY <1>2, NothingCounted
<1>4. f = <<>> \/ (f \in Seq(BOOLEAN) /\ Len(f) = Len(a.bits) - 7)
  BY <1>1 DEF AprsMakes
<1>5. Len(a.bits) < MinBits + 7 => Counted(f) = 0
  BY <1>2, <1>3, <1>4
<1>6. /\ Counted(f) = 0 => got'["aprs"] = got["aprs"]
      /\ Counted(g) = 0 => got'["ais"] = got["ais"]
  BY <1>1, <1>2
<1>7. new.window = H!Flag =>
           NewFrame(new) /\ (a.inFrame /\ Len(a.bits) >= 7 => f = H!FlagTail(a.bits))
  BY <1>1 DEF AprsMakes, NewFrame
<1>8. new.window # H!Flag =>
           /\ f = <<>> /\ Len(new.bits) <= Len(a.bits) + 1
           /\ a.inFrame /\ a.ones = 5 => TakesStuff(a, new)
           /\ a.inFrame /\ a.ones # 5 => TakesZero(a, new)
  BY <1>1 DEF AprsMakes, TakesStuff, TakesZero
<1>9. /\ ~i.inFrame => g = <<>>
      /\ ~i.inFrame /\ new.window # H!Flag => ~newAis.inFrame
      /\ ~i.inFrame /\ new.window = H!Flag => NewFrame(newAis)
      /\ i.inFrame /\ i.ones = 5 => g = <<>> /\ TakesStuff(i, newAis)
      /\ i.inFrame /\ i.ones < 5 => g = <<>> /\ TakesZero(i, newAis)
      /\ i.inFrame /\ i.ones = 6 => g = H!FlagTail(i.bits) /\ ~newAis.inFrame
  BY <1>1 DEF AisMakes, TakesStuff, TakesZero, NewFrame
<1>10. FlagToAprs(old, new)
  BY <1>1, <1>3, <1>5, <1>6, <1>7 DEF FlagToAprs
<1>11. ZeroToAprs(old, new)
  BY <1>1, <1>3, <1>6, <1>8 DEF TakesStuff, TakesZero, ZeroToAprs
<1>12. ZeroToAis(oldAis, newAis)
  BY <1>1, <1>3, <1>6, <1>9 DEF TakesStuff, TakesZero, NewFrame, ZeroToAis
<1> QED
  BY <1>10, <1>11, <1>12 DEF ZeroHeard

\* In step with the sender, the bit that is heard is the one that was put.
LEMMA PutHears ==
  ASSUME WireType, rx["aprs"].level = level
  PROVE  (H!Put(TRUE) => OneHeard) /\ (H!Put(FALSE) => ZeroHeard)
<1>1. ASSUME H!Put(TRUE)
      PROVE  OneHeard
  <2>1. TRUE <=> (level' = rx["aprs"].level)
    BY <1>1 DEF H!Put
  <2>2. AfterPut /\ rx'["aprs"].window = Shift(rx["aprs"].window, TRUE) /\ Hear(TRUE)
    BY <1>1, <2>1, PutHeard
  <2> QED
    BY <2>2, HearOne
<1>2. ASSUME H!Put(FALSE)
      PROVE  ZeroHeard
  <2>1. FALSE <=> (level' = rx["aprs"].level)
    BY <1>2 DEF H!Put, WireType
  <2>2. AfterPut /\ rx'["aprs"].window = Shift(rx["aprs"].window, FALSE) /\ Hear(FALSE)
    BY <1>2, <2>1, PutHeard
  <2> QED
    BY <2>2, HearZero
<1> QED
  BY <1>1, <1>2

\* Out of step with it, it is the other one.
LEMMA PutMistaken ==
  ASSUME WireType, rx["aprs"].level # level
  PROVE  (H!Put(TRUE) => ZeroHeard) /\ (H!Put(FALSE) => OneHeard)
<1>1. ASSUME H!Put(TRUE)
      PROVE  ZeroHeard
  <2>1. FALSE <=> (level' = rx["aprs"].level)
    BY <1>1 DEF H!Put, WireType
  <2>2. AfterPut /\ rx'["aprs"].window = Shift(rx["aprs"].window, FALSE) /\ Hear(FALSE)
    BY <1>1, <2>1, PutHeard
  <2> QED
    BY <2>2, HearZero
<1>2. ASSUME H!Put(FALSE)
      PROVE  OneHeard
  <2>1. TRUE <=> (level' = rx["aprs"].level)
    BY <1>2 DEF H!Put, WireType, RxState, H!Receivers
  <2>2. AfterPut /\ rx'["aprs"].window = Shift(rx["aprs"].window, TRUE) /\ Hear(TRUE)
    BY <1>2, <2>1, PutHeard
  <2> QED
    BY <2>2, HearOne
<1> QED
  BY <1>1, <1>2

-----------------------------------------------------------------------------
(* Packets: the invariant *)

\* Nothing was heard yet, the first flag included if nothing comes before it.
Deaf    == frames = 0 /\ wire.gapBits = 0 /\ phase = "lead" /\ flags = wire.lead
Unheard == frames = 0 /\ bit = 0 /\ (phase = "gap" \/ Deaf)

\* From the first bit on the receivers have the sender's level; before it, the other one.
LevelInv ==
    /\ Unheard => rx["aprs"].level # level /\ rx["aprs"].window = 0
    /\ ~Unheard => rx["aprs"].level = level

\* What the sender is at.
SenderInv ==
    /\ phase = "gap" => bit <= wire.gapBits /\ (frames = 0 => payload = <<>>)
    /\ phase \in {"lead", "tail"} => bit \in 0..7
    /\ phase = "lead" => payload = <<>> /\ flags \in 1..wire.lead
    /\ phase = "tail" => /\ Len(payload) >= MinBits /\ flags \in 1..wire.tail
                         /\ flags < wire.tail => frames > 0
    /\ phase # "data" => ones < 5

\* Within a flag that is heard the window ends with what was sent of it.
FlagInv ==
    phase \in {"lead", "tail"} /\ ~Deaf /\ bit > 0 => Ends(rx["aprs"].window, bit - 1)

\* The window after so many bits of training; of silence, before the first frame, when the
\* first bit is mistaken, and after a frame.
Training(w, k) == IF k % 2 = 0 THEN w % 4 = 1 \/ w = 3 ELSE w % 8 = 2 \/ w \in {6, 252, 1}
Silence(w, k) ==
    /\ k = 1 => w = 0
    /\ k = 2 => w = 1
    /\ k = 3 => w = 3
    /\ k = 4 => w = 7
    /\ k = 5 => w = 15
    /\ k = 6 => w = 31
    /\ k = 7 => w = 63
    /\ k = 8 => w = 127
    /\ k > 8 => w = 255
LaterSilence(w, k) ==
    /\ k = 1 => w = 253
    /\ k = 2 => w = 251
    /\ k = 3 => w = 247
    /\ k = 4 => w = 239
    /\ k = 5 => w = 223
    /\ k = 6 => w = 191
    /\ k = 7 => w = 127
    /\ k > 7 => w = 255

GapInv ==
    phase = "gap" /\ bit > 0 =>
      /\ wire.gap = "training" => Training(rx["aprs"].window, bit)
      /\ wire.gap = "idle" /\ frames = 0 => Silence(rx["aprs"].window, bit)
      /\ wire.gap = "idle" /\ frames > 0 => LaterSilence(rx["aprs"].window, bit)

\* Within the data a receiver has the frame as far as it was sent; within the flag after it,
\* what was sent of the flag as well.
InData(s) == s.inFrame /\ s.ones = ones /\ s.bits = payload
InTail(s) == /\ s.inFrame /\ s.ones = IF bit = 0 THEN ones ELSE bit - 1
             /\ Len(s.bits) = Len(payload) + bit
             /\ \A i \in 1..Len(payload) : s.bits[i] = payload[i]

\* The aprs receiver.
AprsInv ==
    /\ got["aprs"] = frames
    /\ phase = "data" => InData(rx["aprs"]) /\ Ends(rx["aprs"].window, ones)
    /\ phase = "tail" /\ flags = wire.tail =>
         InTail(rx["aprs"]) /\ (bit = 0 => Ends(rx["aprs"].window, ones))
    /\ (phase = "tail" /\ flags < wire.tail) \/ (phase = "gap" /\ frames > 0) =>
         /\ Len(rx["aprs"].bits) <= bit
         /\ bit = 0 => NewFrame(rx["aprs"]) /\ rx["aprs"].window = H!Flag
    /\ phase = "gap" /\ frames > 0 => ones = 0

\* The ais receiver, for the bursts of the standard.
AisInv ==
    H!Standard =>
      /\ got["ais"] = frames
      /\ phase \in {"gap", "lead"} => ~rx["ais"].inFrame
      /\ phase = "lead" /\ bit = 0 => rx["aprs"].window % 128 # 63
      /\ phase = "data" => InData(rx["ais"])
      /\ phase = "tail" => InTail(rx["ais"])

PacketInv == WireType /\ LevelInv /\ SenderInv /\ FlagInv /\ GapInv /\ AprsInv /\ AisInv

\* What the types say of the plan and the receivers.
LEMMA WireFacts ==
  ASSUME WireType
  PROVE  /\ wire.gapBits \in Nat /\ wire.lead \in Nat /\ wire.lead > 0
         /\ wire.tail \in Nat /\ wire.tail > 0 /\ wire.frames \in Nat
         /\ wire.gap \in {"noise", "idle", "training"}
         /\ wire.gapBits > 0 \/ wire.lead > 1
         /\ wire.gap = "noise" => wire.frames <= 1 \/ wire.gapBits < MinBits + 8
         /\ wire.gap = "idle" /\ wire.lead = 1 => wire.gapBits # 6 /\ wire.gapBits # 7
         /\ MinBits \in Nat /\ MinBits > 0
         /\ rx["aprs"] \in RxState /\ rx["ais"] \in RxState
         /\ rx["aprs"].window \in 0..255 /\ rx["aprs"].ones \in Nat
         /\ rx["aprs"].bits \in Seq(BOOLEAN) /\ Len(rx["aprs"].bits) \in Nat
         /\ rx["ais"].bits \in Seq(BOOLEAN) /\ rx["ais"].ones \in Nat
         /\ Len(payload) \in Nat /\ got["aprs"] \in Nat /\ got["ais"] \in Nat
<1>1. wire \in H!PlanType /\ MinBits \in Nat /\ MinBits > 0
  BY ReceiversAssumption DEF WireType, H!PlansAssumption, H!LengthAssumption
<1>2. /\ wire.gapBits > 0 \/ wire.lead > 1
      /\ wire.gap = "noise" => wire.frames <= 1 \/ wire.gapBits < MinBits + 8
      /\ wire.gap = "idle" /\ wire.lead = 1 => wire.gapBits \notin {6, 7}
  BY ReceiversAssumption DEF WireType, H!PlansAssumption
<1>3. /\ wire.gapBits \in Nat /\ wire.lead \in Nat /\ wire.lead > 0
      /\ wire.tail \in Nat /\ wire.tail > 0 /\ wire.frames \in Nat
      /\ wire.gap \in {"noise", "idle", "training"}
  BY <1>1 DEF H!PlanType
<1>4. rx["aprs"] \in RxState /\ rx["ais"] \in RxState /\ got["aprs"] \in Nat /\ got["ais"] \in Nat
  BY DEF WireType, H!Receivers
<1>5. /\ rx["aprs"].window \in 0..255 /\ rx["aprs"].ones \in Nat /\ rx["aprs"].bits \in Seq(BOOLEAN)
      /\ rx["ais"].bits \in Seq(BOOLEAN) /\ rx["ais"].ones \in Nat
  BY <1>4 DEF RxState
<1>6. Len(rx["aprs"].bits) \in Nat /\ Len(payload) \in Nat
  BY <1>5 DEF WireType
<1> QED
  BY <1>1, <1>2, <1>3, <1>4, <1>5, <1>6

\* A bit more of training never ends a flag.
LEMMA TrainingGrows ==
  ASSUME NEW w \in 0..255, NEW k \in Nat, Training(w, k)
  PROVE  /\ k % 2 = 0 => Training(Shift(w, FALSE), k + 1) /\ Shift(w, FALSE) # H!Flag
         /\ k % 2 = 1 => Training(Shift(w, TRUE), k + 1)
         /\ w % 128 # 63
<1>1. Shift(w, TRUE) = (2 * w + 1) % 256 /\ Shift(w, FALSE) = (2 * w) % 256 /\ H!Flag = 126
  BY DEF Shift, H!Flag
<1>2. CASE k % 2 = 0
  <2>1. (k + 1) % 2 = 1 /\ (w % 4 = 1 \/ w = 3)
    BY <1>2 DEF Training
  <2>2. ((2 * w) % 256) % 8 = 2 \/ (2 * w) % 256 = 6
    <3>1. (2 * w) % 256 = IF w < 128 THEN 2 * w ELSE 2 * w - 256
      OBVIOUS
    <3>2. w % 4 = 1 => (2 * w) % 8 = 2 /\ (2 * w - 256) % 8 = 2
      OBVIOUS
    <3>3. CASE w < 128
      <4>1. (2 * w) % 256 = 2 * w
        BY <3>1, <3>3
      <4> QED
        BY <2>1, <3>2, <4>1
    <3>4. CASE w >= 128
      <4>1. (2 * w) % 256 = 2 * w - 256
        BY <3>1, <3>4
      <4> QED
        BY <2>1, <3>2, <3>4, <4>1
    <3>5. w < 128 \/ w >= 128
      OBVIOUS
    <3> QED
      BY <3>3, <3>4, <3>5, Zenon
  <2>3. (2 * w) % 256 # 126 /\ w % 128 # 63
    BY <2>1
  <2> DEFINE v == (2 * w) % 256
  <2>4. (v % 8 = 2 \/ v = 6) /\ v # 126
    BY <2>2, <2>3
  <2> HIDE DEF v
  <2>5. Training(v, k + 1)
    BY <2>1, <2>4 DEF Training
  <2>6. Shift(w, FALSE) = v
    BY <1>1 DEF v
  <2>7. k % 2 # 1 /\ H!Flag = 126
    BY <1>1, <1>2
  <2>8. Training(Shift(w, FALSE), k + 1) /\ Shift(w, FALSE) # H!Flag
    BY <2>4, <2>5, <2>6, <2>7
  <2> QED
    BY <2>3, <2>7, <2>8
<1>3. CASE k % 2 # 0
  <2>1. (k + 1) % 2 = 0 /\ (w % 8 = 2 \/ w = 6 \/ w = 252 \/ w = 1)
    BY <1>3 DEF Training
  <2>2. ((2 * w + 1) % 256) % 4 = 1 \/ (2 * w + 1) % 256 = 3
    <3>1. (2 * w + 1) % 256 = IF w < 128 THEN 2 * w + 1 ELSE 2 * w - 255
      OBVIOUS
    <3>2. w % 8 = 2 => (2 * w + 1) % 4 = 1 /\ (2 * w - 255) % 4 = 1
      OBVIOUS
    <3>3. CASE w < 128
      <4>1. (2 * w + 1) % 256 = 2 * w + 1
        BY <3>1, <3>3
      <4> QED
        BY <2>1, <3>2, <3>3, <4>1
    <3>4. CASE w >= 128
      <4>1. (2 * w + 1) % 256 = 2 * w - 255
        BY <3>1, <3>4
      <4> QED
        BY <2>1, <3>2, <3>4, <4>1
    <3>5. w < 128 \/ w >= 128
      OBVIOUS
    <3> QED
      BY <3>3, <3>4, <3>5, Zenon
  <2>3. w % 128 # 63
    BY <2>1
  <2> DEFINE v == (2 * w + 1) % 256
  <2>4. v % 4 = 1 \/ v = 3
    BY <2>2
  <2> HIDE DEF v
  <2>5. Training(v, k + 1)
    BY <2>1, <2>4 DEF Training
  <2>6. Shift(w, TRUE) = v
    BY <1>1 DEF v
  <2>7. Training(Shift(w, TRUE), k + 1)
    BY <2>5, <2>6
  <2> QED
    BY <1>3, <2>3, <2>7
<1> QED
  BY <1>2, <1>3

\* So does silence, and six ones are only its end if it is as long as that.
LEMMA SilenceGrows ==
  ASSUME NEW w \in 0..255, NEW k \in Nat, k > 0
  PROVE  /\ Silence(w, k) => Silence(Shift(w, TRUE), k + 1) /\ (k # 7 => w % 128 # 63)
         /\ LaterSilence(w, k) => LaterSilence(Shift(w, TRUE), k + 1) /\ (k # 6 => w % 128 # 63)
<1>1. Shift(w, TRUE) = (2 * w + 1) % 256
  BY DEF Shift
<1>2. ASSUME Silence(w, k)
      PROVE  Silence((2 * w + 1) % 256, k + 1)
  <2> DEFINE v == (2 * w + 1) % 256
  <2>1. CASE k = 1
    BY <1>2, <2>1 DEF Silence
  <2>2. CASE k = 2
    BY <1>2, <2>2 DEF Silence
  <2>3. CASE k = 3
    BY <1>2, <2>3 DEF Silence
  <2>4. CASE k = 4
    BY <1>2, <2>4 DEF Silence
  <2>5. CASE k = 5
    BY <1>2, <2>5 DEF Silence
  <2>6. CASE k = 6
    BY <1>2, <2>6 DEF Silence
  <2>7. CASE k = 7
    BY <1>2, <2>7 DEF Silence
  <2>8. CASE k >= 8
    <3>1. v = 255
      BY <1>2, <2>8 DEF Silence
    <3> QED
      BY <2>8, <3>1 DEF Silence
  <2> QED
    BY <2>1, <2>2, <2>3, <2>4, <2>5, <2>6, <2>7, <2>8
<1>3. Silence(w, k) => (k # 7 => w % 128 # 63)
  BY DEF Silence
<1>4. LaterSilence(w, k) => LaterSilence((2 * w + 1) % 256, k + 1)
  BY DEF LaterSilence
<1>5. LaterSilence(w, k) => (k # 6 => w % 128 # 63)
  BY DEF LaterSilence
<1>6. Silence(w, k) => Silence(Shift(w, TRUE), k + 1)
  BY <1>1, <1>2
<1>7. LaterSilence(w, k) => LaterSilence(Shift(w, TRUE), k + 1)
  BY <1>1, <1>4
<1> QED
  BY <1>3, <1>5, <1>6, <1>7

\* After nothing, or after a flag.
LEMMA FirstBits ==
  /\ Shift(0, TRUE) = 1 /\ Shift(0, FALSE) = 0
  /\ Shift(H!Flag, TRUE) = 253 /\ Shift(H!Flag, FALSE) = 252
  BY DEF Shift, H!Flag

\* What is in the types after a bit was put.
LEMMA PutTypes ==
  ASSUME WireType, AfterPut, wire' = wire, phase' \in {"gap", "lead", "data", "tail"},
         bit' \in Nat, flags' \in Nat, frames' \in Nat, payload' \in Seq(BOOLEAN), ones' \in 0..5
  PROVE  WireType'
  BY DEF WireType, AfterPut

\* In step or not, what is put in a gap is heard, and nothing is counted.
LEMMA GapHeard ==
  ASSUME PacketInv, phase = "gap", bit < wire.gapBits, frames < wire.frames,
         NEW b \in BOOLEAN, wire.gap = "idle" => b, wire.gap = "training" => b = (bit % 2 = 1),
         H!Put(b)
  PROVE  /\ OneHeard \/ (ZeroHeard /\ got'["aprs"] = got["aprs"])
         /\ Unheard /\ b => ZeroHeard
         /\ Unheard /\ ~b => OneHeard
         /\ ~Unheard /\ b => OneHeard
         /\ ~Unheard /\ ~b => ZeroHeard
<1> USE DEF PacketInv
<1>1. H!Put(TRUE) \/ H!Put(FALSE)
  BY Zenon
<1>2. CASE Unheard
  <2>1. rx["aprs"].level # level /\ frames = 0
    BY <1>2 DEF LevelInv, Unheard
  <2>2. (H!Put(TRUE) => ZeroHeard) /\ (H!Put(FALSE) => OneHeard)
    BY <2>1, PutMistaken
  <2>3. (b => ZeroHeard) /\ (~b => OneHeard)
    BY <2>2, Zenon
  <2>4. payload = <<>>
    BY <2>1 DEF SenderInv
  <2>5. ZeroHeard => got'["aprs"] = got["aprs"]
    BY <2>4 DEF ZeroHeard, FlagToAprs, ZeroToAprs
  <2> QED
    BY <1>2, <2>3, <2>5
<1>3. CASE ~Unheard
  <2>1. rx["aprs"].level = level
    BY <1>3 DEF LevelInv
  <2>2. (H!Put(TRUE) => OneHeard) /\ (H!Put(FALSE) => ZeroHeard)
    BY <2>1, PutHears
  <2>3. (b => OneHeard) /\ (~b => ZeroHeard)
    BY <2>2, Zenon
  <2>4. ASSUME ~b, ZeroHeard
        PROVE  got'["aprs"] = got["aprs"]
    <3>1. payload = <<>> \/ Len(rx["aprs"].bits) < MinBits + 7 \/ rx'["aprs"].window # H!Flag
      <4>1. CASE frames = 0
        BY <4>1 DEF SenderInv
      <4>2. CASE frames # 0 /\ wire.gap = "noise"
        <5>1. frames \in Nat /\ bit \in Nat /\ wire.gapBits \in Nat /\ MinBits \in Nat
              /\ wire.frames \in Nat /\ Len(rx["aprs"].bits) \in Nat
              /\ (wire.gap = "noise" => wire.frames <= 1 \/ wire.gapBits < MinBits + 8)
          BY WireFacts DEF WireType
        <5>2. wire.gapBits < MinBits + 8
          BY <4>2, <5>1
        <5>3. Len(rx["aprs"].bits) <= bit
          BY <4>2, <5>1 DEF AprsInv
        <5> QED
          BY <5>1, <5>2, <5>3
      <4>3. CASE frames # 0 /\ wire.gap = "training"
        <5>1. rx'["aprs"].window = Shift(rx["aprs"].window, FALSE) /\ bit % 2 # 1
          BY <2>4, <4>3 DEF ZeroHeard
        <5>2. CASE bit = 0
          <6>1. rx["aprs"].window = H!Flag
            BY <4>3, <5>2 DEF AprsInv, WireType
          <6>2. rx'["aprs"].window = 252
            BY <5>1, <6>1, FirstBits
          <6> QED
            BY <6>2 DEF H!Flag
        <5>3. CASE bit > 0
          <6>1. Training(rx["aprs"].window, bit) /\ bit % 2 = 0
            BY <4>3, <5>1, <5>3 DEF GapInv, WireType
          <6> QED
            BY <5>1, <6>1, WireFacts, TrainingGrows DEF WireType
        <5> QED
          BY <5>2, <5>3 DEF WireType
      <4> QED
        BY <2>4, <4>1, <4>2, <4>3, WireFacts
    <3> QED
      BY <2>4, <3>1 DEF ZeroHeard, FlagToAprs, ZeroToAprs
  <2> QED
    BY <1>3, <2>3, <2>4
<1> QED
  BY <1>2, <1>3

\* A bit of a gap.
LEMMA GapBitKeeps ==
  ASSUME PacketInv, H!GapBit
  PROVE  PacketInv'
<1>1. /\ phase = "gap" /\ bit < wire.gapBits /\ frames < wire.frames /\ bit' = bit + 1
      /\ wire' = wire /\ phase' = phase /\ flags' = flags /\ payload' = payload
      /\ ones' = ones /\ frames' = frames
  BY DEF H!GapBit
<1>2. PICK b \in BOOLEAN : /\ wire.gap = "idle" => b
                           /\ wire.gap = "training" => b = (bit % 2 = 1)
                           /\ H!Put(b)
  BY DEF H!GapBit
<1>3. WireType /\ LevelInv /\ SenderInv /\ FlagInv /\ GapInv /\ AprsInv /\ AisInv
  BY DEF PacketInv
<1> DEFINE w == rx["aprs"].window
           v == rx'["aprs"].window
<1>4. /\ OneHeard \/ (ZeroHeard /\ got'["aprs"] = got["aprs"])
      /\ Unheard /\ b => ZeroHeard
      /\ Unheard /\ ~b => OneHeard
      /\ ~Unheard /\ b => OneHeard
      /\ ~Unheard /\ ~b => ZeroHeard
  BY <1>1, <1>2, GapHeard
<1>5. AfterPut /\ got'["aprs"] = got["aprs"]
  BY <1>4 DEF OneHeard, ZeroHeard
<1>6. bit \in Nat /\ w \in 0..255 /\ (Unheard <=> frames = 0 /\ bit = 0)
  BY <1>1, <1>3, WireFacts DEF WireType, Unheard
<1>7. /\ OneHeard => v = Shift(w, TRUE)
      /\ ZeroHeard => v = Shift(w, FALSE)
  BY DEF OneHeard, ZeroHeard
<1>0. /\ wire.gap = "idle" => b
      /\ wire.gap = "training" /\ bit % 2 = 1 => b
      /\ wire.gap = "training" /\ bit % 2 # 1 => ~b
  BY <1>2, Zenon
<1>8. WireType'
  BY <1>1, <1>3, <1>5, PutTypes DEF WireType
<1>9. LevelInv'
  <2>1. ~(Unheard')
    BY <1>1, <1>6 DEF Unheard
  <2>2. rx'["aprs"].level = level'
    BY <1>5 DEF AfterPut
  <2> QED
    BY <2>1, <2>2 DEF LevelInv
<1>10. SenderInv'
  BY <1>1, <1>3, <1>6, WireFacts DEF SenderInv
<1>11. FlagInv'
  BY <1>1 DEF FlagInv
<1>12. GapInv'
  <2>1. ASSUME wire.gap = "training"
        PROVE  Training(v, bit + 1)
    <3>1. CASE Unheard
      <4>0. w = 0 /\ bit = 0
        BY <1>3, <1>6, <3>1 DEF LevelInv
      <4>1. w = 0 /\ bit = 0 /\ OneHeard
        BY <1>0, <1>4, <2>1, <3>1, <4>0
      <4>2. v = 1
        BY <1>7, <4>1, FirstBits
      <4> QED
        BY <4>1, <4>2 DEF Training
    <3>2. CASE ~Unheard /\ bit = 0
      <4>0. w = H!Flag
        BY <1>1, <1>3, <1>6, <3>2 DEF AprsInv, WireType
      <4>1. w = H!Flag /\ ZeroHeard
        BY <1>0, <1>4, <2>1, <3>2, <4>0
      <4>2. v = 252
        BY <1>7, <4>1, FirstBits
      <4> QED
        BY <3>2, <4>2 DEF Training
    <3>3. CASE bit > 0
      <4>1. Training(w, bit) /\ ~Unheard
        BY <1>1, <1>3, <1>6, <2>1, <3>3 DEF GapInv
      <4>2. CASE bit % 2 = 1
        <5>1. v = Shift(w, TRUE)
          BY <1>0, <1>4, <1>7, <2>1, <4>1, <4>2
        <5> QED
          BY <1>6, <4>1, <4>2, <5>1, TrainingGrows
      <4>3. CASE bit % 2 = 0
        <5>0. ZeroHeard
          <6>1. bit % 2 # 1
            BY <4>3
          <6> QED
            BY <1>0, <1>4, <2>1, <4>1, <6>1, Zenon
        <5>1. v = Shift(w, FALSE)
          BY <1>7, <5>0
        <5> QED
          BY <1>6, <4>1, <4>3, <5>1, TrainingGrows
      <4>4. bit % 2 = 0 \/ bit % 2 = 1
        BY <1>6
      <4> QED
        BY <4>2, <4>3, <4>4
    <3> QED
      BY <1>6, <3>1, <3>2, <3>3
  <2>2. ASSUME wire.gap = "idle", frames = 0
        PROVE  Silence(v, bit + 1)
    <3>1. CASE Unheard
      <4>1. w = 0 /\ bit = 0 /\ ZeroHeard
        BY <1>0, <1>3, <1>4, <1>6, <2>2, <3>1 DEF LevelInv
      <4>2. v = 0
        BY <1>7, <4>1, FirstBits
      <4> QED
        BY <4>1, <4>2 DEF Silence
    <3>2. CASE ~Unheard
      <4>1. Silence(w, bit) /\ bit > 0
        BY <1>1, <1>3, <1>6, <2>2, <3>2 DEF GapInv
      <4>2. v = Shift(w, TRUE)
        BY <1>0, <1>4, <1>7, <2>2, <3>2
      <4> QED
        BY <1>6, <4>1, <4>2, SilenceGrows
    <3> QED
      BY <3>1, <3>2
  <2>3. ASSUME wire.gap = "idle", frames > 0
        PROVE  LaterSilence(v, bit + 1)
    <3>0. ~Unheard
      BY <1>6, <2>3
    <3>1. v = Shift(w, TRUE)
      BY <1>0, <1>4, <1>7, <2>3, <3>0
    <3>2. CASE bit = 0
      <4>0. w = H!Flag
        BY <1>1, <1>3, <2>3, <3>2 DEF AprsInv
      <4>1. v = 253
        <5>1. Shift(w, TRUE) = 253
          BY <4>0 DEF Shift, H!Flag
        <5> QED
          BY <3>1, <5>1
      <4> QED
        BY <3>2, <4>1 DEF LaterSilence
    <3>3. CASE bit > 0
      <4>1. LaterSilence(w, bit)
        BY <1>1, <1>3, <2>3, <3>3 DEF GapInv
      <4> QED
        BY <1>6, <3>1, <3>3, <4>1, SilenceGrows
    <3> QED
      BY <1>6, <3>2, <3>3
  <2> QED
    BY <1>1, <2>1, <2>2, <2>3 DEF GapInv
<1>13. AprsInv'
  <2>1. frames > 0 => Len(rx'["aprs"].bits) <= bit + 1
    <3>1. frames > 0 => Len(rx["aprs"].bits) <= bit
      BY <1>1, <1>3 DEF AprsInv
    <3>2. Len(rx'["aprs"].bits) <= Len(rx["aprs"].bits) + 1
      <4>1. Len(<<>>) = 0 /\ Len(rx["aprs"].bits) \in Nat
        BY <1>3, WireFacts
      <4>2. ZeroHeard => rx'["aprs"].bits = <<>> \/ Len(rx'["aprs"].bits) <= Len(rx["aprs"].bits) + 1
        BY DEF ZeroHeard, FlagToAprs, ZeroToAprs, NewFrame
      <4>3. OneHeard => Len(rx'["aprs"].bits) <= Len(rx["aprs"].bits) + 1
        BY DEF OneHeard
      <4> QED
        BY <1>4, <4>1, <4>2, <4>3
    <3>3. Len(rx'["aprs"].bits) \in Nat
      BY <1>8, WireFacts DEF WireType, H!Receivers, RxState
    <3>4. Len(rx["aprs"].bits) \in Nat
      BY <1>3, WireFacts
    <3> QED
      BY <1>6, <3>1, <3>2, <3>3, <3>4
  <2> QED
    BY <1>1, <1>3, <1>5, <1>6, <2>1 DEF AprsInv
<1>14. AisInv'
  <2> SUFFICES ASSUME H!Standard
               PROVE  got'["ais"] = got["ais"] /\ ~rx'["ais"].inFrame
    BY <1>1, <1>3 DEF AisInv, H!Standard
  <2>1. ~rx["ais"].inFrame /\ wire.gap \in {"idle", "training"}
    BY <1>1, <1>3, WireFacts DEF AisInv, H!Standard
  <2>2. ASSUME ZeroHeard
        PROVE  v # H!Flag
    <3>1. CASE Unheard
      <4>1. w = 0
        BY <1>3, <3>1 DEF LevelInv
      <4>2. v = 0
        BY <1>7, <2>2, <4>1, FirstBits
      <4> QED
        BY <4>2 DEF H!Flag
    <3>2. CASE ~Unheard /\ b
      BY <1>4, <1>6, <1>7, <3>2, OddWindow
    <3>3. CASE ~Unheard /\ ~b
      <4>1. wire.gap = "training" /\ bit % 2 # 1
        BY <1>0, <1>2, <2>1, <3>3
      <4>2. CASE bit = 0
        <5>1. w = H!Flag
          BY <1>1, <1>3, <1>6, <3>3, <4>2 DEF AprsInv, WireType
        <5>2. v = 252
          BY <1>7, <2>2, <5>1, FirstBits
        <5> QED
          BY <5>2 DEF H!Flag
      <4>3. CASE bit > 0
        <5>1. bit % 2 = 0 /\ Training(w, bit)
          BY <1>1, <1>3, <1>6, <4>1, <4>3 DEF GapInv
        <5> QED
          BY <1>6, <1>7, <2>2, <5>1, TrainingGrows
      <4> QED
        BY <1>6, <4>2, <4>3
    <3> QED
      BY <3>1, <3>2, <3>3
  <2>3. CASE OneHeard
    BY <2>1, <2>3 DEF OneHeard
  <2>4. CASE ZeroHeard
    BY <2>1, <2>2, <2>4 DEF ZeroHeard, ZeroToAis
  <2> QED
    BY <1>4, <2>3, <2>4
<1> QED
  BY <1>8, <1>9, <1>10, <1>11, <1>12, <1>13, <1>14 DEF PacketInv

\* The end of a gap.
LEMMA GapEndsKeeps ==
  ASSUME PacketInv, H!GapEnds
  PROVE  PacketInv'
<1>1. /\ phase = "gap" /\ phase' = "lead" /\ bit' = 0 /\ flags' = wire.lead /\ payload' = <<>>
      /\ wire' = wire /\ ones' = ones /\ level' = level /\ rx' = rx /\ frames' = frames
      /\ got' = got
      /\ IF wire.gap = "noise" THEN bit > 0 \/ wire.gapBits = 0 ELSE bit = wire.gapBits
  BY DEF H!GapEnds
<1>2. WireType /\ LevelInv /\ SenderInv /\ FlagInv /\ GapInv /\ AprsInv /\ AisInv
  BY DEF PacketInv
<1>3. bit \in Nat /\ bit <= wire.gapBits /\ ones < 5
  BY <1>1, <1>2 DEF WireType, SenderInv
<1>4. WireType'
  <2>1. <<>> \in Seq(BOOLEAN) /\ 0 \in Nat
    OBVIOUS
  <2> QED
    BY <1>1, <1>2, <2>1, WireFacts DEF WireType
<1>5. LevelInv'
  <2>1. (Unheard') <=> Unheard
    BY <1>1, <1>2, <1>3, WireFacts DEF Unheard, Deaf
  <2> QED
    BY <1>1, <1>2, <2>1 DEF LevelInv
<1>6. SenderInv'
  BY <1>1, <1>2, <1>3, WireFacts DEF SenderInv
<1>7. FlagInv'
  BY <1>1 DEF FlagInv
<1>8. GapInv'
  BY <1>1 DEF GapInv
<1>9. AprsInv'
  BY <1>1, <1>2 DEF AprsInv
<1>10. AisInv'
  <2> SUFFICES ASSUME H!Standard
               PROVE  rx["aprs"].window % 128 # 63
    BY <1>1, <1>2 DEF AisInv, H!Standard
  <2>1. /\ wire.gap \in {"idle", "training"} /\ wire.lead = 1
        /\ bit = wire.gapBits /\ bit > 0 /\ rx["aprs"].window \in 0..255
    BY <1>1, <1>2, WireFacts DEF H!Standard
  <2>2. CASE wire.gap = "training"
    BY <1>1, <1>2, <1>3, <2>1, <2>2, TrainingGrows DEF GapInv
  <2>3. CASE wire.gap = "idle"
    <3>1. bit # 6 /\ bit # 7
      BY <1>2, <2>1, <2>3, WireFacts
    <3>2. Silence(rx["aprs"].window, bit) \/ LaterSilence(rx["aprs"].window, bit)
      <4>1. frames = 0 \/ frames > 0
        BY <1>2 DEF WireType
      <4> QED
        BY <1>1, <1>2, <2>1, <2>3, <4>1 DEF GapInv
    <3> QED
      BY <1>3, <2>1, <3>1, <3>2, SilenceGrows
  <2> QED
    BY <2>1, <2>2, <2>3
<1> QED
  BY <1>4, <1>5, <1>6, <1>7, <1>8, <1>9, <1>10 DEF PacketInv

\* A frame that begins with the last one's flag.
LEMMA ShareFlagKeeps ==
  ASSUME PacketInv, H!ShareFlag
  PROVE  PacketInv'
<1>1. /\ phase = "gap" /\ phase' = "data" /\ bit = 0 /\ payload' = <<>> /\ wire.shared /\ 0 < frames
      /\ wire' = wire /\ bit' = bit /\ flags' = flags /\ ones' = ones /\ level' = level
      /\ rx' = rx /\ frames' = frames /\ got' = got
  BY DEF H!ShareFlag
<1>2. WireType /\ LevelInv /\ SenderInv /\ FlagInv /\ GapInv /\ AprsInv /\ AisInv
  BY DEF PacketInv
<1>3. NewFrame(rx["aprs"]) /\ rx["aprs"].window = H!Flag /\ ones = 0 /\ got["aprs"] = frames
  BY <1>1, <1>2 DEF AprsInv, WireType
<1>4. WireType'
  BY <1>1, <1>2 DEF WireType
<1>5. LevelInv'
  BY <1>1, <1>2 DEF LevelInv, Unheard, Deaf
<1>6. SenderInv' /\ FlagInv' /\ GapInv' /\ AisInv'
  BY <1>1, <1>2 DEF SenderInv, FlagInv, GapInv, AisInv, H!Standard
<1>7. AprsInv'
  <2>1. Ends(H!Flag, 0)
    BY DEF Ends, H!Flag
  <2> QED
    BY <1>1, <1>3, <2>1 DEF AprsInv, InData, NewFrame
<1> QED
  BY <1>4, <1>5, <1>6, <1>7 DEF PacketInv

\* The end of the data.
LEMMA DataEndsKeeps ==
  ASSUME PacketInv, H!DataEnds
  PROVE  PacketInv'
<1>1. /\ phase = "data" /\ phase' = "tail" /\ ones # 5 /\ Len(payload) >= MinBits
      /\ bit' = 0 /\ flags' = wire.tail
      /\ wire' = wire /\ payload' = payload /\ ones' = ones /\ level' = level
      /\ rx' = rx /\ frames' = frames /\ got' = got
  BY DEF H!DataEnds, H!Stuff
<1>2. WireType /\ LevelInv /\ SenderInv /\ FlagInv /\ GapInv /\ AprsInv /\ AisInv
  BY DEF PacketInv
<1>3. ones < 5
  BY <1>1, <1>2 DEF WireType
<1>4. WireType'
  BY <1>1, <1>2, WireFacts DEF WireType
<1>5. LevelInv'
  BY <1>1, <1>2 DEF LevelInv, Unheard, Deaf
<1>6. SenderInv' /\ FlagInv' /\ GapInv'
  <2>1. wire.tail \in Nat /\ wire.tail > 0
    BY <1>2, WireFacts
  <2>2. SenderInv'
    BY <1>1, <1>3, <2>1 DEF SenderInv
  <2>3. FlagInv' /\ GapInv'
    BY <1>1 DEF FlagInv, GapInv
  <2> QED
    BY <2>2, <2>3
<1>7. \A s : InData(s) => InTail(s)'
  <2>1. Len(payload) \in Nat
    BY <1>2, WireFacts
  <2> QED
    BY <1>1, <2>1 DEF InData, InTail
<1>8. AprsInv'
  <2>1. InTail(rx["aprs"])' /\ Ends(rx["aprs"].window, ones) /\ got["aprs"] = frames
    BY <1>1, <1>2, <1>7 DEF AprsInv
  <2> QED
    BY <1>1, <1>2, <2>1, WireFacts DEF AprsInv
<1>9. AisInv'
  BY <1>1, <1>2, <1>7 DEF AisInv, H!Standard
<1> QED
  BY <1>4, <1>5, <1>6, <1>8, <1>9 DEF PacketInv

\* A zero that the sender puts in is left out again.
LEMMA StuffBitKeeps ==
  ASSUME PacketInv, H!StuffBit
  PROVE  PacketInv'
<1>1. /\ phase = "data" /\ phase' = "data" /\ ones = 5 /\ ones' = 0 /\ H!Put(FALSE)
      /\ wire' = wire /\ bit' = bit /\ flags' = flags /\ payload' = payload /\ frames' = frames
  BY DEF H!StuffBit, H!Stuff
<1>2. WireType /\ LevelInv /\ SenderInv /\ FlagInv /\ GapInv /\ AprsInv /\ AisInv
  BY DEF PacketInv
<1>3. rx["aprs"].level = level
  BY <1>1, <1>2 DEF LevelInv, Unheard, Deaf
<1>4. ZeroHeard
  BY <1>1, <1>2, <1>3, PutHears
<1>5. AfterPut
  BY <1>4 DEF ZeroHeard
<1>6. WireType'
  BY <1>1, <1>2, <1>5, PutTypes DEF WireType
<1>7. LevelInv'
  BY <1>1, <1>5 DEF LevelInv, Unheard, Deaf, AfterPut
<1>8. SenderInv' /\ FlagInv' /\ GapInv'
  BY <1>1 DEF SenderInv, FlagInv, GapInv
<1>9. InData(rx["aprs"]) /\ Ends(rx["aprs"].window, ones) /\ got["aprs"] = frames
  BY <1>1, <1>2 DEF AprsInv
<1>10. rx'["aprs"].window # H!Flag /\ Ends(rx'["aprs"].window, 0)
  <2>1. rx["aprs"].window \in 0..255 /\ rx'["aprs"].window = Shift(rx["aprs"].window, FALSE)
    BY <1>2, <1>4, WireFacts DEF ZeroHeard
  <2>2. ones \in 0..6 /\ ones # 6
    BY <1>1
  <2> QED
    BY <1>9, <2>1, <2>2, Runs, ZeroEnds
<1>11. AprsInv'
  <2>1. TakesStuff(rx["aprs"], rx'["aprs"]) /\ got'["aprs"] = got["aprs"]
    BY <1>1, <1>4, <1>9, <1>10 DEF ZeroHeard, ZeroToAprs, InData
  <2>2. InData(rx["aprs"])' /\ got'["aprs"] = frames
    BY <1>1, <1>9, <2>1 DEF InData, TakesStuff
  <2> QED
    BY <1>1, <1>10, <2>2 DEF AprsInv
<1>12. AisInv'
  <2> SUFFICES ASSUME H!Standard
               PROVE  got'["ais"] = frames /\ InData(rx["ais"])'
    BY <1>1 DEF AisInv, H!Standard
  <2>1. InData(rx["ais"]) /\ got["ais"] = frames
    BY <1>1, <1>2 DEF AisInv
  <2>2. TakesStuff(rx["ais"], rx'["ais"]) /\ got'["ais"] = got["ais"]
    BY <1>1, <1>4, <2>1 DEF ZeroHeard, ZeroToAis, InData
  <2> QED
    BY <1>1, <2>1, <2>2 DEF InData, TakesStuff
<1> QED
  BY <1>6, <1>7, <1>8, <1>11, <1>12 DEF PacketInv

\* A bit of the data is taken for what it is.
LEMMA DataBitKeeps ==
  ASSUME PacketInv, H!DataBit
  PROVE  PacketInv'
<1>1. /\ phase = "data" /\ phase' = "data" /\ ones # 5
      /\ wire' = wire /\ bit' = bit /\ flags' = flags /\ frames' = frames
  BY DEF H!DataBit, H!Stuff
<1>2. PICK b \in BOOLEAN : H!Put(b) /\ payload' = Append(payload, b)
                           /\ ones' = IF b THEN ones + 1 ELSE 0
  BY DEF H!DataBit
<1>3. WireType /\ LevelInv /\ SenderInv /\ FlagInv /\ GapInv /\ AprsInv /\ AisInv
  BY DEF PacketInv
<1>4. rx["aprs"].level = level /\ ones \in 0..4 /\ rx["aprs"].window \in 0..255
  BY <1>1, <1>3, WireFacts DEF LevelInv, Unheard, Deaf, WireType
<1>5. InData(rx["aprs"]) /\ Ends(rx["aprs"].window, ones) /\ got["aprs"] = frames
  BY <1>1, <1>3 DEF AprsInv
<1>6. H!Standard => InData(rx["ais"]) /\ got["ais"] = frames
  BY <1>1, <1>3 DEF AisInv
<1>7. ones' \in 0..5 /\ payload' \in Seq(BOOLEAN)
  <2>1. payload \in Seq(BOOLEAN)
    BY <1>3 DEF WireType
  <2>2. ones' \in 0..5
    BY <1>2, <1>4
  <2>3. payload' \in Seq(BOOLEAN)
    BY <1>2, <2>1
  <2> QED
    BY <2>2, <2>3
<1>8. /\ AfterPut /\ got'["aprs"] = frames /\ InData(rx["aprs"])' /\ Ends(rx'["aprs"].window, ones')
      /\ H!Standard => got'["ais"] = frames /\ InData(rx["ais"])'
  <2>1. CASE b
    <3>0. b = TRUE
      BY <2>1
    <3>1. OneHeard /\ ones' = ones + 1 /\ payload' = Append(payload, TRUE)
      BY <1>2, <1>3, <1>4, <3>0, PutHears
    <3>2. TakesOne(rx["aprs"], rx'["aprs"]) /\ got'["aprs"] = got["aprs"] /\ AfterPut
      BY <1>4, <1>5, <3>1 DEF OneHeard, InData
    <3>3. Ends(rx'["aprs"].window, ones')
      <4>1. rx'["aprs"].window = Shift(rx["aprs"].window, TRUE) /\ ones < 6 /\ ones \in 0..6
        BY <1>4, <3>1 DEF OneHeard
      <4>2. Ends(Shift(rx["aprs"].window, TRUE), ones + 1)
        BY <1>4, <1>5, <4>1, Runs
      <4> QED
        BY <3>1, <4>1, <4>2
    <3>4. H!Standard => TakesOne(rx["ais"], rx'["ais"]) /\ got'["ais"] = got["ais"]
      BY <1>4, <1>6, <3>1 DEF OneHeard, InData
    <3> QED
      BY <1>5, <1>6, <3>1, <3>2, <3>3, <3>4 DEF InData, TakesOne
  <2>2. CASE ~b
    <3>0. b = FALSE
      BY <2>2
    <3>1. ZeroHeard /\ ones' = 0 /\ payload' = Append(payload, FALSE)
      BY <1>2, <1>3, <1>4, <3>0, PutHears
    <3>2. /\ rx'["aprs"].window = Shift(rx["aprs"].window, FALSE) /\ AfterPut
          /\ ZeroToAprs(rx["aprs"], rx'["aprs"]) /\ ZeroToAis(rx["ais"], rx'["ais"])
      BY <3>1 DEF ZeroHeard
    <3>3. rx'["aprs"].window # H!Flag
      <4>1. ones \in 0..6 /\ ones # 6
        BY <1>4
      <4> QED
        BY <1>4, <1>5, <3>2, <4>1, Runs
    <3>4. Ends(rx'["aprs"].window, ones')
      BY <1>4, <3>1, <3>2, ZeroEnds
    <3>5. TakesZero(rx["aprs"], rx'["aprs"]) /\ got'["aprs"] = got["aprs"]
      BY <1>4, <1>5, <3>2, <3>3 DEF ZeroToAprs, InData
    <3>6. H!Standard => TakesZero(rx["ais"], rx'["ais"]) /\ got'["ais"] = got["ais"]
      BY <1>4, <1>6, <3>2 DEF ZeroToAis, InData
    <3> QED
      BY <1>5, <1>6, <3>1, <3>2, <3>4, <3>5, <3>6 DEF InData, TakesZero
  <2> QED
    BY <2>1, <2>2
<1>9. WireType'
  BY <1>1, <1>3, <1>7, <1>8, PutTypes DEF WireType
<1>10. LevelInv'
  BY <1>1, <1>8 DEF LevelInv, Unheard, Deaf, AfterPut
<1>11. SenderInv' /\ FlagInv' /\ GapInv'
  BY <1>1 DEF SenderInv, FlagInv, GapInv
<1>12. AprsInv' /\ AisInv'
  BY <1>1, <1>8 DEF AprsInv, AisInv, H!Standard
<1> QED
  BY <1>9, <1>10, <1>11, <1>12 DEF PacketInv

\* What a flag does to the sender.
FlagSent ==
    /\ phase \in {"lead", "tail"} /\ flags > 0 /\ wire' = wire /\ payload' = payload /\ ones' = 0
    /\ frames' = IF phase = "tail" /\ bit = 7 /\ flags = wire.tail THEN frames + 1 ELSE frames
    /\ bit < 7 => bit' = bit + 1 /\ phase' = phase /\ flags' = flags
    /\ bit = 7 => /\ bit' = 0 /\ flags' = flags - 1
                  /\ flags > 1 => phase' = phase
                  /\ flags = 1 => phase' = IF phase = "lead" THEN "data" ELSE "gap"

\* The sender's part.
LEMMA FlagSends ==
  ASSUME PacketInv, H!FlagBit
  PROVE  /\ FlagSent /\ SenderInv' /\ GapInv'
         /\ phase' \in {"gap", "lead", "data", "tail"} /\ bit \in 0..7
         /\ bit' \in Nat /\ flags' \in Nat /\ frames' \in Nat /\ ~(Unheard')
         /\ H!Put(bit \notin {0, 7}) /\ frames' >= frames
<1>1. /\ phase \in {"lead", "tail"} /\ flags > 0 /\ H!Put(bit \notin {0, 7})
      /\ wire' = wire /\ payload' = payload /\ ones' = 0
      /\ frames' = IF phase = "tail" /\ bit = 7 /\ flags = wire.tail THEN frames + 1 ELSE frames
      /\ IF bit < 7 THEN bit' = bit + 1 /\ phase' = phase /\ flags' = flags
         ELSE /\ bit' = 0 /\ flags' = flags - 1
              /\ phase' = IF flags > 1 THEN phase ELSE IF phase = "lead" THEN "data" ELSE "gap"
  BY DEF H!FlagBit
<1>2. WireType /\ SenderInv
  BY DEF PacketInv
<1>3. bit \in 0..7 /\ flags \in Nat /\ frames \in Nat
  BY <1>1, <1>2 DEF WireType, SenderInv
<1>4. FlagSent
  BY <1>1, <1>3 DEF FlagSent
<1>5. phase' \in {"gap", "lead", "data", "tail"} /\ bit' \in Nat /\ flags' \in Nat /\ frames' \in Nat
      /\ frames' >= frames
  BY <1>1, <1>3
<1>6. SenderInv'
  <2>1. CASE bit < 7
    BY <1>1, <1>2, <1>3, <2>1, WireFacts DEF SenderInv
  <2>2. CASE bit = 7 /\ phase = "lead"
    BY <1>1, <1>2, <1>3, <2>2, WireFacts DEF SenderInv
  <2>3. CASE bit = 7 /\ phase = "tail"
    <3>1. /\ wire.tail \in Nat /\ flags \in 1..wire.tail /\ (flags < wire.tail => frames > 0)
          /\ Len(payload) >= MinBits /\ wire.gapBits \in Nat
      BY <1>2, <2>3, WireFacts DEF SenderInv
    <3>2. frames' > 0 /\ phase' = IF flags > 1 THEN "tail" ELSE "gap"
      BY <1>1, <1>3, <2>3, <3>1
    <3>3. flags > 1 => flags' \in 1..wire'.tail
      BY <1>1, <1>3, <2>3, <3>1
    <3> QED
      BY <1>1, <1>3, <2>3, <3>1, <3>2, <3>3 DEF SenderInv
  <2> QED
    BY <1>1, <1>3, <2>1, <2>2, <2>3
<1>7. GapInv'
  BY <1>1, <1>3 DEF GapInv
<1>8. ~(Unheard')
  <2>1. CASE bit < 7
    BY <1>1, <1>3, <2>1 DEF Unheard, Deaf
  <2>2. CASE bit = 7 /\ phase = "lead"
    BY <1>1, <1>2, <1>3, <2>2, WireFacts DEF Unheard, Deaf, SenderInv
  <2>3. CASE bit = 7 /\ phase = "tail"
    <3>1. wire.tail \in Nat /\ flags \in 1..wire.tail /\ (flags < wire.tail => frames > 0)
      BY <1>2, <2>3, WireFacts DEF SenderInv
    <3>2. frames' > 0 /\ phase' # "lead"
      BY <1>1, <1>3, <2>3, <3>1
    <3> QED
      BY <3>2 DEF Unheard, Deaf
  <2> QED
    BY <1>1, <1>3, <2>1, <2>2, <2>3
<1> QED
  BY <1>1, <1>3, <1>4, <1>5, <1>6, <1>7, <1>8

\* What is heard of a flag.
LEMMA FlagHeard ==
  ASSUME PacketInv, H!FlagBit
  PROVE  /\ AfterPut
         /\ Unheard => OneHeard
         /\ ~Unheard /\ bit \in {0, 7} => ZeroHeard
         /\ bit \in 1..6 => OneHeard
<1>1. bit \in 0..7 /\ H!Put(bit \notin {0, 7}) /\ WireType /\ LevelInv
  BY FlagSends DEF PacketInv
<1>2. CASE Unheard
  <2>1. bit = 0 /\ rx["aprs"].level # level
    BY <1>1, <1>2 DEF Unheard, LevelInv
  <2>2. (bit \notin {0, 7}) = FALSE
    BY <2>1
  <2>3. H!Put(FALSE)
    BY <1>1, <2>2
  <2>4. OneHeard
    BY <1>1, <2>1, <2>3, PutMistaken
  <2> QED
    BY <1>2, <2>1, <2>4 DEF OneHeard
<1>3. CASE ~Unheard /\ bit \in {0, 7}
  <2>1. rx["aprs"].level = level
    BY <1>1, <1>3 DEF LevelInv
  <2>2. (bit \notin {0, 7}) = FALSE
    BY <1>3
  <2>3. H!Put(FALSE)
    BY <1>1, <2>2
  <2>4. ZeroHeard
    BY <1>1, <2>1, <2>3, PutHears
  <2> QED
    BY <1>3, <2>4 DEF ZeroHeard
<1>4. CASE ~Unheard /\ bit \in 1..6
  <2>1. rx["aprs"].level = level
    BY <1>1, <1>4 DEF LevelInv
  <2>2. (bit \notin {0, 7}) = TRUE
    BY <1>4
  <2>3. H!Put(TRUE)
    BY <1>1, <2>2
  <2>4. OneHeard
    BY <1>1, <2>1, <2>3, PutHears
  <2> QED
    BY <1>4, <2>4 DEF OneHeard
<1> QED
  BY <1>1, <1>2, <1>3, <1>4

\* The window takes the flag, and is one when it is complete.
LEMMA FlagInWindow ==
  ASSUME PacketInv, H!FlagBit
  PROVE  /\ FlagInv'
         /\ ~Deaf /\ bit = 7 => rx'["aprs"].window = H!Flag
         /\ phase = "tail" /\ bit = 0 => rx'["aprs"].window # H!Flag
<1>1. FlagSent /\ bit \in 0..7 /\ WireType /\ FlagInv /\ AprsInv /\ SenderInv
  BY FlagSends DEF PacketInv
<1> DEFINE w == rx["aprs"].window
           v == rx'["aprs"].window
<1>2. w \in 0..255 /\ flags \in Nat /\ ones \in Nat
  BY <1>1, WireFacts DEF WireType
<1>3. (OneHeard => v = Shift(w, TRUE)) /\ (ZeroHeard => v = Shift(w, FALSE))
  BY DEF OneHeard, ZeroHeard
<1>4. Unheard <=> Deaf /\ bit = 0
  BY <1>1 DEF Unheard, Deaf, FlagSent
<1>5. ASSUME ~Deaf, bit = 7
      PROVE  v = H!Flag
  <2>1. Ends(w, bit - 1) /\ bit - 1 = 6 /\ ZeroHeard
    BY <1>1, <1>4, <1>5, FlagHeard DEF FlagInv, FlagSent
  <2>2. Ends(w, 6) /\ 6 \in 0..6
    BY <2>1
  <2>3. Shift(w, FALSE) = H!Flag <=> 6 = 6
    BY <1>2, <2>2, Runs
  <2> QED
    BY <1>3, <2>1, <2>3
<1>6. ASSUME phase = "tail", bit = 0
      PROVE  v # H!Flag
  <2>1. ZeroHeard /\ v = Shift(w, FALSE)
    BY <1>3, <1>4, <1>6, FlagHeard DEF Deaf
  <2>2. CASE flags = wire.tail
    <3>1. Ends(w, ones) /\ ones \in 0..6 /\ ones # 6
      BY <1>1, <1>2, <1>6, <2>2 DEF AprsInv, SenderInv
    <3> QED
      BY <1>2, <2>1, <3>1, Runs
  <2>3. CASE flags # wire.tail
    <3>1. w = H!Flag
      BY <1>1, <1>2, <1>6, <2>3, WireFacts DEF AprsInv, SenderInv
    <3>2. v = 252
      BY <2>1, <3>1, FirstBits
    <3> QED
      BY <3>2 DEF H!Flag
  <2> QED
    BY <2>2, <2>3
<1>7. FlagInv'
  <2> SUFFICES ASSUME phase' \in {"lead", "tail"}, ~(Deaf'), bit' > 0
               PROVE  Ends(v, bit' - 1)
    BY DEF FlagInv
  <2>1. bit < 7 /\ bit' = bit + 1 /\ phase' = phase /\ flags' = flags /\ wire' = wire /\ frames' = frames
    BY <1>1 DEF FlagSent
  <2>2. ~Deaf /\ bit' - 1 = bit
    BY <1>1, <2>1 DEF Deaf
  <2>3. CASE bit = 0
    <3>1. v = Shift(w, FALSE) /\ Ends(Shift(w, FALSE), 0)
      BY <1>2, <1>3, <1>4, <2>2, <2>3, FlagHeard, ZeroEnds
    <3> QED
      BY <2>2, <2>3, <3>1
  <2>4. CASE bit > 0
    <3>1. Ends(w, bit - 1) /\ bit - 1 \in 0..6 /\ bit - 1 < 6 /\ (bit - 1) + 1 = bit
      BY <1>1, <2>1, <2>2, <2>4 DEF FlagInv, FlagSent
    <3>2. v = Shift(w, TRUE)
      <4>1. bit \in 1..6
        BY <1>1, <2>1, <2>4
      <4> QED
        BY <1>3, <4>1, FlagHeard
    <3>3. Ends(Shift(w, TRUE), (bit - 1) + 1)
      BY <1>2, <3>1, Runs
    <3> QED
      BY <2>2, <3>1, <3>2, <3>3
  <2> QED
    BY <1>1, <2>3, <2>4
<1> QED
  BY <1>5, <1>6, <1>7

\* What is put at the end of a sequence leaves the rest of it alone.
LEMMA Appended ==
  ASSUME NEW q \in Seq(BOOLEAN), NEW b \in BOOLEAN, NEW m \in Nat, NEW k \in Nat, Len(q) = m + k
  PROVE  Len(Append(q, b)) = m + k + 1 /\ \A i \in 1..m : Append(q, b)[i] = q[i]
<1>1. Len(Append(q, b)) = m + k + 1
  OBVIOUS
<1>2. ASSUME NEW i \in 1..m
      PROVE  Append(q, b)[i] = q[i]
  <2>1. i \in 1..Len(q)
    OBVIOUS
  <2> QED
    BY <2>1
<1> QED
  BY <1>1, <1>2

\* A receiver that has a frame and a part of the flag after it takes one bit more of the flag.
LEMMA TailGrows ==
  ASSUME NEW s \in RxState, NEW n, WireType, SenderInv, FlagSent, phase = "tail",
         bit \in 0..6, InTail(s),
         bit = 0 => TakesZero(s, n), bit > 0 => TakesOne(s, n)
  PROVE  n.inFrame /\ n.ones = bit /\ Len(n.bits) = Len(payload) + bit + 1
         /\ \A i \in 1..Len(payload) : n.bits[i] = payload[i]
<1>1. s.bits \in Seq(BOOLEAN) /\ Len(payload) \in Nat /\ bit \in Nat
      /\ TRUE \in BOOLEAN /\ FALSE \in BOOLEAN
  <2>1. Len(payload) \in Nat
    BY WireFacts
  <2>2. s.bits \in Seq(BOOLEAN)
    BY DEF RxState
  <2> QED
    BY <2>1, <2>2
<1>2. CASE bit = 0
  <2>1. n.inFrame /\ n.ones = bit /\ n.bits = Append(s.bits, FALSE)
    BY <1>2 DEF TakesZero
  <2>2. Len(s.bits) = Len(payload) + bit /\ \A i \in 1..Len(payload) : s.bits[i] = payload[i]
    BY DEF InTail
  <2>3. Len(Append(s.bits, FALSE)) = Len(payload) + bit + 1
        /\ \A i \in 1..Len(payload) : Append(s.bits, FALSE)[i] = s.bits[i]
    BY <1>1, <2>2, Appended
  <2> QED
    BY <2>1, <2>2, <2>3
<1>3. CASE bit > 0
  <2>1. n.inFrame /\ n.ones = s.ones + 1 /\ n.bits = Append(s.bits, TRUE)
    BY <1>3 DEF TakesOne
  <2>2. s.ones = bit - 1
    BY <1>3 DEF InTail
  <2>3. n.ones = bit
    BY <2>1, <2>2
  <2>4. Len(s.bits) = Len(payload) + bit /\ \A i \in 1..Len(payload) : s.bits[i] = payload[i]
    BY DEF InTail
  <2>5. Len(Append(s.bits, TRUE)) = Len(payload) + bit + 1
        /\ \A i \in 1..Len(payload) : Append(s.bits, TRUE)[i] = s.bits[i]
    BY <1>1, <2>4, Appended
  <2> QED
    BY <2>1, <2>3, <2>4, <2>5
<1> QED
  BY <1>2, <1>3

\* Without the flag what it has is the frame.
LEMMA TailIsPayload ==
  ASSUME NEW s \in RxState, WireType, Len(payload) >= MinBits, bit = 7, InTail(s)
  PROVE  Len(s.bits) >= 7 /\ s.ones = 6 /\ H!FlagTail(s.bits) = payload /\ Counted(H!FlagTail(s.bits)) = 1
<1>1. /\ s.bits \in Seq(BOOLEAN) /\ payload \in Seq(BOOLEAN) /\ Len(payload) \in Nat
      /\ MinBits \in Nat /\ MinBits > 0
  BY WireFacts DEF RxState, WireType
<1>2. Len(s.bits) = Len(payload) + 7 /\ \A i \in 1..Len(payload) : s.bits[i] = payload[i]
  BY DEF InTail
<1>3. H!FlagTail(s.bits) = SubSeq(s.bits, 1, Len(payload))
  BY <1>1, <1>2 DEF H!FlagTail, H!Cut
<1>4. SubSeq(s.bits, 1, Len(payload)) = payload
  <2>1. SubSeq(s.bits, 1, Len(payload)) \in Seq(BOOLEAN) /\ Len(SubSeq(s.bits, 1, Len(payload))) = Len(payload)
    BY <1>1, <1>2
  <2>2. \A i \in 1..Len(payload) : SubSeq(s.bits, 1, Len(payload))[i] = payload[i]
    BY <1>1, <1>2
  <2> QED
    BY <1>1, <2>1, <2>2, SeqEqual
<1>5. Counted(payload) = 1
  BY <1>1, NothingCounted
<1>6. s.ones = 6
  BY DEF InTail
<1>7. H!FlagTail(s.bits) = payload
  BY <1>3, <1>4
<1>8. Len(s.bits) >= 7
  BY <1>1, <1>2
<1>9. Counted(H!FlagTail(s.bits)) = 1
  BY <1>5, <1>7
<1> QED
  BY <1>6, <1>7, <1>8, <1>9

\* The flags before a frame: the last one begins it.
LEMMA LeadKeepsAprs ==
  ASSUME PacketInv, H!FlagBit, phase = "lead"
  PROVE  AprsInv'
<1>1. FlagSent /\ bit \in 0..7 /\ WireType /\ SenderInv /\ AprsInv
  BY FlagSends DEF PacketInv
<1>2. payload = <<>> /\ flags \in 1..wire.lead /\ frames' = frames /\ payload' = <<>> /\ ones' = 0
  BY <1>1 DEF SenderInv, FlagSent
<1>3. got'["aprs"] = got["aprs"]
  <2>1. OneHeard \/ ZeroHeard
    BY <1>1, FlagHeard
  <2> QED
    BY <1>2, <2>1 DEF OneHeard, ZeroHeard, FlagToAprs, ZeroToAprs
<1>4. CASE bit < 7 \/ flags > 1
  <2>1. phase' = "lead"
    BY <1>1, <1>4 DEF FlagSent
  <2> QED
    BY <1>1, <1>2, <1>3, <2>1 DEF AprsInv
<1>5. CASE bit = 7 /\ flags = 1
  <2>1. phase' = "data" /\ ~Deaf /\ ~Unheard
    BY <1>1, <1>5, WireFacts DEF FlagSent, Deaf, Unheard
  <2>2. rx'["aprs"].window = H!Flag /\ NewFrame(rx'["aprs"])
    BY <1>5, <2>1, FlagHeard, FlagInWindow DEF ZeroHeard, FlagToAprs
  <2>3. Ends(H!Flag, 0)
    BY DEF Ends, H!Flag
  <2>4. InData(rx["aprs"])' /\ Ends(rx'["aprs"].window, ones')
    BY <1>2, <2>2, <2>3 DEF InData, NewFrame
  <2> QED
    BY <1>1, <1>2, <1>3, <2>1, <2>4 DEF AprsInv
<1> QED
  BY <1>1, <1>2, <1>4, <1>5

\* The flag after a frame: it gives the frame.
LEMMA TailKeepsAprs ==
  ASSUME PacketInv, H!FlagBit, phase = "tail", flags = wire.tail
  PROVE  AprsInv'
<1>1. FlagSent /\ bit \in 0..7 /\ WireType /\ SenderInv /\ AprsInv /\ ~Deaf /\ ~Unheard
  BY FlagSends DEF PacketInv, Deaf, Unheard
<1>2. InTail(rx["aprs"]) /\ got["aprs"] = frames /\ Len(payload) >= MinBits /\ ones < 5 /\ ones \in Nat
  BY <1>1 DEF AprsInv, SenderInv, WireType
<1>3. rx["aprs"] \in RxState /\ got["aprs"] \in Nat
  BY <1>1, WireFacts
<1>4. CASE bit < 7
  <2>1. /\ phase' = "tail" /\ bit' = bit + 1 /\ flags' = flags /\ wire' = wire
        /\ frames' = frames /\ payload' = payload
    BY <1>1, <1>4 DEF FlagSent
  <2>2. /\ bit = 0 => TakesZero(rx["aprs"], rx'["aprs"])
        /\ bit > 0 => TakesOne(rx["aprs"], rx'["aprs"])
        /\ got'["aprs"] = got["aprs"]
    <3>1. CASE bit = 0
      <4>1. ZeroHeard /\ rx'["aprs"].window # H!Flag
        BY <1>1, <3>1, FlagHeard, FlagInWindow
      <4>2. rx["aprs"].inFrame /\ rx["aprs"].ones # 5
        BY <1>2, <3>1 DEF InTail
      <4> QED
        BY <3>1, <4>1, <4>2 DEF ZeroHeard, ZeroToAprs
    <3>2. CASE bit > 0
      <4>1. OneHeard
        BY <1>1, <1>4, <3>2, FlagHeard
      <4>2. rx["aprs"].inFrame /\ rx["aprs"].ones < 6
        BY <1>1, <1>2, <1>4, <3>2 DEF InTail
      <4> QED
        BY <3>2, <4>1, <4>2 DEF OneHeard
    <3> QED
      BY <1>1, <3>1, <3>2
  <2>3. /\ rx'["aprs"].inFrame /\ rx'["aprs"].ones = bit
        /\ Len(rx'["aprs"].bits) = Len(payload) + bit + 1
        /\ \A i \in 1..Len(payload) : rx'["aprs"].bits[i] = payload[i]
    <3>1. bit \in 0..6
      BY <1>1, <1>4
    <3> QED
      BY <1>1, <1>2, <1>3, <2>2, <3>1, TailGrows
  <2>4. InTail(rx["aprs"])' /\ bit' > 0
    <3>1. bit' > 0 /\ bit' - 1 = bit /\ Len(payload) + bit + 1 = Len(payload) + bit'
      BY <1>1, <2>1, WireFacts
    <3> QED
      BY <2>1, <2>3, <3>1 DEF InTail
  <2>5. ~(flags' < wire'.tail) /\ flags' = wire'.tail
    BY <1>1, <2>1, WireFacts
  <2>6. got'["aprs"] = frames' /\ ~(bit' = 0)
    BY <1>2, <2>1, <2>2, <2>4
  <2> QED
    BY <2>1, <2>4, <2>5, <2>6 DEF AprsInv
<1>5. CASE bit = 7
  <2>1. /\ bit' = 0 /\ frames' = frames + 1 /\ flags' = flags - 1 /\ wire' = wire /\ ones' = 0
        /\ phase' \in {"tail", "gap"} /\ flags \in Nat
    BY <1>1, <1>5, WireFacts DEF FlagSent, WireType
  <2>2. /\ rx'["aprs"].window = H!Flag /\ NewFrame(rx'["aprs"])
        /\ FlagToAprs(rx["aprs"], rx'["aprs"])
    BY <1>1, <1>5, FlagHeard, FlagInWindow DEF ZeroHeard, FlagToAprs
  <2>3. got'["aprs"] = got["aprs"] + 1
    <3>1. Len(rx["aprs"].bits) >= 7 /\ Counted(H!FlagTail(rx["aprs"].bits)) = 1
      BY <1>1, <1>2, <1>3, <1>5, TailIsPayload
    <3>2. rx["aprs"].inFrame
      BY <1>2 DEF InTail
    <3> QED
      BY <2>2, <3>1, <3>2 DEF FlagToAprs
  <2>4. Len(rx'["aprs"].bits) = 0
    BY <2>2 DEF NewFrame
  <2>5. flags' # wire'.tail
    BY <2>1
  <2>6. got'["aprs"] = frames'
    BY <1>2, <2>1, <2>3
  <2> QED
    BY <2>1, <2>2, <2>4, <2>5, <2>6 DEF AprsInv
<1> QED
  BY <1>1, <1>4, <1>5

\* Further flags after a frame: nothing comes of them.
LEMMA LaterTailKeepsAprs ==
  ASSUME PacketInv, H!FlagBit, phase = "tail", flags # wire.tail
  PROVE  AprsInv'
<1>1. FlagSent /\ bit \in 0..7 /\ WireType /\ SenderInv /\ AprsInv /\ ~Deaf /\ ~Unheard
  BY FlagSends DEF PacketInv, Deaf, Unheard
<1>2. /\ flags \in 1..wire.tail /\ flags < wire.tail /\ frames' = frames
      /\ MinBits > 0 /\ MinBits \in Nat /\ Len(rx["aprs"].bits) \in Nat
      /\ got["aprs"] = frames /\ Len(rx["aprs"].bits) <= bit
      /\ bit = 0 => NewFrame(rx["aprs"])
  BY <1>1, WireFacts DEF AprsInv, SenderInv, FlagSent
<1>3. CASE bit < 7
  <2>1. /\ phase' = "tail" /\ bit' = bit + 1 /\ flags' = flags /\ wire' = wire
    BY <1>1, <1>3 DEF FlagSent
  <2>2. got'["aprs"] = got["aprs"] /\ Len(rx'["aprs"].bits) <= Len(rx["aprs"].bits) + 1
    <3>1. CASE bit = 0
      <4>1. ZeroHeard /\ rx'["aprs"].window # H!Flag
        BY <1>1, <3>1, FlagHeard, FlagInWindow
      <4> QED
        BY <4>1 DEF ZeroHeard, ZeroToAprs
    <3>2. CASE bit > 0
      <4>1. OneHeard
        BY <1>1, <1>3, <3>2, FlagHeard
      <4> QED
        BY <4>1 DEF OneHeard
    <3> QED
      BY <1>1, <3>1, <3>2
  <2>3. Len(rx'["aprs"].bits) <= bit'
    <3>1. Len(rx'["aprs"].bits) \in Nat
      BY FlagHeard DEF AfterPut, RxState, H!Receivers
    <3> QED
      BY <1>1, <1>2, <2>1, <2>2, <3>1
  <2>4. bit' > 0 /\ flags' # wire'.tail
    BY <1>1, <1>2, <2>1, WireFacts
  <2> QED
    BY <1>2, <2>1, <2>2, <2>3, <2>4 DEF AprsInv
<1>4. CASE bit = 7
  <2>1. /\ bit' = 0 /\ flags' = flags - 1 /\ wire' = wire /\ ones' = 0 /\ phase' \in {"tail", "gap"}
    BY <1>1, <1>2, <1>4 DEF FlagSent
  <2>2. /\ rx'["aprs"].window = H!Flag /\ NewFrame(rx'["aprs"])
        /\ FlagToAprs(rx["aprs"], rx'["aprs"])
    BY <1>1, <1>4, FlagHeard, FlagInWindow DEF ZeroHeard, FlagToAprs
  <2>3. got'["aprs"] = got["aprs"]
    <3>1. Len(rx["aprs"].bits) < MinBits + 7
      BY <1>2, <1>4
    <3> QED
      BY <2>2, <3>1 DEF FlagToAprs
  <2>4. Len(rx'["aprs"].bits) = 0
    BY <2>2 DEF NewFrame
  <2>5. flags' # wire'.tail
    BY <1>1, <1>2, <2>1, WireFacts
  <2> QED
    BY <1>2, <2>1, <2>2, <2>3, <2>4, <2>5 DEF AprsInv
<1> QED
  BY <1>1, <1>3, <1>4

\* The ais receiver: a flag before a frame begins it, the one after it ends it.
LEMMA FlagKeepsAis ==
  ASSUME PacketInv, H!FlagBit
  PROVE  AisInv'
<1>1. FlagSent /\ bit \in 0..7 /\ WireType /\ SenderInv /\ AisInv
  BY FlagSends DEF PacketInv
<1> SUFFICES ASSUME H!Standard
             PROVE  AisInv'
  BY <1>1 DEF AisInv, H!Standard, FlagSent
<1>2. wire.lead = 1 /\ wire.tail = 1 /\ flags = 1 /\ flags = wire.tail /\ got["ais"] = frames /\ ~Deaf /\ ~Unheard
  BY <1>1, WireFacts DEF H!Standard, SenderInv, AisInv, Deaf, Unheard, FlagSent
<1>3. rx["ais"] \in RxState /\ rx["aprs"].window \in 0..255 /\ got["ais"] \in Nat
  BY <1>1, WireFacts
<1>4. CASE phase = "lead" /\ bit < 7
  <2>1. ~rx["ais"].inFrame /\ phase' = "lead" /\ bit' > 0 /\ frames' = frames
    BY <1>1, <1>4 DEF AisInv, FlagSent
  <2>2. CASE bit = 0
    <3>1. rx["aprs"].window % 128 # 63 /\ ZeroHeard
      BY <1>1, <1>2, <1>4, <2>2, FlagHeard DEF AisInv
    <3>2. rx'["aprs"].window = (2 * rx["aprs"].window) % 256
      <4>1. rx'["aprs"].window = Shift(rx["aprs"].window, FALSE)
        BY <3>1 DEF ZeroHeard
      <4>2. Shift(rx["aprs"].window, FALSE) = (2 * rx["aprs"].window) % 256
        BY <1>3 DEF Shift
      <4> QED
        BY <4>1, <4>2
    <3>3. rx'["aprs"].window # H!Flag
      BY <1>3, <3>1, <3>2 DEF H!Flag
    <3>4. ~rx'["ais"].inFrame /\ got'["ais"] = got["ais"]
      BY <2>1, <3>1, <3>3 DEF ZeroHeard, ZeroToAis
    <3> QED
      BY <1>2, <2>1, <3>4 DEF AisInv
  <2>3. CASE bit > 0
    <3>1. OneHeard
      BY <1>1, <1>4, <2>3, FlagHeard
    <3>2. ~rx'["ais"].inFrame /\ got'["ais"] = got["ais"]
      BY <2>1, <3>1 DEF OneHeard
    <3> QED
      BY <1>2, <2>1, <3>2 DEF AisInv
  <2> QED
    BY <1>1, <2>2, <2>3
<1>5. CASE phase = "lead" /\ bit = 7
  <2>1. ~rx["ais"].inFrame /\ phase' = "data" /\ frames' = frames /\ payload' = <<>> /\ ones' = 0
    BY <1>1, <1>2, <1>5 DEF AisInv, FlagSent, SenderInv
  <2>2. ZeroHeard /\ rx'["aprs"].window = H!Flag
    BY <1>2, <1>5, FlagHeard, FlagInWindow
  <2>3. NewFrame(rx'["ais"]) /\ got'["ais"] = got["ais"]
    BY <2>1, <2>2 DEF ZeroHeard, ZeroToAis
  <2>4. InData(rx["ais"])'
    BY <2>1, <2>3 DEF InData, NewFrame
  <2> QED
    BY <1>2, <2>1, <2>3, <2>4 DEF AisInv
<1>6. CASE phase = "tail" /\ bit < 7
  <2>1. InTail(rx["ais"]) /\ ones < 5 /\ ones \in Nat
    BY <1>1, <1>6 DEF AisInv, SenderInv, WireType
  <2>2. phase' = "tail" /\ bit' = bit + 1 /\ frames' = frames /\ payload' = payload
    BY <1>1, <1>6 DEF FlagSent
  <2>3. /\ bit = 0 => TakesZero(rx["ais"], rx'["ais"])
        /\ bit > 0 => TakesOne(rx["ais"], rx'["ais"])
        /\ got'["ais"] = got["ais"]
    <3>1. CASE bit = 0
      <4>1. ZeroHeard
        BY <1>2, <3>1, FlagHeard
      <4>2. rx["ais"].inFrame /\ rx["ais"].ones < 5
        BY <2>1, <3>1 DEF InTail
      <4> QED
        BY <3>1, <4>1, <4>2 DEF ZeroHeard, ZeroToAis
    <3>2. CASE bit > 0
      <4>1. OneHeard
        BY <1>1, <1>6, <3>2, FlagHeard
      <4>2. rx["ais"].inFrame /\ rx["ais"].ones < 6
        BY <1>1, <1>6, <2>1, <3>2 DEF InTail
      <4> QED
        BY <3>2, <4>1, <4>2 DEF OneHeard
    <3> QED
      BY <1>1, <3>1, <3>2
  <2>4. /\ rx'["ais"].inFrame /\ rx'["ais"].ones = bit
        /\ Len(rx'["ais"].bits) = Len(payload) + bit + 1
        /\ \A i \in 1..Len(payload) : rx'["ais"].bits[i] = payload[i]
    <3>1. bit \in 0..6
      BY <1>1, <1>6
    <3> QED
      BY <1>1, <1>3, <1>6, <2>1, <2>3, <3>1, TailGrows
  <2>5. InTail(rx["ais"])'
    <3>1. bit' > 0 /\ bit' - 1 = bit /\ Len(payload) + bit + 1 = Len(payload) + bit'
      BY <1>1, <2>2, WireFacts
    <3> QED
      BY <2>2, <2>4, <3>1 DEF InTail
  <2> QED
    BY <1>2, <2>2, <2>3, <2>5 DEF AisInv
<1>7. CASE phase = "tail" /\ bit = 7
  <2>1. InTail(rx["ais"]) /\ Len(payload) >= MinBits
    BY <1>1, <1>7 DEF AisInv, SenderInv
  <2>2. phase' = "gap" /\ frames' = frames + 1
    BY <1>1, <1>2, <1>7 DEF FlagSent
  <2>3. rx["ais"].ones = 6 /\ Counted(H!FlagTail(rx["ais"].bits)) = 1 /\ rx["ais"].inFrame
    BY <1>1, <1>3, <1>7, <2>1, TailIsPayload DEF InTail
  <2>4. ZeroHeard
    BY <1>2, <1>7, FlagHeard
  <2>5. ~rx'["ais"].inFrame /\ got'["ais"] = got["ais"] + 1
    BY <2>3, <2>4 DEF ZeroHeard, ZeroToAis
  <2> QED
    BY <1>2, <2>2, <2>5 DEF AisInv
<1> QED
  BY <1>1, <1>4, <1>5, <1>6, <1>7 DEF FlagSent

\* A bit of a flag.
LEMMA FlagBitKeeps ==
  ASSUME PacketInv, H!FlagBit
  PROVE  PacketInv'
<1>1. /\ FlagSent /\ SenderInv' /\ GapInv' /\ ~(Unheard') /\ AfterPut
      /\ phase' \in {"gap", "lead", "data", "tail"}
      /\ bit' \in Nat /\ flags' \in Nat /\ frames' \in Nat
  BY FlagSends, FlagHeard
<1>2. WireType
  BY DEF PacketInv
<1>3. WireType'
  <2>1. ones' \in 0..5 /\ payload' \in Seq(BOOLEAN) /\ wire' = wire
    BY <1>1, <1>2 DEF FlagSent, WireType
  <2> QED
    BY <1>1, <1>2, <2>1, PutTypes
<1>4. LevelInv'
  BY <1>1 DEF LevelInv, AfterPut
<1>5. FlagInv'
  BY FlagInWindow
<1>6. AprsInv'
  BY <1>1, LeadKeepsAprs, TailKeepsAprs, LaterTailKeepsAprs DEF FlagSent
<1>7. AisInv'
  BY FlagKeepsAis
<1> QED
  BY <1>1, <1>3, <1>4, <1>5, <1>6, <1>7 DEF PacketInv

\* Every step keeps it.
LEMMA PacketStep ==
  ASSUME PacketInv, [H!Next]_packet
  PROVE  PacketInv'
<1>1. CASE H!Next
  BY <1>1, GapBitKeeps, GapEndsKeeps, FlagBitKeeps, ShareFlagKeeps, DataBitKeeps, StuffBitKeeps,
     DataEndsKeeps DEF H!Next
<1>2. CASE UNCHANGED packet
  <2>1. /\ wire' = wire /\ phase' = phase /\ bit' = bit /\ flags' = flags /\ payload' = payload
        /\ ones' = ones /\ level' = level /\ rx' = rx /\ frames' = frames /\ got' = got
    BY <1>2 DEF packet
  <2>2. WireType' /\ LevelInv' /\ SenderInv' /\ FlagInv'
    BY <2>1 DEF PacketInv, WireType, LevelInv, SenderInv, FlagInv, Unheard, Deaf
  <2>3. GapInv' /\ AprsInv' /\ AisInv'
    BY <2>1 DEF PacketInv, GapInv, AprsInv, AisInv, InData, InTail, H!Standard, NewFrame
  <2> QED
    BY <2>2, <2>3 DEF PacketInv
<1> QED
  BY <1>1, <1>2

\* The aprs receiver delivers every frame once and nothing else; the ais receiver does for the
\* bursts of the standard.
THEOREM PacketsDelivered == ReceiversSpec => []FramesDelivered
<1>1. ReceiversInit => PacketInv
  <2> SUFFICES ASSUME ReceiversInit
               PROVE  PacketInv
    OBVIOUS
  <2> DEFINE fresh == [level |-> FALSE, window |-> 0, inFrame |-> FALSE, ones |-> 0, bits |-> <<>>]
  <2>1. /\ wire \in Wires /\ phase = "gap" /\ bit = 0 /\ flags = 0 /\ payload = <<>> /\ ones = 0
        /\ level = TRUE /\ rx = [r \in H!Receivers |-> fresh] /\ frames = 0
        /\ got = [r \in H!Receivers |-> 0]
    BY DEF ReceiversInit, H!Init
  <2>2. fresh \in RxState
    <3>1. <<>> \in Seq(BOOLEAN) /\ 0 \in 0..255 /\ 0 \in Nat
      OBVIOUS
    <3> QED
      BY <3>1 DEF RxState
  <2>3. fresh.level = FALSE /\ fresh.window = 0 /\ ~fresh.inFrame
    OBVIOUS
  <2> HIDE DEF fresh
  <2>4. rx["aprs"] = fresh /\ rx["ais"] = fresh /\ got["aprs"] = 0 /\ got["ais"] = 0
    BY <2>1 DEF H!Receivers
  <2>5. WireType
    <3>1. rx \in [H!Receivers -> RxState] /\ got \in [H!Receivers -> Nat] /\ payload \in Seq(BOOLEAN)
      BY <2>1, <2>2
    <3> QED
      BY <2>1, <2>4, <3>1 DEF WireType
  <2>6. wire.gapBits \in Nat
    BY <2>5, WireFacts
  <2>7. LevelInv
    <3>1. Unheard /\ level = TRUE /\ rx["aprs"].level = FALSE /\ rx["aprs"].window = 0
      BY <2>1, <2>3, <2>4 DEF Unheard
    <3> QED
      BY <3>1 DEF LevelInv
  <2>9. SenderInv /\ FlagInv /\ GapInv
    BY <2>1, <2>6 DEF SenderInv, FlagInv, GapInv
  <2>8. AprsInv /\ AisInv
    BY <2>1, <2>3, <2>4 DEF AprsInv, AisInv
  <2> QED
    BY <2>5, <2>7, <2>8, <2>9 DEF PacketInv
<1>2. PacketInv /\ [ReceiversNext]_all => PacketInv'
  <2>1. [ReceiversNext]_all => [H!Next]_packet
    BY DEF ReceiversNext, all
  <2> QED
    BY <2>1, PacketStep
<1>3. PacketInv => FramesDelivered
  BY DEF PacketInv, AprsInv, AisInv, FramesDelivered, H!FramesDelivered
<1> QED
  BY <1>1, <1>2, <1>3, PTL DEF ReceiversSpec
=============================================================================
