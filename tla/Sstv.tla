-------------------------------- MODULE Sstv --------------------------------
(***************************************************************************)
(* The SSTV receiver (server/src/sstv, run_sstv of radio/mod.rs): a scan for   *)
(* the leader and the start bit, the mode header (VIS), the picture line by     *)
(* line, the samples it holds meanwhile, and the canvas the rows are painted    *)
(* on.  The rows of a feed() are painted on `sheet` as they are decoded, and      *)
(* the canvas is what is on it when feed() returns.                             *)
(*                                                                             *)
(* A sample is a tick of 15 ms with one tone; `script` is what is on the air.   *)
(* The samples held are those from t0 up to end.  Tones are exact: filters,     *)
(* noise, slant and the colours of a row are left out, and so is that grey       *)
(* looks like the leader.  The blocks a transmission is cut into are any.        *)
(***************************************************************************)
EXTENDS Integers, SequencesExt

CONSTANTS Scripts,     \* [tones, pictures: where each and its first data bit begin, its mode]
          Modes,       \* [code, line, rows, per]: VIS code, ticks and rows per line, height
          Forced,      \* manual modes, NoMode for auto
          NoMode,
          NBits,       \* bits of a VIS code (8)
          Bit,         \* ticks of a start, data, parity and stop bit (30 ms)
          LeaderMin,   \* ticks of leader that latch saw_leader (100 ms)
          StartMin,    \* ticks of 1200 Hz that are a start bit (16 ms)
          QuietMax,    \* ticks of neither that forget the leader (400 ms)
          Hold,        \* ticks kept while searching (2 s)
          HoldVis,     \* ticks kept before the data bits while a header is read (100 ms)
          Margin,      \* ticks wanted beyond a line (24 ms)
          MaxBlock,    \* bound of the model: ticks in one block
          MaxRestarts  \* bound of the model

ASSUME TimesAssumption ==
    /\ {NBits, Bit, LeaderMin, StartMin, QuietMax, Hold, HoldVis, Margin} \subseteq Nat
    /\ 0 < LeaderMin /\ 0 < StartMin /\ StartMin <= Bit /\ Bit < Hold /\ Bit <= HoldVis
    /\ 0 < QuietMax
    /\ NoMode \notin Modes
    /\ \A m \in Modes : m.line \in Nat /\ {m.rows, m.per} \subseteq Nat \ {0} /\ m.rows % m.per = 0

\* No mode has the code of all ones, which a tone longer than a header reads as, and more
\* is held than a header takes.
VisAssumption ==
    /\ (NBits + 1) * Bit <= Hold
    /\ \A m \in Modes : m.code # 0..NBits - 1

\* What is on the air: a picture's lines come after its data bits, parity and stop bit.
Air(s, i) == s.tones[i + 1]
Count(p) == p.mode.rows \div p.mode.per
LineAt(p, c) == p.bits + (NBits + 2) * Bit + c * p.mode.line
Over(p) == LineAt(p, Count(p))

\* The bits of a header whose data begins at b, and whether it is that of the mode m.
OneAt(s, b, i) == Air(s, b + i * Bit + Bit \div 2).hz \in {"one", "sync"}
CodeAt(s, b) == {i \in 0..NBits - 1 : OneAt(s, b, i)}
Bears(s, b, m) ==
    /\ m.code = CodeAt(s, b)
    /\ (Cardinality(m.code) + IF OneAt(s, b, NBits) THEN 1 ELSE 0) % 2 = 0

\* The k-th picture is sent as encode() sends one: leader, break and leader; the start
\* bit; a header of its mode; lines, each after a tick of sync and of a content of its own.
OnAir(s, k) ==
    LET p == s.pictures[k]
        first == p.bits - Bit
    IN /\ p.mode \in Modes /\ p.mode.line > 1
       /\ {p.start, p.bits} \subseteq Nat /\ p.start + LeaderMin < first
       /\ \A i \in p.start..p.start + LeaderMin - 1 : Air(s, i).hz = "leader"
       /\ \A i \in p.start..first - 1 : Air(s, i).hz \in {"leader", "sync"}
       /\ Air(s, first - 1).hz = "leader" /\ Air(s, p.bits).hz # "sync"
       /\ \A i \in first..p.bits - 1 : Air(s, i).hz = "sync"
       /\ Bears(s, p.bits, p.mode)
       /\ \A c \in 0..Count(p) - 1 :
            /\ Air(s, LineAt(p, c)).hz = "sync"
            /\ \A i \in 1..p.mode.line - 1 :
                 Air(s, LineAt(p, c) + i).hz # "sync" /\ Air(s, LineAt(p, c) + i).of = <<k, c>>

\* 1200 Hz from i on to j, long enough for a start bit.
LongSync(s, i, j) ==
    /\ i + StartMin <= j /\ Air(s, j).hz # "sync" /\ Air(s, i - 1).hz # "sync"
    /\ \A x \in i..j - 1 : Air(s, x).hz = "sync"

\* There is no leader between a tone as long as a start bit and j.
Unled(s, j) ==
    \E x, y \in 1..Len(s.tones) - 1 :
      /\ LongSync(s, x, y) /\ y < j
      /\ \A z \in y..j - 1 : Air(s, z).hz # "leader"

\* Pictures are sent as they should be, the last one after the others and heard to its
\* end.  What else sounds like a start bit has no leader before it, or begins no header
\* and would be over when the last picture begins.
Clear(s) ==
    /\ {Len(s.pictures), Len(s.tones)} \subseteq Nat /\ Len(s.pictures) > 0
    /\ \A k \in 1..Len(s.pictures) :
         /\ OnAir(s, k)
         /\ k < Len(s.pictures) => Over(s.pictures[k]) <= Last(s.pictures).start
    /\ Over(Last(s.pictures)) + Margin < Len(s.tones)
    /\ \A i, j \in 1..Len(s.tones) - 1 :
         LongSync(s, i, j) =>
           \/ \E k \in 1..Len(s.pictures) : j = s.pictures[k].bits
           \/ Unled(s, j)
           \/ /\ i + (NBits + 3) * Bit <= Last(s.pictures).start
              /\ \A m \in Modes : ~Bears(s, i + Bit, m)

\* No two modes have a code in common.
ScriptsAssumption ==
    /\ \A m, n \in Modes : m.code = n.code => m = n
    /\ \A s \in Scripts : Clear(s)

VARIABLES script, manual,
          held,        \* t0 and end: the samples held
          run,         \* the scan: cursor, run lengths, saw_leader, onset of the 1200 Hz
          state,       \* search, a header being read, a frame being painted
          busy,        \* inside feed()
          sheet,       \* the canvas with the rows decoded by this feed()
          canvas,
          since,       \* history: where on the air the pipeline began
          restarts

vars == <<script, manual, held, run, state, busy, sheet, canvas, since, restarts>>

Idle == [leader |-> 0, start |-> 0, quiet |-> 0, saw |-> FALSE]
Scan(cur, runs, onset) ==
    [cur |-> cur, leader |-> runs.leader, start |-> runs.start, quiet |-> runs.quiet,
     saw |-> runs.saw, onset |-> onset]
Search == [kind |-> "search", bit0 |-> 0, mode |-> NoMode, line |-> 0, rows |-> 0]
Vis(bit0) == [Search EXCEPT !.kind = "vis", !.bit0 = bit0]
Frame(mode, line) == [Search EXCEPT !.kind = "frame", !.mode = mode, !.line = line]

\* Image::new: a canvas of some geometry without a row.
Blank == [rows |-> 0, px |-> <<>>]
Black == <<0, 0>>

Fresh(pos) ==
    /\ held' = [t0 |-> pos, end |-> pos] /\ since' = pos
    /\ run' = Scan(pos, Idle, pos) /\ state' = Search
    /\ busy' = FALSE /\ sheet' = Blank /\ canvas' = Blank

Init ==
    /\ script \in Scripts /\ manual \in Forced
    /\ held = [t0 |-> 0, end |-> 0] /\ since = 0
    /\ run = Scan(0, Idle, 0) /\ state = Search
    /\ busy = FALSE /\ sheet = Blank /\ canvas = Blank
    /\ restarts = 0

-----------------------------------------------------------------------------
(* Samples *)

Held(i) == held.t0 <= i /\ i < held.end
Hz(i) == script.tones[i + 1].hz
Known(i) == i < held.end            \* interp(i).is_some()
\* What a row shows at i: the first sample held if that one is gone, black if it has not come.
Content(i) == IF Known(i) THEN script.tones[Max({i, held.t0}) + 1].of ELSE Black

\* Mutant of DropTo: the cursor stays where it was.
DropTo_Cursor(i, scan) ==
    LET to == Max({Min({i, held.end}), held.t0})
    IN held' = [held EXCEPT !.t0 = to] /\ run' = scan

\* drop_to: samples before i go, and the cursor is never left behind.
DropTo(i, scan) ==
    LET to == Max({Min({i, held.end}), held.t0})
    IN /\ held' = [held EXCEPT !.t0 = to]
       /\ run' = [scan EXCEPT !.cur = Max({@, to})]

\* A block of samples comes.
Feed ==
    /\ ~busy /\ busy' = TRUE
    /\ \E n \in 1..MaxBlock :
         /\ held.end + n <= Len(script.tones)
         /\ held' = [held EXCEPT !.end = @ + n]
    /\ UNCHANGED <<script, manual, run, state, sheet, canvas, since, restarts>>

-----------------------------------------------------------------------------
(* step_search *)

Searching == busy /\ state.kind = "search" /\ run.cur < held.end
Sync == Hz(run.cur) = "sync"

\* The end of a 1200 Hz tone that begins a picture: any, when the mode is forced, and
\* one as long as a start bit after a leader, when it is not.
Begins ==
    /\ Searching /\ ~Sync
    /\ IF manual # NoMode THEN run.start > 0 ELSE run.start >= StartMin /\ run.saw

\* The scan looks at one sample.
Look ==
    /\ Searching /\ ~Begins
    /\ LET leader == Hz(run.cur) = "leader"
           lead   == IF leader THEN run.leader + 1 ELSE IF Sync THEN run.leader ELSE 0
           quiet  == IF leader THEN 0 ELSE IF Sync THEN run.quiet ELSE run.quiet + 1
       IN run' = [cur    |-> run.cur + 1,
                  onset  |-> IF Sync /\ run.start = 0 THEN run.cur ELSE run.onset,
                  start  |-> IF Sync THEN run.start + 1 ELSE 0,
                  leader |-> lead,
                  quiet  |-> Min({quiet, QuietMax}),
                  saw    |-> (lead >= LeaderMin \/ run.saw) /\ quiet < QuietMax]
    /\ UNCHANGED <<script, manual, held, state, busy, sheet, canvas, since, restarts>>

\* reset_runs
Rest(scan) == Scan(scan.cur, Idle, scan.onset)

BeginPicture ==
    /\ Begins
    /\ state' = IF manual # NoMode THEN Frame(manual, run.onset) ELSE Vis(run.onset + Bit)
    /\ run' = Rest(run)
    /\ UNCHANGED <<script, manual, held, busy, sheet, canvas, since, restarts>>

-----------------------------------------------------------------------------
(* step_vis *)

\* window_mean around the middle of a bit: 1100 Hz or not; samples that are gone read as 1200.
IsOne(i) == LET at == state.bit0 + i * Bit + Bit \div 2
            IN ~Held(at) \/ Hz(at) \in {"one", "sync"}
ParityOne == LET at == state.bit0 + NBits * Bit + Bit \div 2
             IN Held(at) /\ Hz(at) \in {"one", "sync"}

Code == {i \in 0..NBits - 1 : IsOne(i)}     \* the bits that are set
ParityOk == (Cardinality(Code) + IF ParityOne THEN 1 ELSE 0) % 2 = 0

\* Mutant of HeaderRead: the picture is taken to begin with the stop bit.
HeaderRead_Early == state.bit0 + (NBits + 1) * Bit

\* After the data, the parity and the stop bit comes the picture.
HeaderRead == state.bit0 + (NBits + 2) * Bit

ReadHeader ==
    /\ busy /\ state.kind = "vis" /\ Known(state.bit0 + (NBits + 1) * Bit)
    /\ DropTo(HeaderRead, Rest(run))
    /\ \/ \E m \in Modes :
            /\ ParityOk /\ m.code = Code
            /\ state' = Frame(m, HeaderRead)
       \/ /\ ~(ParityOk /\ \E m \in Modes : m.code = Code)
          /\ state' = Search
    /\ UNCHANGED <<script, manual, busy, sheet, canvas, since, restarts>>

-----------------------------------------------------------------------------
(* step_frame *)

Expected == IF state.rows = 0 THEN state.line ELSE state.line + state.mode.line

\* The first line after a header is expected 6 ms into its sync, so that 12 ms back is
\* not a tick back, where the stop bit is.
Back == IF state.rows = 0 /\ manual = NoMode THEN 0 ELSE 1

\* The leading edge of this line's sync, 12 ms either way of where it is expected.
Edges == {i \in Expected - Back..Expected + 1 : Held(i) /\ Hz(i) \in {"sync", "one", "zero"}}
Edge  == LET best == IF \E i \in Edges : Hz(i) = "sync"
                       THEN {i \in Edges : Hz(i) = "sync"} ELSE Edges
         IN IF Edges = {} THEN Expected ELSE CHOOSE i \in best : \A j \in best : i <= j

\* The whole line is held, and a little more.
LineHeld == Known(Expected + state.mode.line + Margin)

\* push_row of the rows of a line, the first of which is y: a row of another geometry, or a
\* first row, clears the canvas.
PushLine(image, y, row) ==
    LET m == row.mode
    IN [rows |-> m.rows,
        px   |-> [i \in 0..m.rows - 1 |->
                    IF y <= i /\ i < y + m.per THEN <<row>>
                    ELSE IF image.rows = m.rows /\ y # 0 THEN image.px[i] ELSE <<>>]]

\* One transmitted line gives `per` rows.  Beyond the samples held it is black.
DecodeLine ==
    /\ busy /\ state.kind = "frame" /\ LineHeld
    /\ LET m    == state.mode
           body == Edge + 1
           last == Edge + m.line - 1
           row  == [mode |-> m, of |-> Content(body),
                    whole |-> Known(last) /\ Content(last) = Content(body)]
       IN /\ sheet' = PushLine(sheet, state.rows, row)
          /\ IF state.rows + m.per >= m.rows
               THEN state' = Search /\ run' = Scan(Edge + m.line, Idle, run.onset)
               ELSE state' = [state EXCEPT !.line = Edge, !.rows = @ + m.per] /\ UNCHANGED run
    /\ UNCHANGED <<script, manual, held, busy, canvas, since, restarts>>

-----------------------------------------------------------------------------
(* The end of feed, and run_sstv around it. *)

Waiting ==
    CASE state.kind = "search" -> run.cur >= held.end
      [] state.kind = "vis"    -> ~Known(state.bit0 + (NBits + 1) * Bit)
      [] state.kind = "frame"  -> ~LineHeld

KeepFrom ==
    CASE state.kind = "search" -> held.end - Hold
      [] state.kind = "vis"    -> state.bit0 - HoldVis
      [] state.kind = "frame"  -> state.line

\* The scan has nothing more to do: samples are dropped, the rows are shown at once.
Deliver ==
    /\ busy /\ Waiting
    /\ DropTo(KeepFrom, run)
    /\ canvas' = sheet /\ busy' = FALSE
    /\ UNCHANGED <<script, manual, state, sheet, since, restarts>>

\* The pipeline is restarted: a new receiver, a new canvas, and samples that nobody read.
Restart ==
    /\ ~busy /\ restarts < MaxRestarts
    /\ \E missed \in 0..MaxBlock :
         /\ held.end + missed <= Len(script.tones)
         /\ Fresh(held.end + missed)
    /\ restarts' = restarts + 1
    /\ UNCHANGED <<script, manual>>

Next == Feed \/ Look \/ BeginPicture \/ ReadHeader \/ DecodeLine \/ Deliver \/ Restart

Spec == Init /\ [][Next]_vars

-----------------------------------------------------------------------------
(* Properties *)

\* With the mode on auto the scan only looks at samples that are held, as step_search,
\* which unwraps f_at(cur), takes for granted: a tone that began before the samples held
\* reads as a header of ones, which is no mode's.
CursorHeld == manual = NoMode /\ state.kind = "search" => held.t0 <= run.cur

\* A picture whose leader comes while the receiver searches is on the canvas when it is
\* over, every row from its own line, however the samples were cut into blocks.
WholePicture ==
    LET n == Len(script.pictures)
        p == script.pictures[n]
        shown(y) == canvas.px[y][1]
    IN held.end = Len(script.tones) /\ ~busy /\ manual = NoMode /\ since <= p.start
         => /\ canvas.rows = p.mode.rows
            /\ \A y \in 0..p.mode.rows - 1 :
                 /\ canvas.px[y] # <<>> /\ shown(y).mode = p.mode /\ shown(y).whole
                 /\ shown(y).of = <<n, y \div p.mode.per>>
=============================================================================
