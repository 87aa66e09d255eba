-------------------------------- MODULE Apt ---------------------------------
(***************************************************************************)
(* The weather-satellite receiver (server/src/apt, run_apt of radio/mod.rs):   *)
(* words come in blocks, the start of each scan line is searched near where the *)
(* last line says it is, and the line goes to the image.                        *)
(*                                                                             *)
(* Words are numbered from the start of the pipeline.  `syncs` is where the      *)
(* lines on the air begin; before `clear` there is only noise.  A sync in the    *)
(* window is found; without one the correlation is greatest anywhere.            *)
(***************************************************************************)
EXTENDS Integers, Sequences

CONSTANTS Width,       \* WORDS_PER_LINE (2080), even
          SyncLen,     \* SYNC_LEN (39)
          Radius,      \* RESYNC_RADIUS (24)
          MaxLines,    \* rows the image keeps
          Passes,      \* [syncs, clear, length]: what is on the air
          MaxBlock,    \* bound of the model: words in one block
          None

WordsAssumption ==
    /\ {Width, SyncLen, Radius, MaxLines} \subseteq Nat \ {0} /\ MaxBlock \in Nat
    /\ Width % 2 = 0 /\ SyncLen < Width /\ 3 * Radius < Width
    /\ None \notin Int

\* One line after the other, each begun no further from where the last one says than the
\* search reaches.
PassesAssumption ==
    \A p \in Passes :
      /\ p.syncs \subseteq Nat /\ p.clear \in Nat
      /\ \A i, j \in p.syncs : i < j =>
           /\ i + Width - Radius <= j
           /\ \E k \in p.syncs : i < k /\ k <= i + Width + Radius

VARIABLES pass, words, next, busy, image, total

vars == <<pass, words, next, busy, image, total>>

Half == Width \div 2

\* reset: a new image; AptDemod::new: no words, no line yet.
Init ==
    /\ pass \in Passes
    /\ words = [from |-> 0, end |-> 0] /\ next = None
    /\ busy = FALSE
    /\ image = <<>> /\ total = 0

\* process: a block is turned into words, then the lines are drained.
Process ==
    /\ ~busy /\ busy' = TRUE
    /\ \E n \in 1..MaxBlock :
         /\ words.end + n <= pass.length
         /\ words' = [words EXCEPT !.end = @ + n]
    /\ UNCHANGED <<pass, next, image, total>>

\* Mutant of Window: a later line is where the last one says, and not searched for.
Window_Fixed == IF next = None THEN words.from..words.from + Width ELSE {next}

\* The whole first line at first, then a little around the expected start.
Window == IF next = None THEN words.from..words.from + Width ELSE next - Radius..next + Radius

SearchHeld ==
    words.from + SyncLen + (IF next = None THEN Width ELSE next - words.from + Radius) <= words.end

\* find_sync
Found == LET heard == {i \in Window : i \in pass.syncs /\ i >= pass.clear}
         IN IF heard = {} THEN Window ELSE heard

\* push_line: the oldest row goes when there are too many.
PushLine(start) ==
    /\ image' = IF Len(image) = MaxLines THEN Append(Tail(image), start) ELSE Append(image, start)
    /\ total' = total + 1

\* drain_lines, one line of it, and trim: the line's own words stay for the next search.
DrainLine ==
    /\ busy /\ SearchHeld
    /\ \E start \in Found :
         /\ start + Width <= words.end
         /\ PushLine(start)
         /\ next' = start + Width
         /\ words' = [words EXCEPT !.from = start]
    /\ UNCHANGED <<pass, busy>>

Drained ==
    /\ busy
    /\ \/ ~SearchHeld
       \/ \E start \in Found : start + Width > words.end
    /\ busy' = FALSE
    /\ UNCHANGED <<pass, words, next, image, total>>

Next == Process \/ DrainLine \/ Drained

Spec == Init /\ [][Next]_vars

-----------------------------------------------------------------------------
(* Properties *)

NextSync(i) == CHOOSE j \in pass.syncs : j > i /\ \A k \in pass.syncs : k > i => j <= k

\* Once a row is a line of the satellite, the next row is its next line, if there is one:
\* none is lost, doubled or cut, as long as the lines drift by no more than the search
\* reaches.
LinesFollow ==
    \A i \in 1..Len(image) - 1 :
       /\ image[i] \in pass.syncs /\ image[i] >= pass.clear
       /\ \E j \in pass.syncs : j > image[i]
       => image[i + 1] = NextSync(image[i])
=============================================================================
