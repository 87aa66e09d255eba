-------------------------- MODULE PushToTalkProofs --------------------------
(***************************************************************************)
(* Proofs about transmitting and scanning, for any clients and workloads, any   *)
(* list of channels, and any lengths of a key, a clip, the buffer and the log.  *)
(***************************************************************************)
EXTENDS PushToTalk, SequenceTheorems, FiniteSetTheorems, WellFoundedInduction, TLAPS

-----------------------------------------------------------------------------
(* Types *)

\* What waits in the channel: a retune names a frequency, a key a client.
Waiting ==
    /\ cmds \in Seq(Commands)
    /\ \A i \in DOMAIN cmds : /\ cmds[i].op = "retune" => cmds[i].arg \in Freqs
                              /\ cmds[i].op \in KeyOps => cmds[i].by \in Clients

ThreadType ==
    /\ at \in {"gone", "rx", "tx", "burst"} /\ kind \in Kinds /\ keyed \in BOOLEAN
    /\ cur \in Freqs /\ scan \in Scans \cup {NoScan}
    /\ hw \in [dir: {"rx", "tx"}, freq: Freqs]
    /\ on \in [by: Clients \cup {NoOne}, op: {"none", "key", "say", "burst"}]
    /\ left \in Nat

RadioType ==
    /\ plan \in Plans /\ running \in BOOLEAN /\ stopping \in BOOLEAN
    /\ cfg \in [kind: Kinds, freq: Freqs]

RequestType == pc \in [Clients -> Points] /\ released \subseteq Clients

Types == ThreadType /\ RadioType /\ RequestType /\ Waiting

\* The bounds are numbers.
LEMMA Sizes ==
    /\ KeyTime \in Nat \ {0} /\ ClipLen \in Nat \ {0} /\ AudioCap \in Nat \ {0}
    /\ MaxQueue \in Nat \ {0}
  BY SizesAssumption

-----------------------------------------------------------------------------
(* What a step does to the thread *)

\* The actions that change what the thread knows.
Moves == \/ Start \/ TakeRetune \/ TakeScan \/ TakeScanStop \/ ScanFrame \/ ThreadStops
         \/ TakeKey \/ TakeBurst \/ TxUnkey \/ TxChunk \/ TxOver \/ TxFails
         \/ BurstOver \/ BurstLosesRx

\* Every other action leaves the thread alone.
LEMMA ThreadStep ==
  ASSUME [Next]_vars
  PROVE  Moves \/ UNCHANGED threadVars
<1>1. CASE \E c \in Clients : Request(c)
  <2> SUFFICES ASSUME NEW c \in Clients, Request(c) PROVE UNCHANGED threadVars
    BY <1>1
  <2> QED
    BY DEF Request, KeyCheck, KeyClear, KeySend, KeyLog, UnkeySend, UnkeyLog, SayCheck,
           SayGone, SayClear, SayPush, SaySend, BurstCheck, BurstSend, BurstLog
<1>2. CASE Thread
  BY <1>2 DEF Thread, Moves, TakeIgnored, TxDrop
<1>3. CASE MicPush \/ Start \/ Stop \/ StopJoined \/ ScanStart \/ ScanStop
  BY <1>3 DEF Moves, MicPush, Stop, StopJoined, ScanStart, ScanStop
<1>4. CASE \/ \E k \in Kinds : SetMode(k)
           \/ \E f \in Freqs : Tune(f)
  BY <1>4 DEF SetMode, Tune
<1>5. CASE UNCHANGED vars
  BY <1>5 DEF vars, threadVars
<1> QED
  BY <1>1, <1>2, <1>3, <1>4, <1>5 DEF Next

\* The first command, and the rest.
LEMMA HeadTail ==
  ASSUME Waiting, cmds # <<>>
  PROVE  /\ Head(cmds) \in Commands /\ Head(cmds) = cmds[1] /\ 1 \in DOMAIN cmds
         /\ Head(cmds).op = "retune" => Head(cmds).arg \in Freqs
         /\ Head(cmds).op \in KeyOps => Head(cmds).by \in Clients
         /\ Tail(cmds) \in Seq(Commands) /\ Len(Tail(cmds)) = Len(cmds) - 1
         /\ \A i \in DOMAIN Tail(cmds) : Tail(cmds)[i] = cmds[i + 1] /\ i + 1 \in DOMAIN cmds
<1>1. cmds \in Seq(Commands) /\ Len(cmds) \in Nat \ {0} /\ 1 \in DOMAIN cmds
  BY DEF Waiting
<1>2. Head(cmds) \in Commands /\ Head(cmds) = cmds[1] /\ Tail(cmds) \in Seq(Commands)
      /\ Len(Tail(cmds)) = Len(cmds) - 1
  BY <1>1
<1>3. \A i \in DOMAIN Tail(cmds) : Tail(cmds)[i] = cmds[i + 1] /\ i + 1 \in DOMAIN cmds
  BY <1>1
<1> QED
  BY <1>1, <1>2, <1>3 DEF Waiting

\* The channels of a scan.
LEMMA Channels ==
    /\ Len(ScanList) \in Nat \ {0} /\ DOMAIN ScanList = 1..Len(ScanList)
    /\ 1 \in DOMAIN ScanList
    /\ \A i \in DOMAIN ScanList : ScanList[i] \in Freqs
<1>1. ScanList \in Seq(Freqs) /\ ScanList # <<>>
  BY ScanAssumption
<1>2. Len(ScanList) \in Nat /\ DOMAIN ScanList = 1..Len(ScanList)
      /\ \A i \in DOMAIN ScanList : ScanList[i] \in Freqs
  BY <1>1
<1>3. Len(ScanList) # 0
  BY <1>1
<1> QED
  BY <1>2, <1>3

\* Hop goes to a channel of the list.
LEMMA HopOk ==
  ASSUME scan \in Scans, Hop
  PROVE  scan' \in Scans /\ cur' = ScanList[scan'.idx] /\ cur' \in Freqs
         /\ hw' = Tuned("rx", cur')
<1> DEFINE next == (scan.idx % Len(ScanList)) + 1
<1>1. scan.idx \in Nat
  BY Channels DEF Scans
<1>2. next \in DOMAIN ScanList
  <2>1. scan.idx % Len(ScanList) \in 0..(Len(ScanList) - 1)
    BY <1>1, Channels
  <2> QED
    BY <2>1, Channels
<1>3. scan' = [idx |-> next, st |-> "dwell"] /\ cur' = ScanList[next]
      /\ hw' = Tuned("rx", ScanList[next])
  BY DEF Hop
<1> HIDE DEF next
<1>4. scan' \in Scans
  BY <1>2, <1>3 DEF Scans
<1> QED
  BY <1>2, <1>3, <1>4, Channels

\* The thread keeps its type.
LEMMA ThreadTypeNext ==
  ASSUME Types, [Next]_vars
  PROVE  ThreadType'
<1> USE DEF Types
<1>a. ThreadType /\ RadioType /\ Waiting
  OBVIOUS
<1>1. CASE UNCHANGED threadVars
  BY <1>1 DEF ThreadType, threadVars
<1>2. CASE Start
  BY <1>2 DEF Start, ThreadType, RadioType, Tuned
<1>3. CASE TakeRetune
  <2>1. cmds # <<>> /\ Head(cmds).op = "retune"
    BY <1>3 DEF TakeRetune, Take
  <2>2. Head(cmds).arg \in Freqs
    BY <2>1, HeadTail
  <2> QED
    BY <1>3, <2>2 DEF TakeRetune, Retune, ThreadType, Tuned
<1>4. CASE TakeScan
  <2>1. [idx |-> 1, st |-> "dwell"] \in Scans /\ ScanList[1] \in Freqs
    BY Channels DEF Scans
  <2> QED
    BY <1>4, <2>1 DEF TakeScan, ThreadType, Tuned
<1>5. CASE TakeScanStop \/ ThreadStops
  BY <1>5 DEF TakeScanStop, ThreadStops, ThreadType
<1>6. CASE ScanFrame
  <2>1. scan \in Scans
    BY <1>6 DEF ScanFrame, ThreadType
  <2>2. CASE Hop
    BY <1>6, <2>1, <2>2, HopOk DEF ScanFrame, ThreadType, Tuned
  <2>3. CASE scan' = [scan EXCEPT !.st = IF @ = "parked" THEN "lost" ELSE "parked"]
             /\ UNCHANGED <<cur, hw>>
    <3>1. scan' \in Scans
      BY <2>1, <2>3 DEF Scans
    <3> QED
      BY <1>6, <2>3, <3>1 DEF ScanFrame, ThreadType
  <2> QED
    BY <1>6, <2>2, <2>3 DEF ScanFrame
<1>7. CASE TakeKey \/ TakeBurst
  <2>1. cmds # <<>> /\ Head(cmds).op \in {"key", "say", "burst"}
    BY <1>7 DEF TakeKey, TakeBurst, Take, KeyOps
  <2>2. Head(cmds).by \in Clients \cup {NoOne} /\ Head(cmds).arg \in Nat
    BY <2>1, HeadTail DEF Commands
  <2>3. on' = [by |-> Head(cmds).by, op |-> Head(cmds).op] /\ left' = Head(cmds).arg
        /\ hw' = Tuned("tx", cur) /\ keyed' = TRUE /\ at' \in {"tx", "burst"}
        /\ UNCHANGED <<kind, cur, scan>>
    BY <1>7 DEF TakeKey, TakeBurst, Transmit
  <2> QED
    BY <2>1, <2>2, <2>3 DEF ThreadType, Tuned
<1>8. CASE TxUnkey \/ TxOver \/ TxFails \/ BurstOver \/ BurstLosesRx
  <2>1. /\ at' \in {"rx", "gone"} /\ on' = Nothing /\ left' = 0 /\ keyed' = FALSE
        /\ hw' = Tuned("rx", cur) /\ UNCHANGED <<kind, cur, scan>>
    BY <1>8 DEF TxUnkey, TxOver, TxFails, BurstOver, BurstLosesRx, Receive
  <2> QED
    BY <2>1 DEF ThreadType, Tuned, Nothing
<1>9. CASE TxChunk
  BY <1>9 DEF TxChunk, ThreadType
<1> QED
  BY <1>1, <1>2, <1>3, <1>4, <1>5, <1>6, <1>7, <1>8, <1>9, ThreadStep DEF Moves

-----------------------------------------------------------------------------
(* What a step does to the channel *)

\* The actions that take the first command.
Takes == TakeRetune \/ TakeScan \/ TakeScanStop \/ TakeIgnored \/ TakeKey \/ TakeBurst

\* A command of a request; a key carries its client.
Wellformed(cmd) == /\ cmd \in Commands
                   /\ cmd.op = "retune" => cmd.arg \in Freqs
                   /\ cmd.op \in KeyOps => cmd.by \in Clients

\* The channel stays, is emptied, is read at the front, loses what comes up to
\* the first release, or gets one command more.
LEMMA ChannelStep ==
  ASSUME [Next]_vars
  PROVE  \/ UNCHANGED cmds
         \/ cmds' = <<>>
         \/ Takes
         \/ TxUnkey
         \/ \E cmd \in Commands : Wellformed(cmd) /\ Accepting /\ Send(cmd)
<1>n. 0 \in Nat /\ KeyTime \in Nat /\ ClipLen + 1 \in Nat /\ Freqs \subseteq Nat
  BY Sizes, ScanAssumption
<1>1. CASE \E c \in Clients : Request(c)
  <2> SUFFICES ASSUME NEW c \in Clients, Request(c)
               PROVE  \/ UNCHANGED cmds
                      \/ \E cmd \in Commands : Wellformed(cmd) /\ Accepting /\ Send(cmd)
    BY <1>1
  <2>1. CASE KeySend(c) \/ UnkeySend(c) \/ SaySend(c) \/ BurstSend(c)
    <3>1. /\ Wellformed(Command("key", c, KeyTime)) /\ Wellformed(Command("unkey", NoOne, 0))
          /\ Wellformed(Command("say", c, ClipLen + 1)) /\ Wellformed(Command("burst", c, 0))
      BY <1>n DEF Wellformed, Command, Commands, KeyOps
    <3> QED
      BY <2>1, <3>1 DEF KeySend, UnkeySend, SaySend, BurstSend, Wellformed
  <2>2. CASE ~(KeySend(c) \/ UnkeySend(c) \/ SaySend(c) \/ BurstSend(c))
    BY <2>2 DEF Request, KeyCheck, KeyClear, KeyLog, UnkeyLog, SayCheck, SayGone, SayClear,
                SayPush, BurstCheck, BurstLog
  <2> QED
    BY <2>1, <2>2
<1>2. CASE Thread
  BY <1>2 DEF Thread, Takes, ScanFrame, ThreadStops, TxDrop, TxChunk, TxOver, TxFails,
              BurstOver, BurstLosesRx
<1>3. CASE MicPush \/ Start \/ Stop \/ StopJoined \/ \E k \in Kinds : SetMode(k)
  BY <1>3 DEF MicPush, Start, Stop, StopJoined, SetMode
<1>4. CASE ScanStart \/ ScanStop \/ \E f \in Freqs : Tune(f)
  <2>1. /\ Wellformed(Command("scan", NoOne, 0)) /\ Wellformed(Command("scanstop", NoOne, 0))
        /\ \A f \in Freqs : Wellformed(Command("retune", NoOne, f))
    BY <1>n DEF Wellformed, Command, Commands, KeyOps
  <2> QED
    BY <1>4, <2>1 DEF ScanStart, ScanStop, Tune, Wellformed
<1>5. CASE UNCHANGED vars
  BY <1>5 DEF vars
<1> QED
  BY <1>1, <1>2, <1>3, <1>4, <1>5 DEF Next

\* A command more.
LEMMA Sent ==
  ASSUME cmds \in Seq(Commands), NEW cmd \in Commands, Send(cmd)
  PROVE  /\ cmds' \in Seq(Commands) /\ DOMAIN cmds' = DOMAIN cmds \cup {Len(cmds) + 1}
         /\ Len(cmds) + 1 \notin DOMAIN cmds /\ \A i \in DOMAIN cmds : i < Len(cmds) + 1
         /\ cmds'[Len(cmds) + 1] = cmd
         /\ \A i \in DOMAIN cmds : cmds'[i] = cmds[i]
  BY DEF Send

\* What is left after the first release.
LEMMA Unkeyed ==
  ASSUME cmds \in Seq(Commands), TxUnkey
  PROVE  \E n \in DOMAIN cmds :
            /\ cmds' \in Seq(Commands)
            /\ \A i \in DOMAIN cmds' : i + n \in DOMAIN cmds /\ cmds'[i] = cmds[i + n]
            /\ \A j \in DOMAIN cmds : j > n => j - n \in DOMAIN cmds'
<1>1. PICK n \in Unkeys : cmds' = SubSeq(cmds, n + 1, Len(cmds))
  BY DEF TxUnkey
<1>2. n \in 1..Len(cmds) /\ Len(cmds) \in Nat /\ DOMAIN cmds = 1..Len(cmds)
  BY DEF Unkeys
<1>a. \A i \in (n + 1)..Len(cmds) : cmds[i] \in Commands
  BY <1>2
<1>b. n + 1 \in Int /\ Len(cmds) \in Int
  BY <1>2
<1>c. /\ cmds' \in Seq(Commands)
      /\ Len(cmds') = IF n + 1 <= Len(cmds) THEN Len(cmds) - (n + 1) + 1 ELSE 0
      /\ \A i \in 1..(Len(cmds) - (n + 1) + 1) : cmds'[i] = cmds[(n + 1) + i - 1]
  BY <1>1, <1>a, <1>b, SubSeqProperties
<1>3. cmds' \in Seq(Commands)
  BY <1>c
<1>d. /\ (IF n + 1 <= Len(cmds) THEN Len(cmds) - (n + 1) + 1 ELSE 0) = Len(cmds) - n
      /\ Len(cmds) - (n + 1) + 1 = Len(cmds) - n
      /\ \A i \in 1..(Len(cmds) - n) : (n + 1) + i - 1 = i + n
  <2> DEFINE l == Len(cmds)
  <2>1. n \in Nat /\ l \in Nat /\ n <= l
    BY <1>2
  <2> HIDE DEF l
  <2>2. /\ (IF n + 1 <= l THEN l - (n + 1) + 1 ELSE 0) = l - n
        /\ l - (n + 1) + 1 = l - n
        /\ \A i \in 1..(l - n) : (n + 1) + i - 1 = i + n
    BY <2>1
  <2> QED
    BY <2>2 DEF l
<1>4. Len(cmds') = Len(cmds) - n
  BY <1>c, <1>d
<1>e. DOMAIN cmds' = 1..(Len(cmds) - n)
  BY <1>3, <1>4
<1>5. \A i \in 1..(Len(cmds) - n) : cmds'[i] = cmds[i + n]
  BY <1>c, <1>d
<1>6. n \in DOMAIN cmds
  BY <1>2
<1>7. \A i \in DOMAIN cmds' : i + n \in DOMAIN cmds /\ cmds'[i] = cmds[i + n]
  BY <1>2, <1>e, <1>5
<1>8. \A j \in DOMAIN cmds : j > n => j - n \in DOMAIN cmds'
  BY <1>2, <1>e
<1> QED
  BY <1>3, <1>6, <1>7, <1>8

\* The channel keeps its type.
LEMMA WaitingNext ==
  ASSUME Waiting, [Next]_vars
  PROVE  Waiting'
<1>1. CASE UNCHANGED cmds
  BY <1>1 DEF Waiting
<1>2. CASE cmds' = <<>>
  BY <1>2 DEF Waiting
<1>3. CASE Takes
  <2>1. cmds # <<>> /\ cmds' = Tail(cmds)
    BY <1>3 DEF Takes, TakeRetune, TakeScan, TakeScanStop, TakeIgnored, TakeKey, TakeBurst, Take
  <2> QED
    BY <2>1, HeadTail DEF Waiting
<1>4. CASE TxUnkey
  BY <1>4, Unkeyed DEF Waiting
<1>5. CASE \E cmd \in Commands : Wellformed(cmd) /\ Accepting /\ Send(cmd)
  <2>1. PICK cmd \in Commands : Wellformed(cmd) /\ Send(cmd)
    BY <1>5
  <2> QED
    BY <2>1, Sent DEF Waiting, Wellformed
<1> QED
  BY <1>1, <1>2, <1>3, <1>4, <1>5, ChannelStep

-----------------------------------------------------------------------------
(* The rest of the types *)

\* A request goes from point to point.
LEMMA RequestTypeNext ==
  ASSUME RequestType, [Next]_vars
  PROVE  RequestType'
<1> USE DEF RequestType
<1>1. CASE \E c \in Clients : Request(c)
  <2> SUFFICES ASSUME NEW c \in Clients, Request(c) PROVE RequestType'
    BY <1>1
  <2>1. \E p \in Points : Goto(c, p)
    BY DEF Request, KeyCheck, KeyClear, KeySend, KeyLog, UnkeySend, UnkeyLog, SayCheck,
           SayGone, SayClear, SayPush, SaySend, BurstCheck, BurstSend, BurstLog, Points
  <2>2. released' \in {released, released \cup {c}, released \ {c}}
    BY DEF Request, KeyCheck, KeyClear, KeySend, KeyLog, UnkeySend, UnkeyLog, SayCheck,
           SayGone, SayClear, SayPush, SaySend, BurstCheck, BurstSend, BurstLog
  <2> QED
    BY <2>1, <2>2 DEF Goto
<1>2. CASE Thread
  BY <1>2 DEF Thread, TakeRetune, TakeScan, TakeScanStop, TakeIgnored, ScanFrame, ThreadStops,
              TakeKey, TxUnkey, TxDrop, TxChunk, TxOver, TxFails, TakeBurst, BurstOver,
              BurstLosesRx, requestVars
<1>3. CASE \/ MicPush \/ Start \/ Stop \/ StopJoined \/ ScanStart \/ ScanStop
           \/ \E k \in Kinds : SetMode(k)
           \/ \E f \in Freqs : Tune(f)
  BY <1>3 DEF MicPush, Start, Stop, StopJoined, ScanStart, ScanStop, SetMode, Tune, requestVars
<1>4. CASE UNCHANGED vars
  BY <1>4 DEF vars
<1> QED
  BY <1>1, <1>2, <1>3, <1>4 DEF Next

\* The actions that change the radio's own state.
RadioMoves == Start \/ Stop \/ StopJoined \/ (\E k \in Kinds : SetMode(k))
              \/ (\E f \in Freqs : Tune(f))

\* Every other action leaves that alone.
LEMMA RadioStep ==
  ASSUME [Next]_vars
  PROVE  RadioMoves \/ UNCHANGED radioVars
<1>1. CASE \E c \in Clients : Request(c)
  <2> SUFFICES ASSUME NEW c \in Clients, Request(c) PROVE UNCHANGED radioVars
    BY <1>1
  <2> QED
    BY DEF Request, KeyCheck, KeyClear, KeySend, KeyLog, UnkeySend, UnkeyLog, SayCheck,
           SayGone, SayClear, SayPush, SaySend, BurstCheck, BurstSend, BurstLog
<1>2. CASE Thread
  BY <1>2 DEF Thread, TakeRetune, TakeScan, TakeScanStop, TakeIgnored, ScanFrame, ThreadStops,
              TakeKey, TxUnkey, TxDrop, TxChunk, TxOver, TxFails, TakeBurst, BurstOver,
              BurstLosesRx
<1>3. CASE MicPush \/ ScanStart \/ ScanStop \/ RadioMoves
  BY <1>3 DEF MicPush, ScanStart, ScanStop
<1>4. CASE UNCHANGED vars
  BY <1>4 DEF vars, radioVars
<1> QED
  BY <1>1, <1>2, <1>3, <1>4 DEF Next, RadioMoves

\* The configuration and the run state keep their types.
LEMMA RadioTypeNext ==
  ASSUME RadioType, [Next]_vars
  PROVE  RadioType'
<1> USE DEF RadioType
<1>1. CASE UNCHANGED radioVars
  BY <1>1 DEF radioVars
<1>2. CASE Start \/ Stop \/ StopJoined
  BY <1>2 DEF Start, Stop, StopJoined
<1>3. CASE (\E k \in Kinds : SetMode(k)) \/ (\E f \in Freqs : Tune(f))
  BY <1>3 DEF SetMode, Tune
<1> QED
  BY <1>1, <1>2, <1>3, RadioStep DEF RadioMoves

\* Every part has its type at the start.
LEMMA TypesInit ==
  ASSUME Init
  PROVE  Types
<1>1. (CHOOSE f \in Freqs : TRUE) \in Freqs
  BY ScanAssumption
<1>2. cfg \in [kind: Kinds, freq: Freqs]
  BY <1>1 DEF Init
<1>3. ThreadType
  BY <1>2 DEF Init, ThreadType, Tuned, Nothing
<1>4. Waiting
  BY DEF Init, Waiting
<1> QED
  BY <1>2, <1>3, <1>4 DEF Init, Types, RadioType, RequestType, Points

\* Every part keeps its type.
LEMMA TypesNext ==
  ASSUME Types, [Next]_vars
  PROVE  Types'
  BY ThreadTypeNext, RadioTypeNext, RequestTypeNext, WaitingNext DEF Types

-----------------------------------------------------------------------------
(* Receiving and scanning *)

\* A thread is there only for a radio that runs or is being stopped, and what is
\* not transmitting is not shown as keyed.
Receiving ==
    /\ at \in {"gone", "rx"} => ~keyed
    /\ at = "rx" => hw = Tuned("rx", cur)
    /\ at # "gone" => running \/ stopping

\* Each action that moves the thread keeps that.
LEMMA ReceivingNext ==
  ASSUME Types, Receiving, [Next]_vars
  PROVE  Receiving'
<1> USE DEF Receiving
<1>t. keyed \in BOOLEAN /\ at \in {"gone", "rx", "tx", "burst"} /\ scan \in Scans \cup {NoScan}
  BY DEF Types, ThreadType
<1>1. CASE Start
  BY <1>1 DEF Start
<1>2. CASE Stop \/ StopJoined
  BY <1>2 DEF Stop, StopJoined, threadVars
<1>3. CASE (\E k \in Kinds : SetMode(k)) \/ (\E f \in Freqs : Tune(f))
  BY <1>3 DEF SetMode, Tune, threadVars
<1>4. CASE UNCHANGED <<radioVars, threadVars>>
  BY <1>4 DEF radioVars, threadVars
<1>5. CASE UNCHANGED radioVars /\ Moves
  <2>r. running' = running /\ stopping' = stopping
    BY <1>5 DEF radioVars
  <2>1. CASE TakeRetune \/ TakeScan \/ TakeScanStop
    BY <2>1, <2>r DEF TakeRetune, TakeScan, TakeScanStop, Take, Retune
  <2>2. CASE ScanFrame
    <3>1. at' = at /\ keyed' = keyed
      BY <2>2 DEF ScanFrame
    <3>2. CASE Hop
      BY <2>r, <3>1, <3>2 DEF Hop
    <3>3. CASE UNCHANGED <<cur, hw>>
      BY <2>r, <3>1, <3>3
    <3> QED
      BY <2>2, <3>2, <3>3 DEF ScanFrame
  <2>3. CASE ThreadStops
    BY <2>3, <2>r DEF ThreadStops
  <2>4. CASE TakeKey \/ TakeBurst
    BY <2>4, <2>r DEF TakeKey, TakeBurst, Transmit, Take
  <2>5. CASE TxUnkey \/ TxOver \/ TxFails \/ BurstOver
    BY <2>5, <2>r DEF TxUnkey, TxOver, TxFails, BurstOver, Receive
  <2>6. CASE TxChunk \/ BurstLosesRx
    BY <2>6, <2>r DEF TxChunk, BurstLosesRx
  <2> QED
    BY <1>1, <1>5, <2>1, <2>2, <2>3, <2>4, <2>5, <2>6 DEF Moves
<1> QED
  BY <1>1, <1>2, <1>3, <1>4, <1>5, ThreadStep, RadioStep DEF RadioMoves

\* A scan and the channel go together.
LEMMA ScanNext ==
  ASSUME Types, ScanOnChannel, [Next]_vars
  PROVE  ScanOnChannel'
<1> USE DEF ScanOnChannel
<1>t. scan \in Scans \cup {NoScan}
  BY DEF Types, ThreadType
<1>1. CASE UNCHANGED <<scan, cur>>
  BY <1>1
<1>2. CASE Start \/ TakeRetune \/ TakeScanStop \/ ThreadStops
  BY <1>2 DEF Start, TakeRetune, Retune, TakeScanStop, ThreadStops
<1>3. CASE TakeScan
  BY <1>3 DEF TakeScan
<1>4. CASE ScanFrame
  <2>1. CASE Hop
    BY <1>4, <1>t, <2>1, HopOk DEF ScanFrame
  <2>2. CASE UNCHANGED cur /\ scan' = [scan EXCEPT !.st = IF @ = "parked" THEN "lost" ELSE "parked"]
    <3>1. scan \in Scans
      BY <1>4, <1>t DEF ScanFrame
    <3>2. scan'.idx = scan.idx
      BY <2>2, <3>1 DEF Scans
    <3> QED
      BY <1>4, <2>2, <3>2 DEF ScanFrame
  <2> QED
    BY <1>4, <2>1, <2>2 DEF ScanFrame
<1>5. CASE TakeKey \/ TakeBurst \/ TxUnkey \/ TxChunk \/ TxOver \/ TxFails \/ BurstOver \/ BurstLosesRx
  BY <1>1, <1>5 DEF TakeKey, TakeBurst, TxUnkey, TxChunk, TxOver, TxFails, BurstOver, BurstLosesRx
<1> QED
  BY <1>1, <1>2, <1>3, <1>4, <1>5, ThreadStep DEF Moves, threadVars

-----------------------------------------------------------------------------
(* Releases *)

\* What ReleasedGoesQuiet says of one client.
Quiet(c) ==
    /\ at = "tx" /\ on.by = c => \E j \in DOMAIN cmds : cmds[j].op = "unkey"
    /\ \A i \in Queued(c) : \E j \in DOMAIN cmds : j > i /\ cmds[j].op = "unkey"

\* A thread that is gone has taken its channel with it.
Closed == at = "gone" => cmds = <<>>

\* A command that is not this client's key leaves it quiet.
LEMMA QuietSent ==
  ASSUME Waiting, NEW c, Quiet(c), NEW cmd \in Commands, Send(cmd),
         UNCHANGED <<at, on>>, cmd.op \in KeyOps => cmd.by # c
  PROVE  Quiet(c)'
<1>1. /\ DOMAIN cmds' = DOMAIN cmds \cup {Len(cmds) + 1} /\ Len(cmds) + 1 \notin DOMAIN cmds
      /\ cmds'[Len(cmds) + 1] = cmd /\ \A i \in DOMAIN cmds : cmds'[i] = cmds[i]
  BY Sent DEF Waiting
<1>2. \A i \in Queued(c)' : i \in Queued(c)
  BY <1>1 DEF Queued
<1> QED
  BY <1>1, <1>2 DEF Quiet

\* A command taken from the front leaves every other client quiet, and the one
\* whose key it was has its release behind it.
LEMMA QuietTaken ==
  ASSUME Waiting, NEW c, Quiet(c), cmds # <<>>, cmds' = Tail(cmds), at = "rx",
         at' # "tx" \/ (on'.by = Head(cmds).by /\ Head(cmds).op \in KeyOps)
  PROVE  Quiet(c)'
<1>1. /\ \A i \in DOMAIN cmds' : cmds'[i] = cmds[i + 1] /\ i + 1 \in DOMAIN cmds
      /\ Head(cmds) = cmds[1] /\ 1 \in DOMAIN cmds
  BY HeadTail
<1>2. \A j \in DOMAIN cmds : j > 1 => j - 1 \in DOMAIN cmds' /\ cmds'[j - 1] = cmds[j]
  <2>1. DOMAIN cmds = 1..Len(cmds) /\ Len(cmds) \in Nat /\ DOMAIN cmds' = 1..(Len(cmds) - 1)
    BY HeadTail DEF Waiting
  <2> QED
    BY <1>1, <2>1
<1>d. DOMAIN cmds \subseteq Nat /\ DOMAIN cmds' \subseteq Nat
  BY HeadTail DEF Waiting
<1>3. ASSUME at' = "tx", on'.by = c
      PROVE  \E j \in DOMAIN cmds' : cmds'[j].op = "unkey"
  <2>1. 1 \in Queued(c)
    BY <1>1, <1>3 DEF Queued
  <2>2. PICK j \in DOMAIN cmds : j > 1 /\ cmds[j].op = "unkey"
    BY <2>1 DEF Quiet
  <2> QED
    BY <1>2, <2>2
<1>4. ASSUME NEW i \in Queued(c)'
      PROVE  \E j \in DOMAIN cmds' : j > i /\ cmds'[j].op = "unkey"
  <2>1. i \in DOMAIN cmds' /\ i + 1 \in Queued(c)
    BY <1>1 DEF Queued
  <2>2. PICK j \in DOMAIN cmds : j > i + 1 /\ cmds[j].op = "unkey"
    BY <2>1 DEF Quiet
  <2>3. j > 1 /\ j - 1 > i
    BY <1>d, <2>1, <2>2
  <2> QED
    BY <1>2, <2>2, <2>3
<1> QED
  BY <1>3, <1>4 DEF Quiet

\* A thread that is gone leaves an empty channel.
LEMMA ClosedNext ==
  ASSUME Types, Closed, [Next]_vars
  PROVE  Closed'
<1> USE DEF Closed
<1>1. CASE UNCHANGED threadVars
  <2>1. CASE at # "gone"
    BY <1>1, <2>1 DEF threadVars
  <2>2. CASE at = "gone" /\ cmds = <<>>
    <3>1. ~Accepting /\ ~TxUnkey
      BY <2>2 DEF Accepting, TxUnkey
    <3>2. ~Takes
      BY <2>2 DEF Takes, TakeRetune, TakeScan, TakeScanStop, TakeIgnored, TakeKey, TakeBurst, Take
    <3> QED
      BY <2>2, <3>1, <3>2, ChannelStep
  <2> QED
    BY <2>1, <2>2
<1>2. CASE Start \/ ThreadStops \/ BurstLosesRx
  BY <1>2 DEF Start, ThreadStops, BurstLosesRx
<1>3. CASE \/ TakeRetune \/ TakeScan \/ TakeScanStop \/ ScanFrame \/ TakeKey \/ TakeBurst
           \/ TxUnkey \/ TxChunk \/ TxOver \/ TxFails \/ BurstOver
  <2>1. at' # "gone"
    BY <1>3 DEF TakeRetune, TakeScan, TakeScanStop, ScanFrame, TakeKey, TakeBurst, TxUnkey,
                TxChunk, TxOver, TxFails, BurstOver, Take, Transmit, Receive
  <2> QED
    BY <2>1
<1> QED
  BY <1>1, <1>2, <1>3, ThreadStep DEF Moves

\* One step of a request.
LEMMA QuietRequest ==
  ASSUME Types, Closed, ReleasedGoesQuiet, NEW d \in Clients, Request(d)
  PROVE  ReleasedGoesQuiet'
<1>a. /\ cmds \in Seq(Commands) /\ Waiting /\ released \subseteq Clients
      /\ running' = running /\ at' = at /\ on' = on
  BY DEF Types, Waiting, RequestType, Request, KeyCheck, KeyClear, KeySend, KeyLog, UnkeySend,
         UnkeyLog, SayCheck, SayGone, SayClear, SayPush, SaySend, BurstCheck, BurstSend,
         BurstLog, radioVars, threadVars
<1>b. \A c \in released : running => Quiet(c)
  BY DEF ReleasedGoesQuiet, Quiet
<1> SUFFICES ASSUME NEW c \in released', running PROVE Quiet(c)'
  BY <1>a DEF ReleasedGoesQuiet, Quiet
<1>1. CASE UNCHANGED <<cmds, released>>
  BY <1>1, <1>a, <1>b DEF Quiet, Queued
<1>2. CASE UnkeySend(d)
  <2>1. CASE Accepting
    <3>1. Command("unkey", NoOne, 0) \in Commands
      BY DEF Command, Commands
    <3>2. Send(Command("unkey", NoOne, 0))
      BY <1>2, <2>1 DEF UnkeySend
    <3>3. /\ DOMAIN cmds' = DOMAIN cmds \cup {Len(cmds) + 1}
          /\ \A i \in DOMAIN cmds : i < Len(cmds) + 1
          /\ cmds'[Len(cmds) + 1] = Command("unkey", NoOne, 0)
      BY <1>a, <3>1, <3>2, Sent
    <3>5. cmds'[Len(cmds) + 1].op = "unkey"
      BY <3>3 DEF Command
    <3>4. Len(cmds) + 1 \notin Queued(c)'
      BY <3>5 DEF Queued, KeyOps
    <3> QED
      BY <3>3, <3>4, <3>5 DEF Quiet, Queued
  <2>2. CASE ~Accepting
    <3>1. cmds' = cmds /\ at = "gone" /\ cmds = <<>>
      BY <1>2, <2>2 DEF UnkeySend, Accepting, Closed
    <3> QED
      BY <1>a, <3>1 DEF Quiet, Queued
  <2> QED
    BY <2>1, <2>2
<1>3. CASE Accepting /\ (KeySend(d) \/ SaySend(d) \/ BurstSend(d))
  <2>1. PICK cmd \in Commands : /\ Send(cmd)
                                /\ cmd.op \in KeyOps => cmd.by = d /\ d \notin released'
    <3>1. /\ Command("key", d, KeyTime) \in Commands /\ Command("burst", d, 0) \in Commands
          /\ Command("say", d, ClipLen + 1) \in Commands
      BY Sizes DEF Command, Commands
    <3> QED
      BY <1>3, <3>1 DEF KeySend, SaySend, BurstSend, Command, KeyOps
  <2>2. c \in released
    BY <1>3 DEF KeySend, SaySend, BurstSend
  <2>3. Quiet(c)
    BY <1>b, <2>2
  <2> QED
    BY <1>a, <2>1, <2>3, QuietSent
<1>4. UNCHANGED <<cmds, released>> \/ UnkeySend(d)
      \/ (Accepting /\ (KeySend(d) \/ SaySend(d) \/ BurstSend(d)))
  BY DEF Request, KeyCheck, KeyClear, KeySend, KeyLog, UnkeyLog, SayCheck, SayGone, SayClear,
         SayPush, SaySend, BurstCheck, BurstSend, BurstLog
<1> QED
  BY <1>1, <1>2, <1>3, <1>4

\* A release that has been read, or will be, silences its client: the inductive
\* step over every action.
LEMMA QuietNext ==
  ASSUME Types, Closed, ReleasedGoesQuiet, [Next]_vars
  PROVE  ReleasedGoesQuiet'
<1>a. Waiting /\ cmds \in Seq(Commands)
  BY DEF Types, Waiting
<1>b. \A c \in released : running => Quiet(c)
  BY DEF ReleasedGoesQuiet, Quiet
<1>1. CASE \E c \in Clients : Request(c)
  BY <1>1, QuietRequest
<1>2. CASE UNCHANGED <<cmds, on, at, released>> /\ (running' => running)
  BY <1>2 DEF ReleasedGoesQuiet, Queued
<1>3. CASE cmds' = <<>> /\ at' # "tx"
  BY <1>3 DEF ReleasedGoesQuiet, Queued
<1>4. CASE Stop
  BY <1>4 DEF Stop, ReleasedGoesQuiet
<1>5. CASE ScanStart \/ ScanStop \/ \E f \in Freqs : Tune(f)
  <2>1. CASE UNCHANGED cmds
    BY <1>5, <1>2, <2>1 DEF ScanStart, ScanStop, Tune, threadVars, requestVars, radioVars
  <2>2. CASE \E cmd \in Commands : Send(cmd) /\ cmd.op \notin KeyOps
    <3>1. PICK cmd \in Commands : Send(cmd) /\ cmd.op \notin KeyOps
      BY <2>2
    <3>2. UNCHANGED <<at, on, released, running>>
      BY <1>5 DEF ScanStart, ScanStop, Tune, threadVars, requestVars, radioVars
    <3>3. \A c \in released : running => Quiet(c)'
      BY <1>a, <1>b, <3>1, <3>2, QuietSent
    <3> QED
      BY <3>2, <3>3 DEF ReleasedGoesQuiet, Quiet
  <2>3. UNCHANGED cmds \/ \E cmd \in Commands : Send(cmd) /\ cmd.op \notin KeyOps
    <3>1. /\ Command("scan", NoOne, 0) \in Commands /\ Command("scanstop", NoOne, 0) \in Commands
          /\ \A f \in Freqs : Command("retune", NoOne, f) \in Commands
      BY ScanAssumption DEF Command, Commands
    <3> QED
      BY <1>5, <3>1 DEF ScanStart, ScanStop, Tune, Command, KeyOps
  <2> QED
    BY <2>1, <2>2, <2>3
<1>6. CASE Takes
  <2>1. /\ at = "rx" /\ cmds # <<>> /\ cmds' = Tail(cmds) /\ released' = released
        /\ running' = running
        /\ at' # "tx" \/ (on'.by = Head(cmds).by /\ Head(cmds).op \in KeyOps)
    BY <1>6 DEF Takes, TakeRetune, TakeScan, TakeScanStop, TakeIgnored, TakeKey, TakeBurst,
                Take, Transmit, requestVars, radioVars, threadVars
  <2>2. \A c \in released : running => Quiet(c)'
    BY <1>a, <1>b, <2>1, QuietTaken
  <2> QED
    BY <2>1, <2>2 DEF ReleasedGoesQuiet, Quiet
<1>7. CASE TxUnkey
  <2>1. at' = "rx" /\ released' = released /\ running' = running
    BY <1>7 DEF TxUnkey, Receive, requestVars, radioVars
  <2>2. PICK n \in DOMAIN cmds :
              /\ \A i \in DOMAIN cmds' : i + n \in DOMAIN cmds /\ cmds'[i] = cmds[i + n]
              /\ \A j \in DOMAIN cmds : j > n => j - n \in DOMAIN cmds'
              /\ cmds' \in Seq(Commands)
    BY <1>7, <1>a, Unkeyed
  <2>n. DOMAIN cmds \subseteq Nat /\ DOMAIN cmds' \subseteq Nat \ {0}
    BY <1>a, <2>2
  <2>3. ASSUME NEW c \in released, running, NEW i \in Queued(c)'
        PROVE  \E j \in DOMAIN cmds' : j > i /\ cmds'[j].op = "unkey"
    <3>1. i \in DOMAIN cmds' /\ i + n \in Queued(c)
      BY <2>2 DEF Queued
    <3>2. PICK j \in DOMAIN cmds : j > i + n /\ cmds[j].op = "unkey"
      BY <1>b, <2>3, <3>1 DEF Quiet
    <3>3. j > n /\ j - n > i /\ (j - n) + n = j
      BY <2>n, <3>1, <3>2
    <3>4. j - n \in DOMAIN cmds' /\ cmds'[j - n] = cmds[j]
      BY <2>2, <3>3
    <3> QED
      BY <3>2, <3>3, <3>4
  <2> QED
    BY <2>1, <2>3 DEF ReleasedGoesQuiet
<1>8. CASE TxDrop
  <2>1. /\ at = "tx" /\ Unkeys = {} /\ cmds' = <<>>
        /\ UNCHANGED <<at, on, released, running>>
    BY <1>8 DEF TxDrop, radioVars, threadVars, requestVars
  <2>2. \A c \in released : running => on.by # c
    BY <1>b, <2>1 DEF Quiet, Unkeys
  <2> QED
    BY <2>1, <2>2 DEF ReleasedGoesQuiet, Queued
<1>9. CASE TxOver \/ TxFails \/ BurstOver \/ TxChunk \/ ScanFrame
  <2>1. UNCHANGED <<cmds, released, running>> /\ (at' # "tx" \/ UNCHANGED <<at, on>>)
    BY <1>9 DEF TxOver, TxFails, BurstOver, TxChunk, ScanFrame, Receive, requestVars, radioVars
  <2> QED
    BY <2>1 DEF ReleasedGoesQuiet, Queued
<1>10. CASE Thread
  BY <1>10, <1>3, <1>6, <1>7, <1>8, <1>9 DEF Thread, Takes, ThreadStops, BurstLosesRx
<1>11. CASE MicPush \/ Start \/ StopJoined \/ \E k \in Kinds : SetMode(k)
  BY <1>11, <1>2, <1>3 DEF MicPush, Start, StopJoined, SetMode, threadVars, requestVars, radioVars
<1>12. CASE UNCHANGED vars
  BY <1>12, <1>2 DEF vars
<1> QED
  BY <1>1, <1>4, <1>5, <1>10, <1>11, <1>12 DEF Next

-----------------------------------------------------------------------------
(* Audio *)

AudioType == audio \in Seq(Pieces)

\* A client that has dropped the old audio for a transmission that is to come, or
\* is on the air.
Held(c) == \/ pc[c] \in {"cleared", "push", "say"}
           \/ at = "tx" /\ on.by = c
           \/ Queued(c) # {}

\* All that is buffered was captured since.
HeldFresh == \A c \in Clients : Held(c) => \A i \in DOMAIN audio : c \in audio[i].asked

\* On the air is a client's key or clip.
OnAir == at = "tx" => on.by \in Clients /\ on.op \in KeyOps

\* Capping keeps pieces, it makes none.
LEMMA CappedOk ==
  ASSUME NEW s \in Seq(Pieces)
  PROVE  /\ Capped(s) \in Seq(Pieces)
         /\ \A i \in DOMAIN Capped(s) : \E j \in DOMAIN s : Capped(s)[i] = s[j]
<1> DEFINE l == Len(s)
           m == l - AudioCap + 1
<1>1. l \in Nat /\ DOMAIN s = 1..l /\ \A i \in 1..l : s[i] \in Pieces
  OBVIOUS
<1>2. CASE l <= AudioCap
  BY <1>1, <1>2, Sizes DEF Capped
<1>3. CASE l > AudioCap
  <2>1. m \in Int /\ m >= 1 /\ m <= l
    BY <1>1, <1>3, Sizes
  <2>2. Capped(s) = SubSeq(s, m, l)
    BY <1>3, Sizes DEF Capped
  <2> HIDE DEF l, m
  <2>3. \A i \in m..l : s[i] \in Pieces
    BY <1>1, <2>1
  <2>4. l \in Int
    BY <1>1
  <2>5. /\ SubSeq(s, m, l) \in Seq(Pieces)
        /\ Len(SubSeq(s, m, l)) = IF m <= l THEN l - m + 1 ELSE 0
        /\ \A i \in 1..(l - m + 1) : SubSeq(s, m, l)[i] = s[m + i - 1]
    BY <2>1, <2>3, <2>4, SubSeqProperties
  <2>6. DOMAIN SubSeq(s, m, l) = 1..(l - m + 1)
    BY <2>1, <2>5
  <2>7. \A i \in 1..(l - m + 1) : m + i - 1 \in 1..l
    BY <2>1, <2>4
  <2> QED
    BY <1>1, <2>2, <2>5, <2>6, <2>7
<1> QED
  BY <1>1, <1>2, <1>3, Sizes

\* What a push adds was asked for by everyone who is asking.
LEMMA PushOk ==
  ASSUME AudioType, NEW parts \in Seq(0..ClipLen), Push(parts)
  PROVE  /\ AudioType'
         /\ \A i \in DOMAIN audio' : \/ audio'[i].asked = Asking
                                     \/ \E j \in DOMAIN audio : audio'[i] = audio[j]
<1> DEFINE new == [i \in DOMAIN parts |-> [part |-> parts[i], asked |-> Asking]]
           all == audio \o new
<1>1. Asking \in SUBSET Clients
  BY DEF Asking
<1>2. Len(parts) \in Nat /\ DOMAIN parts = 1..Len(parts)
      /\ \A i \in DOMAIN parts : parts[i] \in 0..ClipLen
  <2> DEFINE S == 0..ClipLen
  <2>1. parts \in Seq(S)
    OBVIOUS
  <2> HIDE DEF S
  <2>2. Len(parts) \in Nat /\ DOMAIN parts = 1..Len(parts)
        /\ \A i \in DOMAIN parts : parts[i] \in S
    BY <2>1
  <2> QED
    BY <2>2 DEF S
<1>3. new \in Seq(Pieces) /\ DOMAIN new = DOMAIN parts
      /\ \A i \in DOMAIN new : new[i].asked = Asking
  <2>1. \A i \in DOMAIN parts : [part |-> parts[i], asked |-> Asking] \in Pieces
    BY <1>1, <1>2 DEF Pieces
  <2>2. new \in [1..Len(parts) -> Pieces]
    BY <1>2, <2>1
  <2>3. new \in Seq(Pieces)
    BY <1>2, <2>2
  <2> QED
    BY <2>3
<1>4. audio' = Capped(all)
  BY DEF Push
<1>5. audio \in Seq(Pieces)
  BY DEF AudioType
<1> HIDE DEF new
<1>6. /\ all \in Seq(Pieces)
      /\ \A i \in DOMAIN all : \/ \E j \in DOMAIN audio : all[i] = audio[j]
                               \/ \E j \in DOMAIN new : all[i] = new[j]
  BY <1>3, <1>5
<1> HIDE DEF all
<1>7. audio' \in Seq(Pieces) /\ \A i \in DOMAIN audio' : \E j \in DOMAIN all : audio'[i] = all[j]
  BY <1>4, <1>6, CappedOk
<1> QED
  BY <1>3, <1>6, <1>7 DEF AudioType

\* The buffer stays, is cleared, loses its first piece, or gets pieces.
LEMMA AudioStep ==
  ASSUME [Next]_vars
  PROVE  \/ UNCHANGED audio \/ audio' = <<>> \/ (audio' = Tail(audio) /\ audio # <<>>)
         \/ \E parts \in Seq(0..ClipLen) : Push(parts)
<1>p. <<0>> \in Seq(0..ClipLen) /\ [i \in 1..ClipLen |-> i] \in Seq(0..ClipLen)
  BY Sizes
<1>1. CASE \E c \in Clients : Request(c)
  BY <1>1, <1>p DEF Request, KeyCheck, KeyClear, KeySend, KeyLog, UnkeySend, UnkeyLog, SayCheck,
         SayGone, SayClear, SayPush, SaySend, BurstCheck, BurstSend, BurstLog
<1>2. CASE Thread
  BY <1>2 DEF Thread, TakeRetune, TakeScan, TakeScanStop, TakeIgnored, ScanFrame, ThreadStops,
              TakeKey, TxUnkey, TxDrop, TxChunk, TxOver, TxFails, TakeBurst, BurstOver,
              BurstLosesRx
<1>3. CASE \/ MicPush \/ Start \/ Stop \/ StopJoined \/ ScanStart \/ ScanStop
           \/ \E k \in Kinds : SetMode(k)
           \/ \E f \in Freqs : Tune(f)
  BY <1>3, <1>p DEF MicPush, Start, Stop, StopJoined, ScanStart, ScanStop, SetMode, Tune
<1>4. CASE UNCHANGED vars
  BY <1>4 DEF vars
<1> QED
  BY <1>1, <1>2, <1>3, <1>4 DEF Next

\* A client comes to hold the buffer only by clearing it.
LEMMA HeldStep ==
  ASSUME Types, [Next]_vars, NEW c \in Clients, Held(c)'
  PROVE  Held(c) \/ audio' = <<>>
<1>a. /\ cmds \in Seq(Commands) /\ Waiting /\ pc \in [Clients -> Points]
  BY DEF Types, Waiting, RequestType
<1>1. CASE \E d \in Clients : Request(d)
  <2> SUFFICES ASSUME NEW d \in Clients, Request(d) PROVE Held(c) \/ audio' = <<>>
    BY <1>1
  <2>1. CASE UNCHANGED cmds /\ (pc'[c] \in {"cleared", "push", "say"} => pc[c] \in {"cleared", "push", "say"})
             /\ UNCHANGED <<at, on>>
    BY <2>1 DEF Held, Queued
  <2>2. CASE KeyClear(d) \/ SayClear(d)
    BY <2>2 DEF KeyClear, SayClear
  <2>3. CASE Accepting /\ (KeySend(d) \/ UnkeySend(d) \/ SaySend(d) \/ BurstSend(d))
    <3>1. PICK cmd \in Commands : Send(cmd) /\ (cmd.op \in KeyOps => cmd.by = d /\ Held(d))
      <4>1. /\ Command("key", d, KeyTime) \in Commands /\ Command("burst", d, 0) \in Commands
            /\ Command("say", d, ClipLen + 1) \in Commands /\ Command("unkey", NoOne, 0) \in Commands
        BY Sizes DEF Command, Commands
      <4> QED
        BY <2>3, <4>1 DEF KeySend, UnkeySend, SaySend, BurstSend, Command, KeyOps, At, Held
    <3>2. UNCHANGED <<at, on>> /\ pc'[c] \in {pc[c], "log", "release", "logburst"}
      BY <1>a, <2>3 DEF KeySend, UnkeySend, SaySend, BurstSend, threadVars, Goto
    <3>3. /\ DOMAIN cmds' = DOMAIN cmds \cup {Len(cmds) + 1}
          /\ cmds'[Len(cmds) + 1] = cmd
          /\ \A i \in DOMAIN cmds : cmds'[i] = cmds[i]
      BY <1>a, <3>1, Sent
    <3>4. Queued(c)' # {} => Queued(c) # {} \/ (cmd.op \in KeyOps /\ cmd.by = c)
      BY <3>3 DEF Queued
    <3> QED
      BY <3>1, <3>2, <3>4 DEF Held
  <2>4. \/ UNCHANGED <<cmds, at, on>>
           /\ (pc'[c] \in {"cleared", "push", "say"} => pc[c] \in {"cleared", "push", "say"})
        \/ KeyClear(d) \/ SayClear(d)
        \/ Accepting /\ (KeySend(d) \/ UnkeySend(d) \/ SaySend(d) \/ BurstSend(d))
    BY <1>a DEF Request, KeyCheck, KeySend, KeyLog, UnkeySend, UnkeyLog, SayCheck, SayGone,
           SayPush, SaySend, BurstCheck, BurstSend, BurstLog, Goto, At, threadVars
  <2> QED
    BY <2>1, <2>2, <2>3, <2>4
<1>2. ASSUME UNCHANGED pc
      PROVE  Held(c)
  <2>1. CASE Takes
    <3>1. /\ at = "rx" /\ cmds # <<>> /\ cmds' = Tail(cmds)
          /\ at' # "tx" \/ (on'.by = Head(cmds).by /\ Head(cmds).op \in KeyOps)
      BY <2>1 DEF Takes, TakeRetune, TakeScan, TakeScanStop, TakeIgnored, TakeKey, TakeBurst,
                  Take, Transmit, threadVars
    <3>2. at' = "tx" /\ on'.by = c => 1 \in Queued(c)
      BY <1>a, <3>1, HeadTail DEF Queued
    <3>3. \A i \in Queued(c)' : i + 1 \in Queued(c)
      BY <1>a, <3>1, HeadTail DEF Queued
    <3> QED
      BY <1>2, <3>2, <3>3 DEF Held
  <2>2. CASE TxUnkey
    <3>1. at' = "rx"
      BY <2>2 DEF TxUnkey, Receive
    <3>2. PICK n \in DOMAIN cmds :
              \A i \in DOMAIN cmds' : i + n \in DOMAIN cmds /\ cmds'[i] = cmds[i + n]
      BY <1>a, <2>2, Unkeyed
    <3>3. \A i \in Queued(c)' : i + n \in Queued(c)
      BY <3>2 DEF Queued
    <3> QED
      BY <1>2, <3>1, <3>3 DEF Held
  <2>3. CASE ~Takes /\ ~TxUnkey
    <3>1. at' = "tx" => at = "tx" /\ on' = on
      BY <1>2, <2>3, ThreadStep DEF Moves, Takes, Start, ScanFrame, ThreadStops, TxChunk, TxOver,
                              TxFails, BurstOver, BurstLosesRx, Receive, threadVars
    <3>2. Queued(c)' # {} => Queued(c) # {}
      <4>1. CASE UNCHANGED cmds \/ cmds' = <<>>
        BY <4>1 DEF Queued
      <4>2. CASE \E cmd \in Commands : Send(cmd) /\ cmd.op \notin KeyOps
        <5>1. PICK cmd \in Commands : Send(cmd) /\ cmd.op \notin KeyOps
          BY <4>2
        <5>2. /\ DOMAIN cmds' = DOMAIN cmds \cup {Len(cmds) + 1}
              /\ cmds'[Len(cmds) + 1] = cmd
              /\ \A i \in DOMAIN cmds : cmds'[i] = cmds[i]
          BY <1>a, <5>1, Sent
        <5> QED
          BY <5>1, <5>2 DEF Queued
      <4>3. CASE \E d \in Clients : Request(d)
        <5>1. ~(\E d \in Clients : KeySend(d) /\ Accepting)
          BY <1>2, <1>a DEF KeySend, Goto, At
        <5>2. ~(\E d \in Clients : SaySend(d) /\ Accepting)
          BY <1>2, <1>a DEF SaySend, Goto, At
        <5>3. \/ UNCHANGED cmds
              \/ \E d \in Clients : Send(Command("unkey", NoOne, 0)) \/ Send(Command("burst", d, 0))
          BY <4>3, <5>1, <5>2 DEF Request, KeyCheck, KeyClear, KeySend, KeyLog, UnkeySend, UnkeyLog,
             SayCheck, SayGone, SayClear, SayPush, SaySend, BurstCheck, BurstSend, BurstLog
        <5>4. Command("unkey", NoOne, 0) \in Commands
              /\ \A d \in Clients : Command("burst", d, 0) \in Commands
          BY DEF Command, Commands
        <5> QED
          BY <4>1, <4>2, <5>3, <5>4 DEF Command, KeyOps
      <4>4. CASE ScanStart \/ ScanStop \/ \E f \in Freqs : Tune(f)
        <5>1. /\ Command("scan", NoOne, 0) \in Commands /\ Command("scanstop", NoOne, 0) \in Commands
              /\ \A f \in Freqs : Command("retune", NoOne, f) \in Commands
          BY ScanAssumption DEF Command, Commands
        <5> QED
          BY <4>1, <4>2, <4>4, <5>1 DEF ScanStart, ScanStop, Tune, Command, KeyOps
      <4>5. CASE Thread
        BY <2>3, <4>1, <4>5 DEF Thread, Takes, ScanFrame, ThreadStops, TxDrop, TxChunk, TxOver,
              TxFails, BurstOver, BurstLosesRx
      <4>6. CASE MicPush \/ Start \/ Stop \/ StopJoined \/ \E k \in Kinds : SetMode(k)
        BY <4>1, <4>6 DEF MicPush, Start, Stop, StopJoined, SetMode
      <4>7. CASE UNCHANGED vars
        BY <4>1, <4>7 DEF vars
      <4> QED
        BY <4>3, <4>4, <4>5, <4>6, <4>7 DEF Next
    <3> QED
      BY <1>2, <3>1, <3>2 DEF Held
  <2> QED
    BY <2>1, <2>2, <2>3
<1>3. (\E d \in Clients : Request(d)) \/ UNCHANGED pc
  BY DEF Next, Thread, TakeRetune, TakeScan, TakeScanStop, TakeIgnored, ScanFrame, ThreadStops,
         TakeKey, TxUnkey, TxDrop, TxChunk, TxOver, TxFails, TakeBurst, BurstOver,
         BurstLosesRx, MicPush, Start, Stop, StopJoined, ScanStart, ScanStop, SetMode, Tune,
         requestVars, vars
<1> QED
  BY <1>1, <1>2, <1>3

\* The buffer keeps its type and its freshness.
LEMMA FreshNext ==
  ASSUME Types, AudioType, HeldFresh, [Next]_vars
  PROVE  AudioType' /\ HeldFresh'
<1>1. CASE UNCHANGED audio
  BY <1>1, HeldStep DEF AudioType, HeldFresh
<1>2. CASE audio' = <<>>
  BY <1>2 DEF AudioType, HeldFresh
<1>3. CASE audio' = Tail(audio) /\ audio # <<>>
  <2>1. audio' \in Seq(Pieces) /\ \A i \in DOMAIN audio' : \E j \in DOMAIN audio : audio'[i] = audio[j]
    BY <1>3 DEF AudioType
  <2>2. \A c \in Clients : Held(c)' => Held(c) \/ audio' = <<>>
    BY HeldStep
  <2> QED
    BY <2>1, <2>2 DEF AudioType, HeldFresh
<1>4. CASE \E parts \in Seq(0..ClipLen) : Push(parts)
  <2>1. PICK parts \in Seq(0..ClipLen) : Push(parts)
    BY <1>4
  <2>2. /\ AudioType'
        /\ \A i \in DOMAIN audio' : \/ audio'[i].asked = Asking
                                    \/ \E j \in DOMAIN audio : audio'[i] = audio[j]
    BY <2>1, PushOk
  <2>3. \A c \in Clients : Held(c)' => Held(c) \/ audio' = <<>>
    BY HeldStep
  <2>4. \A c \in Clients : Held(c) => c \in Asking
    BY DEF Held, Asking
  <2> QED
    BY <2>2, <2>3, <2>4 DEF HeldFresh
<1> QED
  BY <1>1, <1>2, <1>3, <1>4, AudioStep

\* A key on the air is a client's.
LEMMA OnAirNext ==
  ASSUME Types, OnAir, [Next]_vars
  PROVE  OnAir'
<1>1. CASE TakeKey
  <2>1. /\ cmds # <<>> /\ Head(cmds).op \in KeyOps
        /\ on'.by = Head(cmds).by /\ on'.op = Head(cmds).op
    BY <1>1 DEF TakeKey, Take, Transmit
  <2> QED
    BY <2>1, HeadTail DEF OnAir, Types
<1>2. CASE ~TakeKey
  BY <1>2, ThreadStep DEF OnAir, Moves, Start, TakeRetune, TakeScan, TakeScanStop, ScanFrame,
     ThreadStops, TakeBurst, TxUnkey, TxChunk, TxOver, TxFails, BurstOver, BurstLosesRx, Take,
     Transmit, Receive, threadVars
<1> QED
  BY <1>1, <1>2

-----------------------------------------------------------------------------
(* The transmit log *)

LogType == plan \in Plans /\ audit \in Seq(Entries) /\ Len(audit) <= AuditCap

\* A set of numbers has a least one: a least counterexample stands for an
\* induction.
LEMMA LeastNat ==
  ASSUME NEW T \in SUBSET Nat, T # {}
  PROVE  \E x \in T : \A y \in T : x <= y
<1>1. PICK n \in T : TRUE
  OBVIOUS
<1> DEFINE S == 0..n
           F == {0..x : x \in T \cap S}
<1>2. n \in Nat /\ IsFiniteSet(S)
  BY <1>1, FS_Interval
<1>3. F # {} /\ F \subseteq FiniteSubsetsOf(S)
  <2>1. F \subseteq SUBSET S
    BY <1>2
  <2> QED
    BY <1>1, <1>2, <2>1, FS_FiniteSubsetsOfFinite
<1>4. \E A \in F : \A B \in F : ~ (<<B, A>> \in StrictSubsetOrdering(S))
  <2> HIDE DEF F, S
  <2> QED
    BY <1>3, FS_StrictSubsetOrderingWellFounded, WFMin
<1>5. PICK x \in T \cap S : \A y \in T \cap S : ~ (<<0..y, 0..x>> \in StrictSubsetOrdering(S))
  BY <1>4
<1>6. ASSUME NEW y \in T, y < x PROVE FALSE
  <2>1. y \in S /\ x \in S /\ y \in Nat /\ x \in Nat
    BY <1>2, <1>5, <1>6
  <2>2. 0..y \subseteq 0..x /\ x \notin 0..y /\ x \in 0..x
    BY <1>6, <2>1
  <2>3. 0..y \in SUBSET S /\ 0..x \in SUBSET S
    BY <1>2, <2>1
  <2> QED
    BY <1>5, <2>1, <2>2, <2>3 DEF StrictSubsetOrdering
<1> QED
  BY <1>5, <1>6

\* The greatest of a set of positions is one of them.
LEMMA MaxOk ==
  ASSUME NEW n \in Nat, NEW S \in SUBSET (1..n), S # {}
  PROVE  Max(S) \in S
<1> DEFINE T == {n - x : x \in S}
<1>1. T \in SUBSET Nat /\ T # {}
  <2>1. \A x \in S : n - x \in Nat
    OBVIOUS
  <2>2. PICK x \in S : TRUE
    OBVIOUS
  <2>3. n - x \in T
    BY <2>2
  <2> QED
    BY <2>1, <2>3
<1>2. PICK t \in T : \A u \in T : t <= u
  <2> HIDE DEF T
  <2> QED
    BY <1>1, LeastNat
<1>3. PICK x \in S : t = n - x
  OBVIOUS
<1>4. \A y \in S : x >= y
  <2> SUFFICES ASSUME NEW y \in S PROVE x >= y
    OBVIOUS
  <2>1. n - x <= n - y
    BY <1>2, <1>3
  <2> QED
    BY <2>1
<1> QED
  BY <1>4 DEF Max

\* An entry is written at the end; nothing else changes unless the ring is full,
\* and a full ring stays full.
LEMMA LogOk ==
  ASSUME LogType, NEW e \in Entries, Log(e), UNCHANGED plan
  PROVE  /\ LogType' /\ AuditCap' = AuditCap
         /\ Len(audit) = AuditCap => Len(audit') = AuditCap
         /\ Len(audit) # AuditCap =>
              \A i \in DOMAIN audit : i \in DOMAIN audit' /\ audit'[i] = audit[i]
         /\ \E i \in DOMAIN audit' : audit'[i] = e
<1> DEFINE l == Len(audit)
<1>1. audit \in Seq(Entries) /\ l \in Nat /\ l <= AuditCap /\ DOMAIN audit = 1..l
  BY DEF LogType
<1>2. AuditCap \in Nat \ {0} /\ AuditCap' = AuditCap /\ plan' \in Plans
  BY PlansAssumption DEF LogType, AuditCap
<1>3. CASE l = AuditCap
  <2>1. audit # <<>> /\ audit' = Append(Tail(audit), e)
    BY <1>1, <1>2, <1>3 DEF Log
  <2>2. Tail(audit) \in Seq(Entries) /\ Len(Tail(audit)) = l - 1
    BY <1>1, <2>1
  <2>3. audit' \in Seq(Entries) /\ Len(audit') = l /\ audit'[l] = e /\ DOMAIN audit' = 1..l
    BY <1>1, <2>1, <2>2
  <2> QED
    BY <1>1, <1>2, <1>3, <2>3 DEF LogType
<1>4. CASE l # AuditCap
  <2>0. l + 1 <= AuditCap /\ ~(l >= AuditCap)
    <3> HIDE DEF l
    <3> QED
      BY <1>1, <1>2, <1>4
  <2>1. audit' = Append(audit, e)
    BY <2>0 DEF Log
  <2>2. /\ audit' \in Seq(Entries) /\ Len(audit') = l + 1 /\ DOMAIN audit' = 1..(l + 1)
        /\ audit'[l + 1] = e /\ \A i \in 1..l : audit'[i] = audit[i]
    BY <1>1, <2>1
  <2>3. LogType'
    BY <1>2, <2>0, <2>2 DEF LogType
  <2>4. \A i \in DOMAIN audit : i \in DOMAIN audit' /\ audit'[i] = audit[i]
    BY <1>1, <2>2
  <2>5. l + 1 \in DOMAIN audit'
    BY <1>1, <2>2
  <2> QED
    BY <1>2, <1>4, <2>2, <2>3, <2>4, <2>5
<1> QED
  BY <1>3, <1>4

\* A release closes at most an entry of its own name, and opens none.
LEMMA ReleaseOk ==
  ASSUME LogType, NEW name, Release(name), UNCHANGED plan
  PROVE  /\ LogType' /\ Len(audit') = Len(audit) /\ DOMAIN audit' = DOMAIN audit
         /\ \A i \in DOMAIN audit : /\ audit'[i].name = audit[i].name
                                    /\ audit[i].open = FALSE => audit'[i].open = FALSE
                                    /\ audit[i].name # name => audit'[i] = audit[i]
<1>0. audit \in Seq(Entries) /\ Len(audit) \in Nat /\ DOMAIN audit = 1..Len(audit)
  BY DEF LogType
<1>1. CASE OpenOf(name) = {}
  BY <1>1 DEF Release, LogType, AuditCap
<1>2. CASE OpenOf(name) # {}
  <2> DEFINE k == Max(OpenOf(name))
  <2>1. k \in OpenOf(name)
    <3>1. OpenOf(name) \in SUBSET (1..Len(audit))
      BY <1>0 DEF OpenOf
    <3> QED
      BY <1>0, <1>2, <3>1, MaxOk
  <2>2. k \in DOMAIN audit /\ audit[k].name = name
    BY <2>1 DEF OpenOf
  <2>3. audit' = [audit EXCEPT ![k].open = FALSE]
    BY <1>2 DEF Release
  <2> HIDE DEF k
  <2>4. [audit[k] EXCEPT !.open = FALSE] \in Entries /\ audit[k] \in Entries
    <3>1. audit[k] \in Entries
      BY <1>0, <2>2
    <3> QED
      BY <3>1 DEF Entries
  <2>5. audit' = [audit EXCEPT ![k] = [audit[k] EXCEPT !.open = FALSE]]
    BY <2>3
  <2>6. audit' \in Seq(Entries) /\ Len(audit') = Len(audit) /\ DOMAIN audit' = DOMAIN audit
    BY <1>0, <2>2, <2>4, <2>5
  <2>7. /\ \A i \in DOMAIN audit \ {k} : audit'[i] = audit[i]
        /\ audit'[k] = [audit[k] EXCEPT !.open = FALSE]
    BY <1>0, <2>2, <2>5
  <2>8. audit'[k].name = audit[k].name /\ audit'[k].open = FALSE
    BY <2>4, <2>7 DEF Entries
  <2> QED
    BY <2>2, <2>6, <2>7, <2>8 DEF LogType, AuditCap
<1> QED
  BY <1>1, <1>2

\* Only these write the log.
LEMMA LogStep ==
  ASSUME [Next]_vars
  PROVE  \/ UNCHANGED audit
         \/ \E c \in Clients : KeyLog(c) \/ BurstLog(c) \/ UnkeyLog(c)
<1>1. CASE \E c \in Clients : Request(c)
  BY <1>1 DEF Request, KeyCheck, KeyClear, KeySend, UnkeySend, SayCheck,
         SayGone, SayClear, SayPush, SaySend, BurstCheck, BurstSend
<1>2. CASE Thread
  BY <1>2 DEF Thread, TakeRetune, TakeScan, TakeScanStop, TakeIgnored, ScanFrame, ThreadStops,
              TakeKey, TxUnkey, TxDrop, TxChunk, TxOver, TxFails, TakeBurst, BurstOver,
              BurstLosesRx
<1>3. CASE \/ MicPush \/ Start \/ Stop \/ StopJoined \/ ScanStart \/ ScanStop
           \/ \E k \in Kinds : SetMode(k)
           \/ \E f \in Freqs : Tune(f)
  BY <1>3 DEF MicPush, Start, Stop, StopJoined, ScanStart, ScanStop, SetMode, Tune
<1>4. CASE UNCHANGED vars
  BY <1>4 DEF vars
<1> QED
  BY <1>1, <1>2, <1>3, <1>4 DEF Next

\* The workload and the size of the log stay.
LEMMA PlanStays ==
  ASSUME [Next]_vars
  PROVE  plan' = plan
<1>1. CASE \E c \in Clients : Request(c)
  BY <1>1 DEF Request, KeyCheck, KeyClear, KeySend, KeyLog, UnkeySend, UnkeyLog, SayCheck,
         SayGone, SayClear, SayPush, SaySend, BurstCheck, BurstSend, BurstLog, radioVars
<1>2. CASE Thread
  BY <1>2 DEF Thread, TakeRetune, TakeScan, TakeScanStop, TakeIgnored, ScanFrame, ThreadStops,
              TakeKey, TxUnkey, TxDrop, TxChunk, TxOver, TxFails, TakeBurst, BurstOver,
              BurstLosesRx, radioVars
<1>3. CASE \/ MicPush \/ Start \/ Stop \/ StopJoined \/ ScanStart \/ ScanStop
           \/ \E k \in Kinds : SetMode(k)
           \/ \E f \in Freqs : Tune(f)
  BY <1>3 DEF MicPush, Start, Stop, StopJoined, ScanStart, ScanStop, SetMode, Tune, radioVars
<1>4. CASE UNCHANGED vars
  BY <1>4 DEF vars
<1> QED
  BY <1>1, <1>2, <1>3, <1>4 DEF Next

Full == Len(audit) = AuditCap

\* The entries a client may write.
LEMMA NamesOk ==
  ASSUME NEW c \in Clients, NEW name \in NamesNow(c), NEW b \in BOOLEAN
  PROVE  [name |-> name, open |-> b] \in Entries
  BY NamesAssumption DEF NamesNow, Entries, Range

\* The log keeps its type.
LEMMA LogTypeNext ==
  ASSUME LogType, [Next]_vars
  PROVE  LogType' /\ plan' = plan
<1>0. plan' = plan
  BY PlanStays
<1>1. CASE UNCHANGED audit
  BY <1>0, <1>1 DEF LogType, AuditCap
<1>2. ASSUME NEW d \in Clients, NEW name \in NamesNow(d), NEW b \in BOOLEAN,
             Log([name |-> name, open |-> b])
      PROVE  LogType'
  BY <1>0, <1>2, NamesOk, LogOk
<1>3. ASSUME NEW d \in Clients, UnkeyLog(d) PROVE LogType'
  BY <1>0, <1>1, <1>3, ReleaseOk DEF UnkeyLog
<1>4. ASSUME NEW d \in Clients, KeyLog(d) \/ BurstLog(d) PROVE LogType'
  BY <1>2, <1>4 DEF KeyLog, BurstLog
<1> QED
  BY <1>0, <1>1, <1>3, <1>4, LogStep

\* Entries stay until the ring is full; a closed one stays closed, an open one is
\* closed by its client's release only; and a handler that logs leaves an entry.
LEMMA EntriesStay ==
  ASSUME LogType, [Next]_vars, NEW c \in Clients, UniqueName(c)
  PROVE  /\ Full => Full'
         /\ Logged(c, FALSE) => Full \/ Logged(c, FALSE)'
         /\ Logged(c, TRUE) => Full \/ Logged(c, TRUE)' \/ UnkeyLog(c)
         /\ KeyLog(c) => Logged(c, TRUE)'
         /\ BurstLog(c) => Logged(c, FALSE)'
<1>0. plan' = plan /\ AuditCap' = AuditCap
  BY PlanStays DEF AuditCap
<1>1. CASE UNCHANGED audit /\ ~KeyLog(c) /\ ~BurstLog(c)
  BY <1>0, <1>1 DEF Full, Logged
<1>2. ASSUME NEW d \in Clients, NEW b \in BOOLEAN, NEW name \in NamesNow(d),
             Log([name |-> name, open |-> b])
      PROVE  /\ Full => Full'
             /\ \A o \in BOOLEAN : Logged(c, o) => Full \/ Logged(c, o)'
             /\ d = c => Logged(c, b)'
  <2> DEFINE e == [name |-> name, open |-> b]
  <2>1. e \in Entries /\ Log(e) /\ e.name = name /\ e.open = b
    BY <1>2, NamesOk
  <2> HIDE DEF e
  <2>2. /\ Len(audit) = AuditCap => Len(audit') = AuditCap
        /\ Len(audit) # AuditCap =>
             \A i \in DOMAIN audit : i \in DOMAIN audit' /\ audit'[i] = audit[i]
        /\ \E i \in DOMAIN audit' : audit'[i] = e
    BY <1>0, <2>1, LogOk
  <2>3. \A o \in BOOLEAN : Logged(c, o) => Full \/ Logged(c, o)'
    BY <2>2 DEF Full, Logged
  <2>4. d = c => Logged(c, b)'
    BY <2>1, <2>2 DEF Logged, NamesNow
  <2> QED
    BY <1>0, <2>2, <2>3, <2>4 DEF Full
<1>3. ASSUME NEW d \in Clients, KeyLog(d)
      PROVE  /\ Full => Full'
             /\ \A o \in BOOLEAN : Logged(c, o) => Full \/ Logged(c, o)'
             /\ d = c => Logged(c, TRUE)'
  BY <1>2, <1>3 DEF KeyLog
<1>4. ASSUME NEW d \in Clients, BurstLog(d)
      PROVE  /\ Full => Full'
             /\ \A o \in BOOLEAN : Logged(c, o) => Full \/ Logged(c, o)'
             /\ d = c => Logged(c, FALSE)'
  BY <1>2, <1>4 DEF BurstLog
<1>5. ASSUME NEW d \in Clients, Release(NameOf[d])
      PROVE  /\ Full => Full'
             /\ Logged(c, FALSE) => Logged(c, FALSE)'
             /\ d # c /\ Logged(c, TRUE) => Logged(c, TRUE)'
  <2>1. /\ Len(audit') = Len(audit) /\ DOMAIN audit' = DOMAIN audit
        /\ \A i \in DOMAIN audit : /\ audit'[i].name = audit[i].name
                                   /\ audit[i].open = FALSE => audit'[i].open = FALSE
                                   /\ audit[i].name # NameOf[d] => audit'[i] = audit[i]
    BY <1>0, <1>5, ReleaseOk
  <2>2. d # c => NameOf[d] # NameOf[c] /\ NameOf[d] # ""
    BY NamesAssumption DEF UniqueName
  <2> QED
    BY <1>0, <2>1, <2>2 DEF Full, Logged
<1>6. ASSUME NEW d \in Clients, UnkeyLog(d)
      PROVE  /\ Full => Full'
             /\ Logged(c, FALSE) => Logged(c, FALSE)'
             /\ d # c /\ Logged(c, TRUE) => Logged(c, TRUE)'
  <2>1. Release(NameOf[d]) \/ audit' = audit
    BY <1>6 DEF UnkeyLog
  <2>2. CASE audit' = audit
    BY <1>0, <2>2 DEF Full, Logged
  <2> QED
    BY <1>5, <2>1, <2>2
<1>7. /\ KeyLog(c) => ~BurstLog(c) /\ ~UnkeyLog(c)
      /\ BurstLog(c) => ~UnkeyLog(c)
  BY DEF KeyLog, BurstLog, UnkeyLog, At
<1>8. CASE UNCHANGED audit
  BY <1>0, <1>1, <1>3, <1>4, <1>8 DEF Full, Logged
<1>9. CASE \E d \in Clients : KeyLog(d) \/ BurstLog(d) \/ UnkeyLog(d)
  <2>1. PICK d \in Clients : KeyLog(d) \/ BurstLog(d) \/ UnkeyLog(d)
    BY <1>9
  <2> QED
    BY <1>3, <1>4, <1>6, <2>1
<1> QED
  BY <1>8, <1>9, LogStep

-----------------------------------------------------------------------------
(* What is on its way to the air *)

\* A client's key is on the air, or in the channel, only with a release behind it.
KeyQuiet(c) ==
    /\ at = "tx" /\ on.by = c /\ on.op = "key" => Unkeys # {}
    /\ \A i \in DOMAIN cmds : cmds[i].op = "key" /\ cmds[i].by = c => \E j \in Unkeys : j > i

\* No clip of this client is on the air or in the channel.
NoSay(c) ==
    /\ ~(at = "tx" /\ on.by = c /\ on.op = "say")
    /\ \A i \in DOMAIN cmds : ~(cmds[i].op = "say" /\ cmds[i].by = c)

\* A request that sends a key or a clip is about to log it.
Sends(cmd, c) == \/ cmd.op = "key" /\ KeySend(c) /\ pc'[c] = "log"
                 \/ cmd.op = "say" /\ SaySend(c) /\ pc'[c] = "logburst"

\* What a step does to the channel and to the air, at once.
LEMMA AirStep ==
  ASSUME Types, [Next]_vars
  PROVE  \/ cmds' \in {cmds, <<>>} /\ at' # "tx"
         \/ UNCHANGED <<cmds, at, on>>
         \/ cmds' = <<>> /\ Unkeys = {} /\ UNCHANGED <<at, on>>
         \/ /\ UNCHANGED <<at, on>>
            /\ \E cmd \in Commands :
                 Send(cmd) /\ (cmd.op \in KeyOps => cmd.by \in Clients /\ Sends(cmd, cmd.by))
         \/ /\ cmds # <<>> /\ cmds' = Tail(cmds)
            /\ at' = "tx" => on' = [by |-> Head(cmds).by, op |-> Head(cmds).op]
         \/ TxUnkey
<1>1. CASE \E c \in Clients : Request(c)
  <2> SUFFICES ASSUME NEW c \in Clients, Request(c)
               PROVE  \/ UNCHANGED <<cmds, at, on>>
                      \/ /\ UNCHANGED <<at, on>>
                         /\ \E cmd \in Commands : /\ Send(cmd)
                                                  /\ cmd.op \in KeyOps => cmd.by = c /\ Sends(cmd, c)
    BY <1>1
  <2>1. UNCHANGED <<at, on>>
    BY DEF Request, KeyCheck, KeyClear, KeySend, KeyLog, UnkeySend, UnkeyLog, SayCheck, SayGone,
           SayClear, SayPush, SaySend, BurstCheck, BurstSend, BurstLog, threadVars
  <2>2. CASE Accepting /\ (KeySend(c) \/ UnkeySend(c) \/ SaySend(c) \/ BurstSend(c))
    <3>1. /\ Command("key", c, KeyTime) \in Commands /\ Command("unkey", NoOne, 0) \in Commands
          /\ Command("say", c, ClipLen + 1) \in Commands /\ Command("burst", c, 0) \in Commands
      BY Sizes DEF Command, Commands
    <3>2. pc \in [Clients -> Points]
      BY DEF Types, RequestType
    <3>3. CASE KeySend(c)
      <4>1. Send(Command("key", c, KeyTime)) /\ pc'[c] = "log"
        BY <2>2, <3>2, <3>3 DEF KeySend, Goto
      <4>2. Sends(Command("key", c, KeyTime), c) /\ Command("key", c, KeyTime).by = c
        BY <3>3, <4>1 DEF Sends, Command
      <4> QED
        BY <2>1, <3>1, <4>1, <4>2
    <3>4. CASE SaySend(c)
      <4>1. Send(Command("say", c, ClipLen + 1)) /\ pc'[c] = "logburst"
        BY <2>2, <3>2, <3>4 DEF SaySend, Goto
      <4>2. Sends(Command("say", c, ClipLen + 1), c) /\ Command("say", c, ClipLen + 1).by = c
        BY <3>4, <4>1 DEF Sends, Command
      <4> QED
        BY <2>1, <3>1, <4>1, <4>2
    <3>5. CASE UnkeySend(c) \/ BurstSend(c)
      <4>1. Send(Command("unkey", NoOne, 0)) \/ Send(Command("burst", c, 0))
        BY <2>2, <3>5 DEF UnkeySend, BurstSend
      <4>2. Command("unkey", NoOne, 0).op \notin KeyOps /\ Command("burst", c, 0).op \notin KeyOps
        BY DEF Command, KeyOps
      <4> QED
        BY <2>1, <3>1, <4>1, <4>2
    <3> QED
      BY <2>2, <3>3, <3>4, <3>5
  <2>3. CASE ~(Accepting /\ (KeySend(c) \/ UnkeySend(c) \/ SaySend(c) \/ BurstSend(c)))
    <3>1. UNCHANGED cmds
      BY <2>3 DEF Request, KeyCheck, KeyClear, KeySend, KeyLog, UnkeySend, UnkeyLog, SayCheck,
                  SayGone, SayClear, SayPush, SaySend, BurstCheck, BurstSend, BurstLog
    <3> QED
      BY <2>1, <3>1
  <2> QED
    BY <2>2, <2>3
<1>2. CASE Thread
  <2>1. CASE TakeRetune \/ TakeScan \/ TakeScanStop \/ TakeIgnored \/ TakeKey \/ TakeBurst
    <3>1. cmds # <<>> /\ cmds' = Tail(cmds) /\ at = "rx"
      BY <2>1 DEF TakeRetune, TakeScan, TakeScanStop, TakeIgnored, TakeKey, TakeBurst, Take
    <3>2. at' = at \/ on' = [by |-> Head(cmds).by, op |-> Head(cmds).op]
      BY <2>1 DEF TakeRetune, TakeScan, TakeScanStop, TakeIgnored, TakeKey, TakeBurst, Transmit,
                  threadVars
    <3> QED
      BY <3>1, <3>2
  <2>2. CASE ScanFrame \/ ThreadStops \/ TxOver \/ TxFails \/ BurstOver \/ BurstLosesRx
    BY <2>2 DEF ScanFrame, ThreadStops, TxOver, TxFails, BurstOver, BurstLosesRx, Receive
  <2>3. CASE TxDrop
    BY <2>3 DEF TxDrop, threadVars
  <2>4. CASE TxChunk
    BY <2>4 DEF TxChunk
  <2> QED
    BY <1>2, <2>1, <2>2, <2>3, <2>4 DEF Thread
<1>3. CASE MicPush \/ Start \/ Stop \/ StopJoined \/ \E k \in Kinds : SetMode(k)
  BY <1>3 DEF MicPush, Start, Stop, StopJoined, SetMode, threadVars
<1>4. CASE ScanStart \/ ScanStop \/ \E f \in Freqs : Tune(f)
  <2>1. UNCHANGED <<at, on>>
    BY <1>4 DEF ScanStart, ScanStop, Tune, threadVars
  <2>2. UNCHANGED cmds \/ \E cmd \in Commands : Send(cmd) /\ cmd.op \notin KeyOps
    <3>1. /\ Command("scan", NoOne, 0) \in Commands /\ Command("scanstop", NoOne, 0) \in Commands
          /\ \A f \in Freqs : Command("retune", NoOne, f) \in Commands
      BY ScanAssumption DEF Command, Commands
    <3> QED
      BY <1>4, <3>1 DEF ScanStart, ScanStop, Tune, Command, KeyOps
  <2> QED
    BY <2>1, <2>2
<1>5. CASE UNCHANGED vars
  BY <1>5 DEF vars
<1> QED
  BY <1>1, <1>2, <1>3, <1>4, <1>5 DEF Next

\* Reading the first command leaves a release behind what it was behind.
LEMMA KeyTaken ==
  ASSUME Waiting, NEW c, KeyQuiet(c), cmds # <<>>, cmds' = Tail(cmds),
         at' = "tx" => on' = [by |-> Head(cmds).by, op |-> Head(cmds).op]
  PROVE  KeyQuiet(c)'
<1>1. /\ \A i \in DOMAIN cmds' : cmds'[i] = cmds[i + 1] /\ i + 1 \in DOMAIN cmds
      /\ Head(cmds) = cmds[1] /\ 1 \in DOMAIN cmds
  BY HeadTail
<1>2. DOMAIN cmds = 1..Len(cmds) /\ Len(cmds) \in Nat /\ DOMAIN cmds' = 1..(Len(cmds) - 1)
  BY HeadTail DEF Waiting
<1>3. \A j \in Unkeys : j > 1 => j - 1 \in Unkeys' /\ j \in Nat
  <2> SUFFICES ASSUME NEW j \in Unkeys, j > 1 PROVE j - 1 \in Unkeys' /\ j \in Nat
    OBVIOUS
  <2>1. j \in DOMAIN cmds /\ cmds[j].op = "unkey" /\ j \in Nat
    BY <1>2 DEF Unkeys
  <2>2. j - 1 \in DOMAIN cmds' /\ (j - 1) + 1 = j
    BY <1>2, <2>1
  <2> QED
    BY <1>1, <2>1, <2>2 DEF Unkeys
<1>4. ASSUME at' = "tx", on'.by = c, on'.op = "key" PROVE Unkeys' # {}
  <2>1. PICK j \in Unkeys : j > 1
    BY <1>1, <1>4 DEF KeyQuiet
  <2> QED
    BY <1>3, <2>1
<1>5. ASSUME NEW i \in DOMAIN cmds', cmds'[i].op = "key", cmds'[i].by = c
      PROVE  \E j \in Unkeys' : j > i
  <2>1. PICK j \in Unkeys : j > i + 1
    BY <1>1, <1>5 DEF KeyQuiet
  <2>2. i \in Nat /\ j \in Nat
    BY <1>2, <2>1 DEF Unkeys
  <2>3. j > 1 /\ j - 1 > i
    BY <1>2, <2>1, <2>2
  <2> QED
    BY <1>3, <2>3
<1> QED
  BY <1>4, <1>5 DEF KeyQuiet

\* So does dropping what came up to the first release.
LEMMA KeyUnkeyed ==
  ASSUME Waiting, NEW c, KeyQuiet(c), TxUnkey
  PROVE  KeyQuiet(c)'
<1>1. PICK n \in DOMAIN cmds :
         /\ cmds' \in Seq(Commands)
         /\ \A i \in DOMAIN cmds' : i + n \in DOMAIN cmds /\ cmds'[i] = cmds[i + n]
         /\ \A j \in DOMAIN cmds : j > n => j - n \in DOMAIN cmds'
  BY Unkeyed DEF Waiting
<1>2. DOMAIN cmds \subseteq Nat /\ DOMAIN cmds' \subseteq Nat
  BY <1>1 DEF Waiting
<1>3. ASSUME NEW i \in DOMAIN cmds', cmds'[i].op = "key", cmds'[i].by = c
      PROVE  \E j \in Unkeys' : j > i
  <2>1. PICK j \in Unkeys : j > i + n
    BY <1>1, <1>3 DEF KeyQuiet
  <2>2. j \in DOMAIN cmds /\ cmds[j].op = "unkey"
    BY DEF Unkeys
  <2>3. j > n /\ j - n > i /\ (j - n) + n = j
    BY <1>2, <2>1, <2>2
  <2>4. j - n \in DOMAIN cmds' /\ cmds'[j - n] = cmds[j]
    BY <1>1, <2>2, <2>3
  <2>5. j - n \in Unkeys'
    BY <2>2, <2>4 DEF Unkeys
  <2> QED
    BY <2>3, <2>5
<1>4. at' # "tx"
  BY DEF TxUnkey, Receive
<1> QED
  BY <1>3, <1>4 DEF KeyQuiet

\* A key without a release behind it has just been sent.
LEMMA KeyQuietNext ==
  ASSUME Types, NEW c \in Clients, KeyQuiet(c), [Next]_vars
  PROVE  KeyQuiet(c)' \/ (KeySend(c) /\ pc'[c] = "log")
<1>a. Waiting /\ cmds \in Seq(Commands)
  BY DEF Types, Waiting
<1>1. CASE (cmds' \in {cmds, <<>>} /\ at' # "tx") \/ UNCHANGED <<cmds, at, on>>
  BY <1>1 DEF KeyQuiet, Unkeys
<1>2. CASE cmds' = <<>> /\ Unkeys = {} /\ UNCHANGED <<at, on>>
  BY <1>2 DEF KeyQuiet
<1>3. ASSUME NEW cmd \in Commands, Send(cmd), UNCHANGED <<at, on>>,
             cmd.op \in KeyOps => cmd.by \in Clients /\ Sends(cmd, cmd.by)
      PROVE  KeyQuiet(c)' \/ (KeySend(c) /\ pc'[c] = "log")
  <2>1. /\ DOMAIN cmds' = DOMAIN cmds \cup {Len(cmds) + 1} /\ cmds'[Len(cmds) + 1] = cmd
        /\ \A i \in DOMAIN cmds : cmds'[i] = cmds[i]
    BY <1>a, <1>3, Sent
  <2>2. Unkeys \subseteq Unkeys'
    BY <2>1 DEF Unkeys
  <2>3. CASE cmd.op = "key" /\ cmd.by = c
    BY <1>3, <2>3 DEF Sends, KeyOps
  <2>4. CASE ~(cmd.op = "key" /\ cmd.by = c)
    BY <1>3, <2>1, <2>2, <2>4 DEF KeyQuiet
  <2> QED
    BY <2>3, <2>4
<1> QED
  BY <1>a, <1>1, <1>2, <1>3, KeyTaken, KeyUnkeyed, AirStep

\* A clip comes from its client's request only.
LEMMA NoSayNext ==
  ASSUME Types, NEW c \in Clients, NoSay(c), [Next]_vars
  PROVE  NoSay(c)' \/ (SaySend(c) /\ pc'[c] = "logburst")
<1>a. Waiting /\ cmds \in Seq(Commands)
  BY DEF Types, Waiting
<1>1. CASE \/ cmds' \in {cmds, <<>>} /\ at' # "tx"
           \/ UNCHANGED <<cmds, at, on>>
           \/ cmds' = <<>> /\ UNCHANGED <<at, on>>
  BY <1>1 DEF NoSay
<1>2. ASSUME NEW cmd \in Commands, Send(cmd), UNCHANGED <<at, on>>,
             cmd.op \in KeyOps => cmd.by \in Clients /\ Sends(cmd, cmd.by)
      PROVE  NoSay(c)' \/ (SaySend(c) /\ pc'[c] = "logburst")
  <2>1. /\ DOMAIN cmds' = DOMAIN cmds \cup {Len(cmds) + 1} /\ cmds'[Len(cmds) + 1] = cmd
        /\ \A i \in DOMAIN cmds : cmds'[i] = cmds[i]
    BY <1>a, <1>2, Sent
  <2>2. CASE cmd.op = "say" /\ cmd.by = c
    BY <1>2, <2>2 DEF Sends, KeyOps
  <2>3. CASE ~(cmd.op = "say" /\ cmd.by = c)
    BY <1>2, <2>1, <2>3 DEF NoSay
  <2> QED
    BY <2>2, <2>3
<1>3. CASE cmds # <<>> /\ cmds' = Tail(cmds)
           /\ (at' = "tx" => on' = [by |-> Head(cmds).by, op |-> Head(cmds).op])
  <2>1. /\ \A i \in DOMAIN cmds' : cmds'[i] = cmds[i + 1] /\ i + 1 \in DOMAIN cmds
        /\ Head(cmds) = cmds[1] /\ 1 \in DOMAIN cmds
    BY <1>a, <1>3, HeadTail
  <2> QED
    BY <1>3, <2>1 DEF NoSay
<1>4. CASE TxUnkey
  <2>1. PICK n \in DOMAIN cmds :
           \A i \in DOMAIN cmds' : i + n \in DOMAIN cmds /\ cmds'[i] = cmds[i + n]
    BY <1>a, <1>4, Unkeyed
  <2>2. at' # "tx"
    BY <1>4 DEF TxUnkey, Receive
  <2> QED
    BY <2>1, <2>2 DEF NoSay
<1> QED
  BY <1>1, <1>2, <1>3, <1>4, AirStep

\* What a request has to do next, and whether it was the last to release, is
\* changed by its own steps.
LEMMA RequestStep ==
  ASSUME Types, NEW c \in Clients, [Next]_vars
  PROVE  /\ pc[c] = "log" => pc'[c] = "log" \/ KeyLog(c)
         /\ pc[c] = "logburst" => pc'[c] = "logburst" \/ BurstLog(c)
         /\ pc'[c] = "release" => c \in released' \/ (pc[c] = "release" /\ c \notin released)
         /\ c \in released => c \in released' \/ running
         /\ running' => running \/ (cmds' = <<>> /\ at' # "tx")
<1>a. pc \in [Clients -> Points] /\ released \subseteq Clients
  BY DEF Types, RequestType
<1>1. CASE UNCHANGED requestVars
  <2>1. running' => running \/ Start
    BY RadioStep DEF RadioMoves, Stop, StopJoined, SetMode, Tune, radioVars
  <2>2. Start => cmds' = <<>> /\ at' # "tx"
    BY DEF Start
  <2> QED
    BY <1>1, <2>1, <2>2 DEF requestVars
<1>2. ASSUME NEW d \in Clients, Request(d)
      PROVE  /\ pc[c] = "log" => pc'[c] = "log" \/ KeyLog(c)
             /\ pc[c] = "logburst" => pc'[c] = "logburst" \/ BurstLog(c)
             /\ pc'[c] = "release" => c \in released' \/ (pc[c] = "release" /\ c \notin released)
             /\ c \in released => c \in released' \/ running
             /\ running' = running
  <2>1. CASE d # c
    <3>1. pc'[c] = pc[c]
      BY <1>a, <1>2, <2>1 DEF Request, KeyCheck, KeyClear, KeySend, KeyLog, UnkeySend, UnkeyLog,
         SayCheck, SayGone, SayClear, SayPush, SaySend, BurstCheck, BurstSend, BurstLog, Goto
    <3>2. (c \in released' <=> c \in released) /\ running' = running
      BY <1>a, <1>2, <2>1 DEF Request, KeyCheck, KeyClear, KeySend, KeyLog, UnkeySend, UnkeyLog,
         SayCheck, SayGone, SayClear, SayPush, SaySend, BurstCheck, BurstSend, BurstLog, radioVars
    <3> QED
      BY <3>1, <3>2
  <2>2. CASE d = c
    <3>1. running' = running
      BY <1>2 DEF Request, KeyCheck, KeyClear, KeySend, KeyLog, UnkeySend, UnkeyLog,
         SayCheck, SayGone, SayClear, SayPush, SaySend, BurstCheck, BurstSend, BurstLog, radioVars
    <3>2. c \in released => c \in released' \/ running
      BY <1>2, <2>2 DEF Request, KeyCheck, KeyClear, KeySend, KeyLog, UnkeySend, UnkeyLog,
         SayCheck, SayGone, SayClear, SayPush, SaySend, BurstCheck, BurstSend, BurstLog, Accepting
    <3>3. pc'[c] = "release" => c \in released'
      BY <1>a, <1>2, <2>2 DEF Request, KeyCheck, KeyClear, KeySend, KeyLog, UnkeySend, UnkeyLog,
         SayCheck, SayGone, SayClear, SayPush, SaySend, BurstCheck, BurstSend, BurstLog, Goto, At
    <3>4. pc[c] = "log" => KeyLog(c)
      BY <1>2, <2>2 DEF Request, KeyCheck, KeyClear, KeySend, UnkeySend, UnkeyLog,
         SayCheck, SayGone, SayClear, SayPush, SaySend, BurstCheck, BurstSend, BurstLog, At
    <3>5. pc[c] = "logburst" => BurstLog(c)
      BY <1>2, <2>2 DEF Request, KeyCheck, KeyClear, KeySend, KeyLog, UnkeySend, UnkeyLog,
         SayCheck, SayGone, SayClear, SayPush, SaySend, BurstCheck, BurstSend, At
    <3> QED
      BY <3>1, <3>2, <3>3, <3>4, <3>5
  <2> QED
    BY <2>1, <2>2
<1>3. CASE Thread
  BY <1>1, <1>3 DEF Thread, TakeRetune, TakeScan, TakeScanStop, TakeIgnored, ScanFrame,
      ThreadStops, TakeKey, TxUnkey, TxDrop, TxChunk, TxOver, TxFails, TakeBurst, BurstOver,
      BurstLosesRx
<1>4. CASE \/ MicPush \/ Start \/ Stop \/ StopJoined \/ ScanStart \/ ScanStop
           \/ \E k \in Kinds : SetMode(k)
           \/ \E f \in Freqs : Tune(f)
  BY <1>1, <1>4 DEF MicPush, Start, Stop, StopJoined, ScanStart, ScanStop, SetMode, Tune
<1>5. CASE UNCHANGED vars
  BY <1>1, <1>5 DEF vars, requestVars
<1> QED
  BY <1>2, <1>3, <1>4, <1>5 DEF Next

\* The log and the air, for one client: a release it is about to log has been
\* sent; its key is logged, or is about to be, or has a release behind it; its
\* clip is logged or is about to be.
LogInv(c) ==
    /\ pc[c] = "release" => c \in released
    /\ \/ KeyQuiet(c) \/ Full \/ pc[c] = "log" \/ Logged(c, TRUE)
       \/ ~running /\ c \in released
    /\ NoSay(c) \/ Full \/ pc[c] = "logburst" \/ Logged(c, FALSE)

\* Every step keeps that.
LEMMA LogInvNext ==
  ASSUME Types, Closed, ReleasedGoesQuiet, LogType, NEW c \in Clients, UniqueName(c), LogInv(c),
         [Next]_vars
  PROVE  LogInv(c)'
<1>1. pc'[c] = "release" => c \in released'
  BY RequestStep DEF LogInv
<1>2. UnkeyLog(c) => KeyQuiet(c) \/ (~running /\ c \in released)
  <2> SUFFICES ASSUME UnkeyLog(c), running PROVE KeyQuiet(c)
    BY DEF LogInv, UnkeyLog, At
  <2>1. c \in released
    BY DEF LogInv, UnkeyLog, At
  <2>2. Quiet(c)
    BY <2>1 DEF ReleasedGoesQuiet, Quiet
  <2> QED
    BY <2>2 DEF KeyQuiet, Quiet, Queued, KeyOps, Unkeys
<1>3. KeyQuiet(c) => KeyQuiet(c)' \/ pc'[c] = "log"
  BY KeyQuietNext
<1>4. (~running /\ c \in released) => (~running /\ c \in released)' \/ KeyQuiet(c)'
  <2>1. cmds' = <<>> /\ at' # "tx" => KeyQuiet(c)'
    BY DEF KeyQuiet
  <2> QED
    BY <2>1, RequestStep
<1>5. \/ KeyQuiet(c)' \/ Full' \/ pc'[c] = "log" \/ Logged(c, TRUE)'
      \/ (~running /\ c \in released)'
  BY <1>2, <1>3, <1>4, RequestStep, EntriesStay DEF LogInv
<1>6. NoSay(c)' \/ Full' \/ pc'[c] = "logburst" \/ Logged(c, FALSE)'
  BY NoSayNext, RequestStep, EntriesStay DEF LogInv
<1> QED
  BY <1>1, <1>5, <1>6 DEF LogInv

-----------------------------------------------------------------------------
(* Theorems *)

\* The inductive invariant.  RxOnChannel needs to know that a thread that is gone
\* is not shown as keyed; ReleasedGoesQuiet that the channel goes with its
\* thread; FreshAudio speaks of the client on the air, HeldFresh of every client
\* from the moment it clears the buffer; AirIsLogged of what is on the air, LogInv
\* of a key or a clip from the moment it is sent.
IInv == /\ Types /\ Receiving /\ ScanOnChannel
        /\ Closed /\ ReleasedGoesQuiet
        /\ AudioType /\ HeldFresh /\ OnAir
        /\ LogType /\ \A c \in Clients : UniqueName(c) => LogInv(c)

\* It holds at the start.
LEMMA InvInit ==
  ASSUME Init
  PROVE  IInv
<1>1. Types
  BY TypesInit
<1>2. Receiving /\ ScanOnChannel /\ Closed /\ ReleasedGoesQuiet /\ OnAir
  BY DEF Init, Receiving, ScanOnChannel, Closed, ReleasedGoesQuiet, OnAir
<1>3. AudioType /\ HeldFresh
  BY DEF Init, AudioType, HeldFresh
<1>4. LogType
  BY PlansAssumption DEF Init, LogType, AuditCap
<1>5. \A c \in Clients : LogInv(c)
  BY DEF Init, LogInv, KeyQuiet, NoSay
<1> QED
  BY <1>1, <1>2, <1>3, <1>4, <1>5 DEF IInv

\* Every step keeps it.
LEMMA InvNext ==
  ASSUME IInv, [Next]_vars
  PROVE  IInv'
<1>1. LogType'
  BY LogTypeNext DEF IInv
<1>2. \A c \in Clients : UniqueName(c)' => LogInv(c)'
  BY LogInvNext DEF IInv, UniqueName
<1> QED
  BY <1>1, <1>2, TypesNext, ReceivingNext, ScanNext, ClosedNext, QuietNext, FreshNext, OnAirNext
     DEF IInv

\* It holds in every state.
THEOREM PttType == Spec => []IInv
<1>1. Init => IInv
  BY InvInit
<1>2. IInv /\ [Next]_vars => IInv'
  BY InvNext
<1> QED
  BY <1>1, <1>2, PTL DEF Spec

\* Receiving is receiving: not shown as keyed, and on the thread's channel,
\* whatever a key, a burst, a scan or a PATCH did before (run_sdr, key_tx).
THEOREM RxKeepsChannel == Spec => []RxOnChannel
<1>1. IInv => RxOnChannel
  BY DEF IInv, Receiving, RxOnChannel
<1> QED
  BY <1>1, PttType, PTL

\* A scan shows the channel the radio is on (run_sdr's Retune and ScanRun).
THEOREM ScanKeepsChannel == Spec => []ScanOnChannel
<1>1. IInv => ScanOnChannel
  BY DEF IInv
<1> QED
  BY <1>1, PttType, PTL

\* A client that has released goes off the air and no key of its own comes
\* after (key_tx drains the channel up to the first release).
THEOREM ReleaseSilences == Spec => []ReleasedGoesQuiet
<1>1. IInv => ReleasedGoesQuiet
  BY DEF IInv
<1> QED
  BY <1>1, PttType, PTL

\* Nothing is transmitted that was captured before its client asked (key() and
\* say() clear the buffer before they send).
THEOREM AirIsFresh == Spec => []FreshAudio
<1>1. IInv => FreshAudio
  BY DEF IInv, HeldFresh, OnAir, Held, FreshAudio
<1> QED
  BY <1>1, PttType, PTL

\* What is on the air is in the log, or its request is about to write it: a key
\* with an open entry until its release is sent, a clip with a closed one
\* (tx_log_key, tx_log_release, the ring of TxAudit).
THEOREM AirLogged == Spec => []AirIsLogged
<1>1. IInv => AirIsLogged
  BY DEF IInv, OnAir, KeyOps, LogInv, KeyQuiet, NoSay, Full, AirIsLogged
<1> QED
  BY <1>1, PttType, PTL

=============================================================================
