----------------------------- MODULE PushToTalk -----------------------------
(***************************************************************************)
(* Transmitting and scanning (server/src/radio/mod.rs, api/radio.rs,         *)
(* api/aprs.rs, api/sstv.rs): the requests that key the radio, the command   *)
(* channel they write, the pipeline thread that reads it, the one buffer of  *)
(* audio to transmit and the transmit log.                                   *)
(*                                                                           *)
(* An action is one critical section of a request or one turn of the          *)
(* thread's loops.  A client has one request at a time, `pc[c]` is where it   *)
(* is.  The radio is started and stopped here in one step each, a stop waits  *)
(* for its thread, and a PATCH stores and sends in one step: how they          *)
(* interleave is RadioManager's subject.  Server policy and the device's       *)
(* ability to transmit are given.                                              *)
(*                                                                            *)
(* Time and audio are counted in pieces: a key lasts KeyTime of them (10 s),   *)
(* a clip one more than it has (0.4 s), the buffer holds AudioCap (2 s).        *)
(***************************************************************************)
EXTENDS Naturals, Sequences, FiniteSets, SequencesExt

CONSTANTS Clients,
          NameOf,     \* the client name each registered with, need not be unique
          Plans,      \* workloads: the requests each client makes, what else happens,
                      \* and how many entries the log keeps (TX_AUDIT_CAP)
          Kinds,      \* pipelines: "voice" is run_sdr, "burst" run_aprs and run_sstv
          Freqs,      \* frequencies a PATCH asks for
          ScanList,   \* the channels of a scan
          KeyTime, ClipLen, AudioCap,
          MaxQueue,   \* bound: commands waiting in the channel
          NoOne, NoScan

ASSUME SizesAssumption ==
    /\ KeyTime \in Nat \ {0} /\ ClipLen \in Nat \ {0} /\ AudioCap \in Nat \ {0}
    /\ MaxQueue \in Nat \ {0}
ASSUME ScanAssumption ==
    /\ Freqs \subseteq Nat /\ Freqs # {}
    /\ ScanList \in Seq(Freqs) /\ ScanList # <<>>
ASSUME PlansAssumption ==
    Plans \subseteq [calls: [Clients -> SUBSET {"key", "unkey", "say", "burst"}],
                     env: SUBSET {"mic", "nodevice", "stop", "mode", "tune", "scan"},
                     log: Nat \ {0}]
ASSUME NamesAssumption == /\ NoOne \notin Clients
                          /\ NameOf \in [Clients -> STRING]
                          /\ \A c \in Clients : NameOf[c] # ""

VARIABLES plan,       \* the workload of this behaviour, chosen once
          running,    \* RunState.running: the command sender is there
          stopping,   \* the stop flag of the thread
          cfg,        \* RadioConfig: kind of pipeline and frequency
          cmds,       \* the command channel
          audio,      \* TxAudioSource
          audit,      \* TxAudit, oldest first
          keyed,      \* Telemetry.tx_keyed
          at,         \* thread: gone, receiving, in key_tx or in a burst
          kind,       \* thread: the pipeline it runs
          cur, scan,  \* thread: cur_freq_hz and ScanRun
          hw,         \* what the device is tuned for
          on,         \* thread: what is on the air, and for whom
          left,       \* thread: pieces to go until the time limit
          pc,
          released    \* history: clients whose last request was a release

requestVars == <<pc, released>>
threadVars  == <<at, kind, cur, scan, hw, on, left, keyed>>
radioVars   == <<plan, running, stopping, cfg>>
vars == <<plan, running, stopping, cfg, cmds, audio, audit, keyed, at, kind, cur, scan,
          hw, on, left, pc, released>>

Points == {"idle", "key", "cleared", "log", "release",
           "synth", "push", "say", "burst", "logburst"}
Commands == [op: {"key", "say", "unkey", "retune", "scan", "scanstop", "burst"},
             by: Clients \cup {NoOne}, arg: Nat]
Pieces   == [part: 0..ClipLen, asked: SUBSET Clients]    \* part 0: microphone
Entries  == [name: Range(NameOf) \cup {""}, open: BOOLEAN]
Scans    == [idx: DOMAIN ScanList, st: {"dwell", "parked", "lost"}]

TypeOK ==
    /\ plan \in Plans
    /\ running \in BOOLEAN /\ stopping \in BOOLEAN /\ keyed \in BOOLEAN
    /\ cfg \in [kind: Kinds, freq: Freqs]
    /\ cmds \in Seq(Commands) /\ Len(cmds) <= MaxQueue
    /\ audio \in Seq(Pieces) /\ Len(audio) <= AudioCap
    /\ audit \in Seq(Entries) /\ Len(audit) <= plan.log
    /\ at \in {"gone", "rx", "tx", "burst"}
    /\ kind \in Kinds
    /\ cur \in Freqs
    /\ scan \in Scans \cup {NoScan}
    /\ hw \in [dir: {"rx", "tx"}, freq: Freqs]
    /\ on \in [by: Clients \cup {NoOne}, op: {"none", "key", "say", "burst"}]
    /\ left \in Nat
    /\ pc \in [Clients -> Points]
    /\ released \subseteq Clients

AuditCap == plan.log

At(c, point) == pc[c] = point
Goto(c, point) == pc' = [pc EXCEPT ![c] = point]
KeyOps == {"key", "say"}      \* both are PipelineCmd::Key
Nothing == [by |-> NoOne, op |-> "none"]
Command(op, c, arg) == [op |-> op, by |-> c, arg |-> arg]
Tuned(dir, f) == [dir |-> dir, freq |-> f]
Queued(c) == {i \in DOMAIN cmds : cmds[i].op \in KeyOps /\ cmds[i].by = c}

\* The clients that have asked to transmit and dropped what was buffered before.
Asking == {c \in Clients : \/ pc[c] \in {"cleared", "push", "say", "log", "logburst"}
                           \/ on.by = c
                           \/ Queued(c) # {}}

Init ==
    /\ plan \in Plans
    /\ running = FALSE /\ stopping = FALSE /\ keyed = FALSE
    /\ cfg \in [kind: Kinds, freq: {CHOOSE f \in Freqs : TRUE}]
    /\ cmds = <<>> /\ audio = <<>> /\ audit = <<>>
    /\ at = "gone" /\ kind = cfg.kind /\ cur = cfg.freq /\ scan = NoScan
    /\ hw = Tuned("rx", cfg.freq)
    /\ on = Nothing /\ left = 0
    /\ pc = [c \in Clients |-> "idle"]
    /\ released = {}

-----------------------------------------------------------------------------
(* The command channel and the audio buffer *)

\* The receiver goes with its thread; senders then get an error.
Accepting == running /\ at # "gone"

Send(cmd) == Len(cmds) < MaxQueue /\ cmds' = Append(cmds, cmd)

\* The newest AudioCap pieces: the buffer drops the oldest.
Capped(s) == IF Len(s) > AudioCap THEN SubSeq(s, Len(s) - AudioCap + 1, Len(s)) ELSE s

Push(parts) == audio' = Capped(audio \o [i \in DOMAIN parts |->
                                           [part |-> parts[i], asked |-> Asking]])

\* Audio decoded from any session's microphone track.
MicPush ==
    /\ "mic" \in plan.env
    /\ Push(<<0>>)
    /\ UNCHANGED <<radioVars, threadVars, cmds, audit, requestVars>>

-----------------------------------------------------------------------------
(* The transmit log *)

Log(entry) == audit' = Append(IF Len(audit) >= AuditCap THEN Tail(audit) ELSE audit, entry)

OpenOf(name) == {i \in DOMAIN audit : audit[i].open /\ audit[i].name = name}

\* Close the newest open entry under this name.
Release(name) ==
    audit' = IF OpenOf(name) = {} THEN audit
             ELSE [audit EXCEPT ![Max(OpenOf(name))].open = FALSE]

\* sessions.get(auth.id): the session may have ended since it was authenticated.
NamesNow(c) == {NameOf[c], ""}

-----------------------------------------------------------------------------
(* POST /radio/tx/key and /unkey *)

KeyCheck(c) ==
    /\ At(c, "idle") /\ "key" \in plan.calls[c]
    /\ running /\ cfg.kind = "voice"
    /\ Goto(c, "key")
    /\ UNCHANGED <<radioVars, threadVars, cmds, audio, audit, released>>

\* Mutant of KeyClear: what was buffered before stays.
KeyClear_Keeps(c) ==
    /\ At(c, "key")
    /\ Goto(c, "cleared")
    /\ UNCHANGED <<radioVars, threadVars, cmds, audio, audit, released>>

KeyClear(c) ==
    /\ At(c, "key")
    /\ audio' = <<>>
    /\ Goto(c, "cleared")
    /\ UNCHANGED <<radioVars, threadVars, cmds, audit, released>>

KeySend(c) ==
    /\ At(c, "cleared")
    /\ IF Accepting
         THEN /\ Send(Command("key", c, KeyTime))
              /\ Goto(c, "log")
              /\ released' = released \ {c}
         ELSE Goto(c, "idle") /\ UNCHANGED <<cmds, released>>
    /\ UNCHANGED <<radioVars, threadVars, audio, audit>>

\* Mutant of KeyLog: only a key that is on the air by now is logged.
KeyLog_OnAir(c) ==
    /\ At(c, "log")
    /\ \E name \in NamesNow(c) :
         IF keyed THEN Log([name |-> name, open |-> TRUE]) ELSE UNCHANGED audit
    /\ Goto(c, "idle")
    /\ UNCHANGED <<radioVars, threadVars, cmds, audio, released>>

KeyLog(c) ==
    /\ At(c, "log")
    /\ \E name \in NamesNow(c) : Log([name |-> name, open |-> TRUE])
    /\ Goto(c, "idle")
    /\ UNCHANGED <<radioVars, threadVars, cmds, audio, released>>

UnkeySend(c) ==
    /\ At(c, "idle") /\ "unkey" \in plan.calls[c]
    /\ IF Accepting THEN Send(Command("unkey", NoOne, 0)) ELSE UNCHANGED cmds
    /\ Goto(c, "release")
    /\ released' = released \cup {c}
    /\ UNCHANGED <<radioVars, threadVars, audio, audit>>

UnkeyLog(c) ==
    /\ At(c, "release")
    /\ Release(NameOf[c]) \/ UNCHANGED audit        \* not if the session has ended
    /\ Goto(c, "idle")
    /\ UNCHANGED <<radioVars, threadVars, cmds, audio, released>>

-----------------------------------------------------------------------------
(* POST /radio/tx/say, POST /aprs/tx, POST /sstv/tx *)

SayCheck(c) ==
    /\ At(c, "idle") /\ "say" \in plan.calls[c]
    /\ running /\ cfg.kind = "voice"
    /\ Goto(c, "synth")
    /\ UNCHANGED <<radioVars, threadVars, cmds, audio, audit, released>>

\* The request is dropped while it awaits the synthesiser, or that fails.
SayGone(c) ==
    /\ At(c, "synth")
    /\ Goto(c, "idle")
    /\ UNCHANGED <<radioVars, threadVars, cmds, audio, audit, released>>

SayClear(c) ==
    /\ At(c, "synth")
    /\ audio' = <<>>
    /\ Goto(c, "push")
    /\ UNCHANGED <<radioVars, threadVars, cmds, audit, released>>

SayPush(c) ==
    /\ At(c, "push")
    /\ Push([i \in 1..ClipLen |-> i])
    /\ Goto(c, "say")
    /\ UNCHANGED <<radioVars, threadVars, cmds, audit, released>>

SaySend(c) ==
    /\ At(c, "say")
    /\ IF Accepting
         THEN /\ Send(Command("say", c, ClipLen + 1))
              /\ Goto(c, "logburst")
              /\ released' = released \ {c}
         ELSE Goto(c, "idle") /\ UNCHANGED <<cmds, released>>
    /\ UNCHANGED <<radioVars, threadVars, audio, audit>>

BurstCheck(c) ==
    /\ At(c, "idle") /\ "burst" \in plan.calls[c]
    /\ running /\ cfg.kind = "burst"
    /\ Goto(c, "burst")
    /\ UNCHANGED <<radioVars, threadVars, cmds, audio, audit, released>>

BurstSend(c) ==
    /\ At(c, "burst")
    /\ IF Accepting
         THEN Send(Command("burst", c, 0)) /\ Goto(c, "logburst")
         ELSE Goto(c, "idle") /\ UNCHANGED cmds
    /\ UNCHANGED <<radioVars, threadVars, audio, audit, released>>

\* A spoken clip and a burst are logged as already over.
BurstLog(c) ==
    /\ At(c, "logburst")
    /\ \E name \in NamesNow(c) : Log([name |-> name, open |-> FALSE])
    /\ Goto(c, "idle")
    /\ UNCHANGED <<radioVars, threadVars, cmds, audio, released>>

-----------------------------------------------------------------------------
(* Start, stop, PATCH, scan *)

Start ==
    /\ ~running /\ ~stopping
    /\ running' = TRUE
    /\ at' \in IF "nodevice" \in plan.env THEN {"rx", "gone"} ELSE {"rx"}
    /\ kind' = cfg.kind /\ cur' = cfg.freq /\ hw' = Tuned("rx", cfg.freq)
    /\ scan' = NoScan
    /\ cmds' = <<>>
    /\ UNCHANGED <<plan, stopping, cfg, keyed, on, left, audio, audit, requestVars>>

Stop ==
    /\ "stop" \in plan.env /\ running
    /\ running' = FALSE /\ stopping' = TRUE
    /\ UNCHANGED <<plan, cfg, threadVars, cmds, audio, audit, requestVars>>

StopJoined ==
    /\ stopping /\ at = "gone"
    /\ stopping' = FALSE
    /\ UNCHANGED <<plan, running, cfg, threadVars, cmds, audio, audit, requestVars>>

\* A mode is stored while the radio is stopped: a PATCH of a running radio
\* stops it first.
SetMode(k) ==
    /\ "mode" \in plan.env /\ ~running /\ cfg.kind # k
    /\ cfg' = [cfg EXCEPT !.kind = k]
    /\ UNCHANGED <<plan, running, stopping, threadVars, cmds, audio, audit, requestVars>>

Tune(f) ==
    /\ "tune" \in plan.env /\ cfg.freq # f
    /\ cfg' = [cfg EXCEPT !.freq = f]
    /\ IF Accepting THEN Send(Command("retune", NoOne, f)) ELSE UNCHANGED cmds
    /\ UNCHANGED <<plan, running, stopping, threadVars, audio, audit, requestVars>>

ScanStart ==
    /\ "scan" \in plan.env /\ Accepting /\ cfg.kind = "voice"
    /\ Send(Command("scan", NoOne, 0))
    /\ UNCHANGED <<radioVars, threadVars, audio, audit, requestVars>>

ScanStop ==
    /\ "scan" \in plan.env /\ Accepting
    /\ Send(Command("scanstop", NoOne, 0))
    /\ UNCHANGED <<radioVars, threadVars, audio, audit, requestVars>>

-----------------------------------------------------------------------------
(* The pipeline thread, receiving *)

Take(ops) == at = "rx" /\ cmds # <<>> /\ Head(cmds).op \in ops /\ cmds' = Tail(cmds)

\* Mutant of Retune: the scan goes on.
Retune_KeepsScan(f) == cur' = f /\ hw' = Tuned("rx", f) /\ UNCHANGED scan

Retune(f) == cur' = f /\ hw' = Tuned("rx", f) /\ scan' = NoScan

TakeRetune ==
    /\ Take({"retune"})
    /\ Retune(Head(cmds).arg)
    /\ UNCHANGED <<radioVars, at, kind, on, left, keyed, audio, audit, requestVars>>

TakeScan ==
    /\ Take({"scan"})
    /\ IF kind = "voice"
         THEN /\ scan' = [idx |-> 1, st |-> "dwell"]
              /\ cur' = ScanList[1] /\ hw' = Tuned("rx", ScanList[1])
         ELSE UNCHANGED <<scan, cur, hw>>
    /\ UNCHANGED <<radioVars, at, kind, on, left, keyed, audio, audit, requestVars>>

\* Receiving goes on wherever the scan was.
TakeScanStop ==
    /\ Take({"scanstop"})
    /\ scan' = NoScan
    /\ UNCHANGED <<radioVars, at, kind, cur, hw, on, left, keyed, audio, audit,
                   requestVars>>

\* A release with nothing keyed, and what belongs to the other pipelines.
TakeIgnored ==
    /\ \/ Take({"unkey"})
       \/ Take(KeyOps) /\ kind # "voice"
       \/ Take({"burst"}) /\ kind # "burst"
    /\ UNCHANGED <<radioVars, threadVars, audio, audit, requestVars>>

Hop == LET next == (scan.idx % Len(ScanList)) + 1
       IN  /\ scan' = [idx |-> next, st |-> "dwell"]
           /\ cur' = ScanList[next] /\ hw' = Tuned("rx", ScanList[next])

\* One read while scanning.  The squelch is open or not, the dwell or the hang
\* time is over or not.
ScanFrame ==
    /\ at = "rx" /\ scan # NoScan
    /\ \/ scan.st # "parked" /\ Hop
       \/ /\ scan' = [scan EXCEPT !.st = IF @ = "parked" THEN "lost" ELSE "parked"]
          /\ UNCHANGED <<cur, hw>>
    /\ UNCHANGED <<radioVars, at, kind, on, left, keyed, cmds, audio, audit,
                   requestVars>>

ThreadStops ==
    /\ at = "rx" /\ stopping
    /\ at' = "gone" /\ cmds' = <<>> /\ scan' = NoScan
    /\ UNCHANGED <<radioVars, kind, cur, hw, on, left, keyed, audio, audit,
                   requestVars>>

-----------------------------------------------------------------------------
(* The pipeline thread, transmitting *)

Transmit(where) ==
    /\ at' = where /\ on' = [by |-> Head(cmds).by, op |-> Head(cmds).op]
    /\ left' = Head(cmds).arg
    /\ keyed' = TRUE /\ hw' = Tuned("tx", cur)

TakeKey ==
    /\ Take(KeyOps) /\ kind = "voice"
    /\ Transmit("tx")
    /\ UNCHANGED <<radioVars, kind, cur, scan, audio, audit, requestVars>>

TakeBurst ==
    /\ Take({"burst"}) /\ kind = "burst"
    /\ Transmit("burst")
    /\ UNCHANGED <<radioVars, kind, cur, scan, audio, audit, requestVars>>

\* Mutant of Receive: the device goes back to the channel of the configuration.
Receive_Config ==
    /\ at' = "rx" /\ on' = Nothing /\ left' = 0
    /\ keyed' = FALSE /\ hw' = Tuned("rx", cfg.freq)

Receive ==
    /\ at' = "rx" /\ on' = Nothing /\ left' = 0
    /\ keyed' = FALSE /\ hw' = Tuned("rx", cur)

Unkeys == {i \in DOMAIN cmds : cmds[i].op = "unkey"}

\* Mutant of TxUnkey: what came before the release is kept for later.
TxUnkey_Defers ==
    /\ at = "tx" /\ Unkeys # {}
    /\ cmds' = SelectSeq(cmds, LAMBDA c : c.op # "unkey")
    /\ Receive
    /\ UNCHANGED <<radioVars, kind, cur, scan, audio, audit, requestVars>>

\* key_tx reads the channel every turn until it is empty: a release ends the key
\* and what came before it is dropped ...
TxUnkey ==
    /\ at = "tx"
    /\ \E n \in Unkeys : /\ \A i \in Unkeys : n <= i
                         /\ cmds' = SubSeq(cmds, n + 1, Len(cmds))
    /\ Receive
    /\ UNCHANGED <<radioVars, kind, cur, scan, audio, audit, requestVars>>

\* ... and without one everything is dropped.
TxDrop ==
    /\ at = "tx" /\ cmds # <<>> /\ Unkeys = {}
    /\ cmds' = <<>>
    /\ UNCHANGED <<radioVars, threadVars, audio, audit, requestVars>>

\* Mutant of TxChunk: only audio counts towards the limit, silence does not.
TxChunk_Silence ==
    /\ at = "tx" /\ cmds = <<>> /\ left > 0 /\ ~stopping
    /\ audio' = IF audio = <<>> THEN audio ELSE Tail(audio)
    /\ left' = IF audio = <<>> THEN left ELSE left - 1
    /\ UNCHANGED <<radioVars, at, kind, cur, scan, hw, on, keyed, cmds, audit,
                   requestVars>>

\* One piece of audio, or silence.
TxChunk ==
    /\ at = "tx" /\ cmds = <<>> /\ left > 0 /\ ~stopping
    /\ audio' = IF audio = <<>> THEN audio ELSE Tail(audio)
    /\ left' = left - 1
    /\ UNCHANGED <<radioVars, at, kind, cur, scan, hw, on, keyed, cmds, audit,
                   requestVars>>

\* The time limit or the stop flag.
TxOver ==
    /\ at = "tx" /\ (left = 0 \/ stopping)
    /\ Receive
    /\ UNCHANGED <<radioVars, kind, cur, scan, cmds, audio, audit, requestVars>>

\* The transmit stream cannot be opened or written.
TxFails ==
    /\ at = "tx"
    /\ Receive
    /\ UNCHANGED <<radioVars, kind, cur, scan, cmds, audio, audit, requestVars>>

BurstOver ==
    /\ at = "burst"
    /\ Receive
    /\ UNCHANGED <<radioVars, kind, cur, scan, cmds, audio, audit, requestVars>>

\* Reception cannot be brought back: the thread returns.
BurstLosesRx ==
    /\ at = "burst"
    /\ at' = "gone" /\ on' = Nothing /\ left' = 0 /\ keyed' = FALSE
    /\ hw' = Tuned("rx", cur) /\ cmds' = <<>>
    /\ UNCHANGED <<radioVars, kind, cur, scan, audio, audit, requestVars>>

-----------------------------------------------------------------------------

Request(c) ==
    \/ KeyCheck(c) \/ KeyClear(c) \/ KeySend(c) \/ KeyLog(c)
    \/ UnkeySend(c) \/ UnkeyLog(c)
    \/ SayCheck(c) \/ SayGone(c) \/ SayClear(c) \/ SayPush(c) \/ SaySend(c)
    \/ BurstCheck(c) \/ BurstSend(c) \/ BurstLog(c)

Thread ==
    \/ TakeRetune \/ TakeScan \/ TakeScanStop \/ TakeIgnored \/ ScanFrame \/ ThreadStops
    \/ TakeKey \/ TxUnkey \/ TxDrop \/ TxChunk \/ TxOver \/ TxFails
    \/ TakeBurst \/ BurstOver \/ BurstLosesRx

Next ==
    \/ \E c \in Clients : Request(c)
    \/ Thread
    \/ MicPush
    \/ Start \/ Stop \/ StopJoined
    \/ \E k \in Kinds : SetMode(k)
    \/ \E f \in Freqs : Tune(f)
    \/ ScanStart \/ ScanStop

\* key_tx looks at its limit every turn.  A turn reads the whole channel, which
\* is empty again and again: commands are HTTP requests.  A write has a time-out.
Fairness == /\ WF_vars(TxOver) /\ WF_vars(TxUnkey) /\ WF_vars(TxDrop) /\ WF_vars(BurstOver)
            /\ SF_vars(TxChunk)

Spec == Init /\ [][Next]_vars /\ Fairness

-----------------------------------------------------------------------------
(* Properties *)

UniqueName(c) == \A d \in Clients \ {c} : NameOf[d] # NameOf[c]
Logged(c, open) == \E i \in DOMAIN audit : /\ audit[i].name \in {NameOf[c], ""}
                                           /\ audit[i].open = open

\* A key on the air has an open entry in the log, or its handler is about to
\* write one, or the ring has dropped entries, or the release that ends the key
\* waits in the channel, or it came when the radio was being stopped.  A clip on
\* the air has an entry, which is closed.  (key() sends before tx_log_key()
\* writes; tx_log_release() finds the entry by name, so that clients registered
\* under one name close each other's.)
AirIsLogged == \A c \in Clients : at = "tx" /\ on.by = c /\ UniqueName(c) =>
    \/ Len(audit) = AuditCap
    \/ on.op = "key" /\ \/ pc[c] = "log" \/ Logged(c, TRUE)
                        \/ Unkeys # {} \/ (~running /\ c \in released)
    \/ on.op = "say" /\ (pc[c] = "logburst" \/ Logged(c, FALSE))

\* While it receives, the thread is not shown as keyed and the device is on the
\* thread's channel, whatever a key, a burst, a scan or a PATCH did before.
\* (run_sdr restores `lo`, which follows every retune, after key_tx.)
RxOnChannel == at = "rx" => ~keyed /\ hw = Tuned("rx", cur)

\* A scan shows the channel the radio is on: a retune from outside ends it, and
\* a key on a parked channel does not.
ScanOnChannel == scan # NoScan => cur = ScanList[scan.idx]

\* A client that has released is off the air as soon as the thread reads its
\* channel, and no key of its own comes after: the channel keeps keys and
\* releases in order and key_tx keeps no key for later.
ReleasedGoesQuiet == \A c \in released : running =>
    /\ at = "tx" /\ on.by = c => \E j \in DOMAIN cmds : cmds[j].op = "unkey"
    /\ \A i \in Queued(c) : \E j \in DOMAIN cmds : j > i /\ cmds[j].op = "unkey"

\* Nothing is transmitted that was captured before its client asked for the
\* transmission on the air.  (key() and say() clear the buffer first.)
FreshAudio == at = "tx" => \A i \in DOMAIN audio : on.by \in audio[i].asked

\* Every transmission ends, with or without a release: the time limit is looked
\* at in every turn and a client cannot prolong it.
TxEnds == at \in {"tx", "burst"} ~> at \notin {"tx", "burst"}

=============================================================================
