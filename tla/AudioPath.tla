----------------------------- MODULE AudioPath -----------------------------
(***************************************************************************)
(* The sound of DS games, from the frame that produces it to the speaker   *)
(* (webmelon-sdk/webmelon.js).  Every frame posts its samples to a worklet *)
(* on the audio thread, which keeps them in a ring; where there are no     *)
(* worklets, a queue on the main thread takes its place.  Each game has an *)
(* audio context of its own, and the worklet's module is loaded into it    *)
(* while the game already runs: the game may be over when it arrives.      *)
(*                                                                         *)
(* Samples are numbered in the order of their production; 0 is a slot that *)
(* holds none.  The contexts, their loads and the message port are the     *)
(* browser's.                                                              *)
(***************************************************************************)
EXTENDS Naturals, Sequences, SequencesExt

CONSTANTS
    Cap,         \* slots of the ring and of the queue
    Target,      \* samples to have before playing, and to keep when trimming
    Batch,       \* the most samples of a frame
    Quantum,     \* samples the speaker takes at a time
    MaxSamples,  \* bound on the samples produced
    MaxGames     \* bound on the games: the last one is not quit

ASSUME RingAssumption ==
    /\ {Cap, Target, Batch, Quantum} \subseteq Nat \ {0}
    /\ Target < Cap /\ Batch <= Cap
ASSUME AudioBoundsAssumption == MaxSamples \in Nat /\ MaxGames \in Nat \ {0}

VARIABLES
    worklets,  \* AudioContext has audioWorklet in this browser
    playing,   \* a game runs
    paused,    \* its context has been asked to stand still
    running,   \* the state of that context
    ctx,       \* the number of emulatorAudioCtx
    loading,   \* contexts whose addModule is awaited
    node,      \* emulatorAudioNode, by its context; 0 is null
    ready,     \* the current context has its processor
    port,      \* messages on their way to that processor
    ring,      \* left, right, head and len of the processor
    started,   \* its started
    fifo,      \* emulatorAudioQueue
    made,      \* samples produced so far
    first,     \* samples produced before this game
    heard,     \* the last sample played
    ordered    \* see below: an assumption on the browser

life   == <<worklets, playing, paused, running, ctx, loading, node, ready, first, ordered>>
buffer == <<port, ring, started, fifo>>
vars   == <<life, buffer, made, heard>>

Samples == 0..MaxSamples
Empty   == [slots |-> [i \in 0..(Cap - 1) |-> 0], head |-> 0, len |-> 0]

\* In an ordered browser the modules arrive in the order they were asked for.
Init ==
    /\ worklets \in BOOLEAN /\ ordered \in BOOLEAN
    /\ playing = FALSE /\ paused = FALSE /\ running = FALSE
    /\ ctx = 1 /\ loading = {} /\ node = 0 /\ ready = FALSE
    /\ port = << >> /\ ring = Empty /\ started = FALSE /\ fifo = Empty
    /\ made = 0 /\ first = 0 /\ heard = 0

----------------------------------------------------------------------------
(* Rings.                                                                  *)

Least(m, n) == IF m < n THEN m ELSE n

Contents(r) == [i \in 1..r.len |-> r.slots[(r.head + i - 1) % Cap]]

\* Write what fits behind the newest sample.
Fill(r, batch) ==
    LET n  == Least(Len(batch), Cap - r.len)
        At(i) == (i + 2 * Cap - r.head - r.len) % Cap
    IN  [r EXCEPT !.slots = [i \in DOMAIN @ |-> IF At(i) < n THEN batch[At(i) + 1] ELSE @[i]],
                  !.len = @ + n]

Drop(r, n) == [r EXCEPT !.head = (@ + n) % Cap, !.len = @ - n]

\* Seeded fault: the trimming keeps the oldest.
ReceiveKeepingOldest(r, batch) ==
    LET filled == Fill(r, batch)
    IN  IF filled.len >= Cap THEN [filled EXCEPT !.len = Target] ELSE filled

\* The processor's message handler.
Receive(r, batch) ==
    LET filled == Fill(r, batch)
    IN  IF filled.len >= Cap THEN Drop(filled, filled.len - Target) ELSE filled

\* Seeded fault: what does not fit is dropped.
PushWhatFits(r, batch) == Fill(r, batch)

\* The queue's overflow drops the oldest samples.
Push(r, batch) ==
    Fill(IF r.len + Len(batch) > Cap THEN Drop(r, r.len + Len(batch) - Cap) ELSE r, batch)

----------------------------------------------------------------------------
(* The life of a game.                                                     *)

\* startEmulation and createAudioProcessor up to its await.
Start ==
    /\ ~playing
    /\ playing' = TRUE /\ first' = made
    /\ loading' = IF worklets THEN loading \cup {ctx} ELSE loading
    /\ UNCHANGED <<worklets, paused, running, ctx, node, ready, ordered, buffer, made, heard>>

NextToLoad(c) ==
    /\ c \in loading
    /\ ordered => \A d \in loading : c <= d

\* Seeded fault: a node that is there already is kept.
LoadedOnce(c) ==
    /\ NextToLoad(c)
    /\ loading' = loading \ {c}
    /\ node' = IF node = 0 THEN c ELSE node
    /\ ready' = (ready \/ c = ctx)
    /\ UNCHANGED <<worklets, playing, paused, running, ctx, first, ordered, buffer, made, heard>>

\* addModule resolves: the node is made and kept, unless its context has been
\* closed meanwhile and refuses.
Loaded(c) ==
    /\ NextToLoad(c)
    /\ loading' = loading \ {c}
    /\ \/ node' = c
       \/ c # ctx /\ node' = node
    /\ ready' = (ready \/ c = ctx)
    /\ UNCHANGED <<worklets, playing, paused, running, ctx, first, ordered, buffer, made, heard>>

LoadFails(c) ==
    /\ NextToLoad(c)
    /\ loading' = loading \ {c}
    /\ UNCHANGED <<worklets, playing, paused, running, ctx, node, ready, first, ordered>>
    /\ UNCHANGED <<buffer, made, heard>>

Pause ==
    /\ playing /\ ~paused
    /\ paused' = TRUE
    /\ UNCHANGED <<worklets, playing, running, ctx, loading, node, ready, first, ordered>>
    /\ UNCHANGED <<buffer, made, heard>>

Resume ==
    /\ playing /\ paused
    /\ paused' = FALSE
    /\ UNCHANGED <<worklets, playing, running, ctx, loading, node, ready, first, ordered>>
    /\ UNCHANGED <<buffer, made, heard>>

\* The context stands still, or runs once a gesture has allowed it to.
ContextFollows ==
    /\ running = paused
    /\ running' = ~paused
    /\ UNCHANGED <<worklets, playing, paused, ctx, loading, node, ready, first, ordered>>
    /\ UNCHANGED <<buffer, made, heard>>

\* Seeded fault: the queue's samples stay.
ShutdownKeepingSamples ==
    /\ playing /\ ctx < MaxGames
    /\ playing' = FALSE /\ paused' = FALSE /\ running' = FALSE
    /\ ctx' = ctx + 1 /\ node' = 0 /\ ready' = FALSE
    /\ port' = << >> /\ ring' = Empty /\ started' = FALSE
    /\ UNCHANGED <<worklets, loading, first, ordered, fifo, made, heard>>

\* onShutdown: a new context, no node, and the queue's samples silenced; its
\* head and len stay.  The old context's processor is heard no more.
Shutdown ==
    /\ playing /\ ctx < MaxGames
    /\ playing' = FALSE /\ paused' = FALSE /\ running' = FALSE
    /\ ctx' = ctx + 1 /\ node' = 0 /\ ready' = FALSE
    /\ port' = << >> /\ ring' = Empty /\ started' = FALSE
    /\ fifo' = [fifo EXCEPT !.slots = Empty.slots]
    /\ UNCHANGED <<worklets, loading, first, ordered, made, heard>>

----------------------------------------------------------------------------
(* Sound.                                                                  *)

\* frameUpdate: the samples go to the node, if its context is the one that
\* runs; to the queue, if there are no worklets; or nowhere.
Frame(n) ==
    LET batch == [i \in 1..n |-> made + i]
    IN  /\ playing /\ ~paused
        /\ made + n <= MaxSamples
        /\ made' = made + n
        /\ port' = IF node = ctx /\ running THEN Append(port, batch) ELSE port
        /\ fifo' = IF node = 0 /\ ~worklets THEN Push(fifo, batch) ELSE fifo
        /\ UNCHANGED <<life, ring, started, heard>>

Deliver ==
    /\ ready /\ port # << >>
    /\ ring' = Receive(ring, Head(port))
    /\ port' = Tail(port)
    /\ UNCHANGED <<life, started, fifo, made, heard>>

LastHeard(samples) ==
    IF \E i \in DOMAIN samples : samples[i] # 0
    THEN samples[CHOOSE i \in DOMAIN samples :
                    samples[i] # 0 /\ \A j \in DOMAIN samples : j > i => samples[j] = 0]
    ELSE heard

Hear(r) == heard' = LastHeard(SubSeq(Contents(r), 1, Least(Quantum, r.len)))

\* process: once there are enough samples, until they run out.
Process ==
    /\ ready /\ running
    /\ started \/ ring.len >= Target
    /\ Hear(ring)
    /\ ring' = Drop(ring, Least(Quantum, ring.len))
    /\ started' = (ring.len >= Quantum)
    /\ UNCHANGED <<life, port, fifo, made>>

\* processAudio of the fallback.
ProcessQueue ==
    /\ ~worklets /\ playing /\ running
    /\ Hear(fifo)
    /\ fifo' = Drop(fifo, Least(Quantum, fifo.len))
    /\ UNCHANGED <<life, port, ring, started, made>>

Next ==
    \/ Start \/ Pause \/ Resume \/ ContextFollows \/ Shutdown
    \/ \E c \in loading : Loaded(c) \/ LoadFails(c)
    \/ \E n \in 1..Batch : Frame(n)
    \/ Deliver \/ Process \/ ProcessQueue

Spec == Init /\ [][Next]_vars

----------------------------------------------------------------------------
(* Properties.                                                             *)

Rings(most) == [slots : [0..(Cap - 1) -> Samples], head : 0..(Cap - 1), len : 0..most]

TypeOK ==
    /\ {worklets, playing, paused, running, ready, started, ordered} \subseteq BOOLEAN
    /\ ctx \in 1..MaxGames /\ node \in 0..ctx /\ loading \subseteq 1..ctx
    /\ ring \in Rings(Cap - 1) /\ fifo \in Rings(Cap)
    /\ {made, first, heard} \subseteq Samples

\* What the speaker takes from.
Waiting == IF worklets THEN Contents(ring) ELSE Contents(fifo)

Unheard(s)  == \A i \in DOMAIN s : s[i] = 0 \/ (s[i] > heard /\ s[i] > first)
InOrder(s)  == \A i, j \in DOMAIN s : i < j /\ s[j] # 0 => s[i] < s[j]
Later(s, t) == \A i \in DOMAIN s, j \in DOMAIN t : s[i] < t[j]

\* Sound keeps its order: what waits to be played was produced in that order,
\* by the game that runs, and later than anything played before, through full
\* rings, underruns, pauses and a game that ended with samples left.  The
\* worklet never plays a slot that holds no sample.
SoundInOrder ==
    /\ Unheard(Waiting) /\ InOrder(Waiting)
    /\ worklets => \A i \in DOMAIN Waiting : Waiting[i] # 0
    /\ \A k \in DOMAIN port :
         /\ Unheard(port[k]) /\ InOrder(port[k]) /\ Later(Waiting, port[k])
         /\ \A l \in DOMAIN port : k < l => Later(port[k], port[l])

\* "Keeps a small ring buffer of samples", "trim back to the target in one cut":
\* wherever head and len stand, the slots are a queue, and it loses samples only
\* when it is full, those that SoundQueue says.
Queue == INSTANCE SoundQueue WITH queue <- Waiting
IsSoundQueue == Queue!Spec

\* "When the buffer overflows we drop the oldest samples": the newest sample of a
\* message is there when the processor has taken the message.  (A message that
\* meets a full ring is cut off first.)
OverflowDropsOldest == [][Deliver => Last(Contents(ring')) = Last(Head(port))]_vars

\* "Drop the oldest samples on overflow": the newest sample of the game is
\* never the one that the queue gives up.
NewestIsKept ==
    ~worklets /\ playing /\ made > first /\ fifo.len > 0 => Last(Contents(fifo)) = made

\* A game whose processor is there feeds it: no load that a former game had
\* asked for takes its samples away.
ProcessorIsFed == ordered /\ ready => node = ctx
=============================================================================
