------------------------------ MODULE Playback ------------------------------
(***************************************************************************)
(* The reader's playback: lib/playbackEngine.ts over lib/serverSynthesizer.ts *)
(* and the audio element of lib/audio.ts.                                  *)
(*                                                                         *)
(* Everything runs in one thread: an event (a click, a message, a timer, an *)
(* audio event) runs to its end, then the continuations it made ready run   *)
(* one by one, and only then the next event.  A promise is a call; its      *)
(* .then comes first, whoever awaited it continues after that, and the end  *)
(* of a superseded load, which takes the longest way, comes last.           *)
(*                                                                         *)
(* The server may answer a request in any way, late, or never; what it is   *)
(* sent (batches, retries) is left out, because an answer is matched to a   *)
(* request by its key alone.                                                *)
(***************************************************************************)
EXTENDS Integers, Sequences, FiniteSets, SequencesExt, FiniteSetsExt

CONSTANTS Docs, Voices,
          NoDoc,             \* nothing cached
          NBlocks,           \* blocks of a document
          Collapsed,         \* blocks of collapsed sections, not played
          BatchSize, RefillThreshold, EvictBehind,
          MaxSynthesisFailures, \* MAX_CONSECUTIVE_SYNTHESIS_FAILURES
          MaxResends,        \* MAX_RETRIES of a request
          Calls,             \* promises alive at a time
          MaxClicks,         \* what the user does, in one behaviour
          MaxSignals         \* acknowledgements and reconnects, in one behaviour

ASSUME PlaybackAssumption ==
  /\ NoDoc \notin Docs /\ Calls \subseteq Nat \ {0} /\ NBlocks \in Nat \ {0}
  /\ {BatchSize, RefillThreshold, EvictBehind, MaxSynthesisFailures, MaxResends, MaxClicks, MaxSignals} \subseteq Nat

VARIABLES deck,      \* the engine, its synthesizer and its player
          clicks, signals,
          hasty      \* the user moved on while an answer was awaited, fetched or loaded

playVars == <<deck, clicks, signals, hasty>>

Blocks == 0 .. NBlocks - 1
Keys == Blocks \X Voices                  \* variantKey
Unused == [stage |-> "unused", key |-> << >>, doc |-> NoDoc, waits |-> 0]
Silence == [state |-> "idle", sound |-> << >>]
Sound(call) == [block |-> call.key[1], voice |-> call.key[2], doc |-> call.doc]

PlayInit ==
  /\ \E v \in Voices, d \in Docs :
       deck = [status |-> "stopped", cur |-> -1, voice |-> v, doc |-> d,
               cache |-> [k \in Keys |-> NoDoc],        \* audioCache
               empty |-> {},                            \* resolvedEmpty
               promised |-> [k \in Keys |-> 0],         \* synthesisPromises
               calls |-> [c \in Calls |-> Unused],
               requests |-> << >>,                      \* the synthesizer's pending map
               fetches |-> {},                          \* calls that share a download
               error |-> "none", failures |-> 0,
               player |-> Silence,
               ready |-> << >>, ended |-> 0]            \* continuations
  /\ clicks = 0 /\ signals = 0 /\ hasty = FALSE

-----------------------------------------------------------------------------
(***************************************************************************)
(* What the functions of the engine do to the deck s.                      *)
(***************************************************************************)

NextPlayable(from) ==
  LET open == (from .. NBlocks - 1) \ Collapsed IN IF open = {} THEN -1 ELSE Min(open)

Key(s, b) == <<b, s.voice>>
HasAudio(s, b) == s.cache[Key(s, b)] # NoDoc
Underway(s, b) == HasAudio(s, b) \/ s.promised[Key(s, b)] # 0

\* countCachedAhead reaches MIN_BUFFER_TO_START = 1.
Buffered(s, b) == HasAudio(s, b) \/ Key(s, b) \in s.empty

EngineStop(s) == [s EXCEPT !.status = "stopped"]

\* AudioPlayer.stop: a load under way is superseded.
Silenced(s) ==
  [s EXCEPT !.player = Silence, !.ended = IF s.player.state = "loading" THEN @ + 1 ELSE @]

\* startAudioPlayback, up to the load.
Load(s, sound) == [Silenced(s) EXCEPT !.player = [state |-> "loading", sound |-> sound]]

\* ServerSynthesizer.synthesize: a request that is pending already is shared.
Requested(s, call, b) ==
  LET same == SelectInSeq(s.requests, LAMBDA r : r.key = Key(s, b) /\ r.doc = s.doc)
  IN  IF same # 0 THEN [s EXCEPT !.requests[same].calls = Append(@, call)]
      ELSE [s EXCEPT !.requests =
              Append(@, [key |-> Key(s, b), doc |-> s.doc, calls |-> <<call>>,
                         resends |-> 0, acknowledged |-> FALSE])]

\* synthesizeBlock of a block without audio; waits: whether the caller awaits it.
SynthesizeBlock(s, b, waits) ==
  LET old == s.promised[Key(s, b)]
      new == Min({c \in Calls : s.calls[c].stage = "unused"})
  IN  IF old # 0 THEN [s EXCEPT !.calls[old].waits = @ + waits]
      ELSE [Requested(s, new, b) EXCEPT
              !.promised[Key(s, b)] = new,
              !.calls[new] = [stage |-> "asked", key |-> Key(s, b), doc |-> s.doc, waits |-> waits]]

TriggerPrefetch(s, from, count) ==
  LET last == Min({from + count, NBlocks}) - 1
  IN  FoldLeft(LAMBDA acc, i : IF Underway(acc, from + i - 1) THEN acc
                               ELSE SynthesizeBlock(acc, from + i - 1, 0),
               s, [i \in 1 .. last - from + 1 |-> i])

CheckAndRefillBuffer(s) ==
  LET unready == {b \in s.cur + 1 .. NBlocks - 1 : ~ Underway(s, b)}
  IN  IF unready = {} \/ Min(unready) - (s.cur + 1) >= RefillThreshold THEN s
      ELSE TriggerPrefetch(s, Min(unready), BatchSize)

EvictOldBlocks(s) ==
  [s EXCEPT !.cache = [k \in Keys |-> IF k[2] = s.voice /\ k[1] < s.cur - EvictBehind
                                      THEN NoDoc ELSE @[k]]]

\* The last two lines of playBlock, whatever became of the load.
PlayBlockEnd(s) == EvictOldBlocks(CheckAndRefillBuffer(s))

PlayOpen(s, b) ==
  IF HasAudio(s, b)
  THEN Load(s, [block |-> b, voice |-> s.voice, doc |-> s.cache[Key(s, b)]])
  ELSE SynthesizeBlock(s, b, 1)

AdvanceToNext(s) ==
  LET next == NextPlayable(s.cur + 1)
      moved == [s EXCEPT !.cur = next]
  IN  IF next < 0 THEN EngineStop(s)
      ELSE IF s.status = "playing" THEN PlayOpen(moved, next) ELSE moved

PlayBlock(s) ==
  CASE s.status # "playing" -> s
    [] s.status = "playing" /\ s.cur \in Collapsed -> AdvanceToNext(s)
    [] OTHER -> PlayOpen(s, s.cur)

\* Mutant: a block that resolved to nothing does not count.
MAudioOnly(s) ==
  IF s.status = "buffering" /\ HasAudio(s, IF s.cur >= 0 THEN s.cur ELSE 0)
  THEN PlayBlock([s EXCEPT !.status = "playing"]) ELSE s

CheckBufferReady(s) ==
  IF s.status = "buffering" /\ Buffered(s, IF s.cur >= 0 THEN s.cur ELSE 0)
  THEN PlayBlock([s EXCEPT !.status = "playing"]) ELSE s

\* req.resolve: every call of the request has its answer.
Settled(s, calls, answer) ==
  [s EXCEPT !.ready = @ \o [i \in DOMAIN calls |-> [kind |-> "then", call |-> calls[i], answer |-> answer]]]

\* cancelAll, and the engine forgets its promises.
CancelAll(s) ==
  [FoldLeft(LAMBDA acc, r : Settled(acc, r.calls, "nothing"), s, s.requests) EXCEPT
     !.requests = << >>, !.error = "none", !.promised = [k \in Keys |-> 0]]

-----------------------------------------------------------------------------
(***************************************************************************)
(* Continuations.                                                          *)
(***************************************************************************)

\* The .then of synthesizeBlock: by its key, it forgets whichever promise is there.
\* s has the call released and its awaiters made ready.
Then(s, key, doc, answer) ==
  LET forgot == [s EXCEPT !.promised[key] = 0]
      nothing == [forgot EXCEPT !.empty = @ \cup {key}]
  IN  CASE answer = "audio" -> CheckBufferReady([forgot EXCEPT !.cache[key] = doc])
        [] answer # "audio" /\ s.status = "buffering" /\ s.error = "fatal" -> EngineStop(nothing)
        [] OTHER -> CheckBufferReady(nothing)

\* playBlock behind its await.
Continue(s, sound, answer) ==
  LET failures == s.failures + (IF s.error = "none" THEN 0 ELSE 1)
      counted == [s EXCEPT !.failures = failures]
  IN  CASE s.cur # sound.block \/ s.status # "playing" -> s
        [] s.cur = sound.block /\ s.status = "playing" /\ answer = "audio" ->
             Load([s EXCEPT !.failures = 0], sound)
        [] OTHER ->
             IF s.error = "fatal" THEN EngineStop(s)
             ELSE IF s.error # "none" /\ failures >= MaxSynthesisFailures THEN EngineStop(counted)
             ELSE AdvanceToNext(counted)

Awaiters(call, answer) ==
  [i \in 1 .. call.waits |-> [kind |-> "continue", sound |-> Sound(call), answer |-> answer]]

RunReady(s, m) ==
  LET call == s.calls[m.call]
  IN  IF m.kind = "continue" THEN Continue([s EXCEPT !.ready = Tail(@)], m.sound, m.answer)
      ELSE Then([s EXCEPT !.ready = Tail(@) \o Awaiters(call, m.answer), !.calls[m.call] = Unused],
                call.key, call.doc, m.answer)

Microtask ==
  /\ \/ /\ deck.ready # << >>
        /\ deck' = RunReady(deck, deck.ready[1])
     \/ /\ deck.ready = << >> /\ deck.ended > 0
        /\ deck' = PlayBlockEnd([deck EXCEPT !.ended = @ - 1])
  /\ UNCHANGED <<clicks, signals, hasty>>

EventLoop == deck.ready = << >> /\ deck.ended = 0

-----------------------------------------------------------------------------
(***************************************************************************)
(* The user.                                                               *)
(***************************************************************************)
Click == EventLoop /\ clicks < MaxClicks /\ clicks' = clicks + 1 /\ UNCHANGED signals

Awaiting == \E c \in Calls : deck.calls[c].waits > 0
Change == hasty' = (hasty \/ Awaiting \/ deck.fetches # {} \/ deck.player.state = "loading")

Play ==
  LET first == NextPlayable(0)
      ahead == NextPlayable(deck.cur + 1)
      start == CASE deck.cur = -1 -> first
                 [] deck.cur \in Collapsed -> IF ahead >= 0 THEN ahead ELSE first
                 [] OTHER -> deck.cur
      s == [deck EXCEPT !.cur = start, !.failures = 0, !.error = "none"]
  IN  /\ Click /\ hasty' = (hasty \/ Awaiting) /\ deck.status = "stopped" /\ start >= 0
      /\ deck' = IF Buffered(s, start)
                 THEN PlayBlock(TriggerPrefetch([s EXCEPT !.status = "playing"], start + 1, BatchSize))
                 ELSE TriggerPrefetch([s EXCEPT !.status = "buffering"], start, BatchSize)

\* A load is not superseded by a pause; it finds the status changed when it ends.
Pause ==
  /\ Click /\ deck.status = "playing" /\ UNCHANGED hasty
  /\ deck' = [EngineStop(deck) EXCEPT !.player.state = IF @ = "playing" THEN "paused" ELSE @]

StopPlaying ==
  /\ Click /\ Change
  /\ deck' = CancelAll(EngineStop(Silenced(deck)))

\* moveCursor: seekToBlock, skipForward, and skipBack, which stays at the first block.
MoveCursor(target) ==
  LET moved == [CancelAll(Silenced(deck)) EXCEPT !.cur = target]
  IN  /\ Click /\ Change
      /\ deck' = IF deck.status = "buffering" THEN TriggerPrefetch(moved, target, BatchSize)
                 ELSE PlayBlock(moved)

SetVoice(v) ==
  LET old(k) == k[2] = deck.voice
      changed == [CancelAll(deck) EXCEPT
                    !.voice = v, !.failures = 0,
                    !.cache = [k \in Keys |-> IF old(k) THEN NoDoc ELSE @[k]],
                    !.empty = {k \in @ : ~ old(k)}]
  IN  /\ Click /\ Change /\ v # deck.voice
      /\ deck' = IF deck.status # "stopped" /\ deck.cur >= 0
                 THEN TriggerPrefetch([Silenced(changed) EXCEPT !.status = "buffering"], deck.cur, BatchSize)
                 ELSE changed

SetDocument(d) ==
  /\ Click /\ Change
  /\ deck' = [CancelAll(Silenced(deck)) EXCEPT
                !.doc = d, !.status = "stopped", !.cur = -1,
                !.cache = [k \in Keys |-> NoDoc], !.empty = {}]

UserActs ==
  \/ Play \/ Pause \/ StopPlaying
  \/ \E b \in Blocks : MoveCursor(b)
  \/ \E v \in Voices : SetVoice(v)
  \/ \E d \in Docs : SetDocument(d)

-----------------------------------------------------------------------------
(***************************************************************************)
(* The server, as the synthesizer's onWSMessage and timers see it.         *)
(***************************************************************************)
Happens == EventLoop /\ UNCHANGED <<clicks, hasty>>

Without(s, i) == [s EXCEPT !.requests = RemoveAt(@, i)]

\* skipped, error and evicted messages: an answer without audio.
NoAudio(i) ==
  /\ Happens /\ UNCHANGED signals
  /\ \E error \in {"none", "recoverable", "fatal", deck.error} :
       deck' = Settled([Without(deck, i) EXCEPT !.error = error], deck.requests[i].calls, "nothing")

\* cached: the request is settled, its audio is fetched.
AudioCached(i) ==
  /\ Happens /\ UNCHANGED signals
  /\ deck' = [Without(deck, i) EXCEPT !.error = "none", !.fetches = @ \cup {deck.requests[i].calls}]

Fetched(calls) ==
  /\ Happens /\ UNCHANGED signals
  /\ \E answer \in {"audio", "nothing"} :
       deck' = Settled([deck EXCEPT !.fetches = @ \ {calls}], calls, answer)

\* An error or a skip of a request that is not pending any more still sets lastError.
LateStatus ==
  /\ Happens /\ UNCHANGED signals
  /\ \E error \in {"none", "recoverable", "fatal"} : deck' = [deck EXCEPT !.error = error]

\* queued, processing
Acknowledged(i) ==
  /\ Happens /\ signals < MaxSignals /\ signals' = signals + 1
  /\ deck' = [deck EXCEPT !.requests[i].acknowledged = TRUE]

\* retryAllPending
Reconnected ==
  /\ Happens /\ signals < MaxSignals /\ signals' = signals + 1
  /\ deck' = [deck EXCEPT !.requests = [i \in DOMAIN @ |-> [@[i] EXCEPT !.resends = 0]]]

\* createRetryTimer: wait on, send again, or give up.
RetryTimer(i) ==
  LET r == deck.requests[i]
  IN  /\ Happens /\ UNCHANGED signals
      /\ deck' = CASE r.acknowledged -> [deck EXCEPT !.requests[i].acknowledged = FALSE]
                   [] ~ r.acknowledged /\ r.resends < MaxResends -> [deck EXCEPT !.requests[i].resends = @ + 1]
                   [] OTHER -> Settled(Without(deck, i), r.calls, "nothing")

Timers == \E i \in DOMAIN deck.requests : RetryTimer(i)
Fetches == \E calls \in deck.fetches : Fetched(calls)

ServerActs ==
  \/ \E i \in DOMAIN deck.requests : NoAudio(i) \/ AudioCached(i) \/ Acknowledged(i)
  \/ LateStatus \/ Reconnected

-----------------------------------------------------------------------------
(***************************************************************************)
(* The audio element.  A load ends, by its own timer at the latest.        *)
(***************************************************************************)
LoadEnds ==
  LET here == deck.player.sound.block = deck.cur /\ deck.status = "playing"
      idle == [deck EXCEPT !.player = Silence]
      outcomes == {"playing", "failed", "unplayable"}
      after(o) == CASE ~ here -> [deck EXCEPT !.player.state = IF o = "playing" THEN "paused" ELSE "idle"]
                    [] here /\ o = "playing" -> [deck EXCEPT !.player.state = "playing"]
                    [] here /\ o = "failed" -> AdvanceToNext(idle)
                    [] here /\ o = "unplayable" -> EngineStop(idle)
  IN  /\ Happens /\ UNCHANGED signals /\ deck.player.state = "loading"
      /\ \E o \in outcomes : deck' = PlayBlockEnd(after(o))

\* onEnded
SoundEnds ==
  /\ Happens /\ UNCHANGED signals /\ deck.player.state = "playing"
  /\ deck' = AdvanceToNext([deck EXCEPT !.player = Silence])

PlayNext == Microtask \/ UserActs \/ ServerActs \/ Timers \/ Fetches \/ LoadEnds \/ SoundEnds

-----------------------------------------------------------------------------
\* Buffering where nothing will ever say that the block is there: checkBufferReady
\* runs only when a promise settles, so a cursor or a voice that moves, while
\* buffering, to a block whose audio is cached has nobody to notice it.
Stranded ==
  /\ deck.status = "buffering" /\ deck.cur >= 0 /\ HasAudio(deck, deck.cur)
  /\ deck.requests = << >> /\ deck.fetches = {}

Waiting == deck.status # "stopped" /\ deck.player.state # "playing"

\* What sounds is the block the cursor is on, in the chosen voice, of the open document.
SoundIsCurrent ==
  deck.player.state = "playing" =>
    /\ deck.status = "playing"
    /\ deck.player.sound = [block |-> deck.cur, voice |-> deck.voice, doc |-> deck.doc]

\* A user who does not go back on an answer the player is about to use hears the
\* block the cursor is on, in his voice, whatever answers overtake each other; and
\* any user who waits hears something, or sees that playback stopped, whatever the
\* server does, unless he is stranded.
PlaybackHeard ==
  /\ [](~ hasty => SoundIsCurrent)
  /\ Waiting ~> (~ Waiting \/ Stranded)
=============================================================================
