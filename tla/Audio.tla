--------------------------------- MODULE Audio ---------------------------------
(***************************************************************************)
(* The two ends of an audio's life, checked in one specification: the      *)
(* gateway keeps it (AudioCache) and the browser plays it (Playback).  The  *)
(* player sees of the cache only that a download succeeds, late or not at  *)
(* all, so the two share no state: part picks the one that runs, and the    *)
(* other rests in an initial state.                                        *)
(***************************************************************************)
EXTENDS AudioCache, Playback

VARIABLE part     \* the one that runs

audioVars == <<part, vars, playVars>>

AudioInit ==
    /\ part \in {"cache", "player"}
    /\ Init /\ PlayInit
    \* Voices and documents are interchangeable: one first choice stands for all.
    /\ deck.voice = CHOOSE v \in Voices : TRUE
    /\ deck.doc = CHOOSE d \in Docs : TRUE

Cache == part = "cache" /\ Next /\ UNCHANGED <<part, playVars>>
Player == part = "player" /\ PlayNext /\ UNCHANGED <<part, vars>>

AudioNext == Cache \/ Player

\* The event loop runs every continuation, timers fire, a download settles, and a load
\* ends, by its own timer at the latest.
PlayFairness ==
    /\ WF_playVars(part = "player" /\ Microtask)
    /\ WF_playVars(part = "player" /\ Timers)
    /\ WF_playVars(part = "player" /\ Fetches)
    /\ WF_playVars(part = "player" /\ LoadEnds)

CacheFairness ==
    /\ WF_vars(part = "cache" /\ Persister)
    /\ WF_vars(part = "cache" /\ \E v \in Variants : Enqueue(v))

AudioSpec == AudioInit /\ [][AudioNext]_audioVars /\ CacheFairness /\ PlayFairness
=============================================================================
