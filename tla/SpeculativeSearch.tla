------------------------- MODULE SpeculativeSearch -------------------------
(***************************************************************************)
(* Searching ahead in a live voice session (src/backend/src/voice/         *)
(* session.rs, voice/spec_retrieval.rs): while somebody still speaks, the  *)
(* capture loop searches on what it has heard, and the turn the utterance  *)
(* becomes takes a result that is at hand or waits for one that is not.    *)
(* A search runs on a task of its own, the socket's reader may interrupt   *)
(* at any moment, and every access to SpecShared is a critical section.    *)
(*                                                                         *)
(* Transcripts are not spelled out: an utterance is its number, and        *)
(* whether a search fits what was said in the end (reuse_ok) is left open. *)
(***************************************************************************)
EXTENDS Naturals

CONSTANTS
  MaxTurns,     \* bound on the turns of the session
  MaxShots,     \* bound on its searches
  MaxDetours    \* bound on the utterances that become no turn and the stops the
                \* client presses, together

ASSUME SearchAssumption ==
  MaxTurns \in Nat /\ MaxShots \in Nat /\ MaxDetours \in Nat

Turns == 1..MaxTurns
Shots == 1..MaxShots
None == 0

VARIABLES
  capture,    \* the capture loop: "listening", in spec_fire ("firing", then
              \* "spawned"), in barge_in ("barging") or in start_turn ("starting")
  reader,     \* the socket's reader: "idle" or in barge_in ("barging")
  current,    \* current_turn
  epoch, pool, inflight,  \* SpecShared
  shot,       \* [Shots -> the task of a search: "none", "running", "aborted" (but
              \* not yet ended), or its end: "parked", "returned", "failed"]
  fired,      \* [Shots -> the epoch it was started under]
  turn,       \* [Turns -> "none", "settling" (its task waits for a search), "begun"
              \* or "abandoned", and "over" when its voice has ended]
  awaited,    \* [Turns -> the search it waits for]
  signalled,  \* the turns whose cancel signal is kept for the wait
  prefetched, \* [Turns -> the search whose result it was given]
  detours,
  \* History.
  utterance,  \* the number of the utterance being gathered
  asked,      \* [Shots -> the utterance it was fired in]
  from        \* [Turns -> the utterance it was committed from]

sharedVars == <<epoch, pool, inflight>>
planVars   == <<turn, awaited, prefetched, from>>
searchVars == <<capture, reader, current, sharedVars, shot, fired, planVars,
                signalled, detours, utterance, asked>>

SearchInit ==
  /\ capture = "listening" /\ reader = "idle"
  /\ current = None
  /\ epoch = 0 /\ pool = None /\ inflight = None
  /\ shot = [s \in Shots |-> "none"]
  /\ fired = [s \in Shots |-> 0] /\ asked = [s \in Shots |-> 0]
  /\ turn = [t \in Turns |-> "none"]
  /\ awaited = [t \in Turns |-> None] /\ prefetched = [t \in Turns |-> None]
  /\ signalled = {}
  /\ from = [t \in Turns |-> 0]
  /\ detours = 0 /\ utterance = 1

-----------------------------------------------------------------------------
(* The capture loop.                                                       *)

Fresh(s) == shot[s] = "none" /\ \A r \in 1..(s - 1) : shot[r] # "none"
Newest(s) == shot[s] # "none" /\ \A r \in (s + 1)..MaxShots : shot[r] = "none"

\* The loop gathers speech only while no turn is current.
Gathers == capture = "listening" /\ current = None

\* decide asks for a search; spec_fire resolves its scope and audits it,
Fire ==
  /\ Gathers
  /\ \E s \in Shots : Fresh(s)
  /\ capture' = "firing"
  /\ UNCHANGED <<reader, current, sharedVars, shot, fired, planVars, signalled,
                 detours, utterance, asked>>

\* takes the epoch and spawns it,
SpawnSearch ==
  /\ capture = "firing"
  /\ \E s \in Shots :
       /\ Fresh(s)
       /\ shot' = [shot EXCEPT ![s] = "running"]
       /\ fired' = [fired EXCEPT ![s] = epoch]
       /\ asked' = [asked EXCEPT ![s] = utterance]
  /\ capture' = "spawned"
  /\ UNCHANGED <<reader, current, sharedVars, planVars, signalled, detours,
                 utterance>>

Aborted(s) == [r \in Shots |-> IF r = s /\ shot[r] = "running" THEN "aborted" ELSE shot[r]]

\* and puts it in the slot, in place of the one before.
Install ==
  /\ capture = "spawned"
  /\ \E s \in Shots : Newest(s) /\ inflight' = s
  /\ shot' = Aborted(inflight)
  /\ capture' = "listening"
  /\ UNCHANGED <<reader, current, epoch, pool, fired, planVars, signalled, detours,
                 utterance, asked>>

\* The utterance was a blip, could not be transcribed or was no speech.
Discard ==
  /\ Gathers
  /\ detours < MaxDetours
  /\ detours' = detours + 1
  /\ utterance' = utterance + 1
  /\ UNCHANGED <<capture, reader, current, sharedVars, shot, fired, planVars,
                 signalled, asked>>

\* It has ended and was speech: start_turn makes the turn current,
StartTurn(t) ==
  /\ Gathers
  /\ from[t] = 0 /\ \A r \in 1..(t - 1) : from[r] # 0
  /\ from' = [from EXCEPT ![t] = utterance]
  /\ utterance' = utterance + 1
  /\ current' = t
  /\ capture' = "starting"
  /\ UNCHANGED <<reader, sharedVars, shot, fired, turn, awaited, prefetched,
                 signalled, detours, asked>>

Close == epoch' = epoch + 1 /\ pool' = None

\* and, once the state was announced, takes everything off SpecShared (spec_plan): a
\* result that fits, the search that runs if that fits, or neither.
PlanTurn(t) ==
  /\ capture = "starting"
  /\ from[t] # 0 /\ turn[t] = "none"
  /\ Close /\ inflight' = None
  /\ \/ /\ pool # None
        /\ prefetched' = [prefetched EXCEPT ![t] = pool]
        /\ shot' = Aborted(inflight)
        /\ turn' = [turn EXCEPT ![t] = "begun"]
        /\ UNCHANGED awaited
     \/ /\ inflight # None
        /\ awaited' = [awaited EXCEPT ![t] = inflight]
        /\ turn' = [turn EXCEPT ![t] = "settling"]
        /\ UNCHANGED <<prefetched, shot>>
     \/ /\ shot' = Aborted(inflight)
        /\ turn' = [turn EXCEPT ![t] = "begun"]
        /\ UNCHANGED <<prefetched, awaited>>
  /\ capture' = "listening"
  /\ UNCHANGED <<reader, current, fired, from, signalled, detours, utterance,
                 asked>>

-----------------------------------------------------------------------------
(* barge_in: talking over the reply, or the client's stop.                 *)

\* The turn is taken off and its signal given, which only the wait here hears.
TakeCurrent ==
  /\ current' = None
  /\ signalled' = signalled \cup
       {t \in Turns : t = current /\ turn[t] \in {"none", "settling"}}

TalkOver ==
  /\ capture = "listening"
  /\ current # None /\ turn[current] = "begun"
  /\ TakeCurrent
  /\ capture' = "barging"
  /\ UNCHANGED <<reader, sharedVars, shot, fired, planVars, detours, utterance,
                 asked>>

PressStop ==
  /\ reader = "idle" /\ detours < MaxDetours
  /\ detours' = detours + 1
  /\ TakeCurrent
  /\ reader' = "barging"
  /\ UNCHANGED <<capture, sharedVars, shot, fired, planVars, utterance, asked>>

\* spec_clear, after the audit.
Clear ==
  /\ Close /\ inflight' = None
  /\ shot' = Aborted(inflight)
  /\ UNCHANGED <<current, fired, planVars, signalled, detours, utterance, asked>>

CaptureClears == capture = "barging" /\ Clear /\ capture' = "listening" /\ UNCHANGED reader
ReaderClears == reader = "barging" /\ Clear /\ reader' = "idle" /\ UNCHANGED capture

-----------------------------------------------------------------------------
(* The task of a search (spec_run).                                        *)

LeavesSlot(s) == inflight' = IF inflight = s THEN None ELSE inflight

\* Mutant: a result is parked whenever it comes.
AdmitsAny(s) == TRUE

Admits(s) == epoch = fired[s]

\* An aborted task ends at its next await, so it may still come this far.
SearchDone(s) ==
  /\ shot[s] \in {"running", "aborted"}
  /\ LeavesSlot(s)
  /\ pool' = IF Admits(s) THEN s ELSE pool
  /\ shot' = [shot EXCEPT ![s] = IF Admits(s) THEN "parked" ELSE "returned"]
  /\ UNCHANGED <<capture, reader, current, epoch, fired, planVars, signalled,
                 detours, utterance, asked>>

\* Without a model or overrides to search with it fails before it may leave the slot.
SearchFails(s) ==
  /\ shot[s] \in {"running", "aborted"}
  /\ LeavesSlot(s) \/ UNCHANGED inflight
  /\ shot' = [shot EXCEPT ![s] = "failed"]
  /\ UNCHANGED <<capture, reader, current, epoch, pool, fired, planVars, signalled,
                 detours, utterance, asked>>

-----------------------------------------------------------------------------
(* The task of a turn (spec_settle), and the end of its voice.             *)

\* The search has ended: with a result for this turn, or with none.
Settle(t) ==
  /\ turn[t] = "settling"
  /\ LET s == awaited[t] IN
       \/ /\ shot[s] = "returned"
          /\ prefetched' = [prefetched EXCEPT ![t] = s]
       \/ /\ shot[s] \in {"parked", "failed", "aborted"}
          /\ UNCHANGED prefetched
  /\ turn' = [turn EXCEPT ![t] = "begun"]
  /\ signalled' = signalled \ {t}
  /\ UNCHANGED <<capture, reader, current, sharedVars, shot, fired, awaited, from,
                 detours, utterance, asked>>

\* The wait runs out, or the signal comes and the turn is abandoned.
GiveUpSearch(t) ==
  /\ turn[t] = "settling"
  /\ \/ turn' = [turn EXCEPT ![t] = "begun"]
     \/ t \in signalled /\ turn' = [turn EXCEPT ![t] = "abandoned"]
  /\ shot' = Aborted(awaited[t])
  /\ signalled' = signalled \ {t}
  /\ UNCHANGED <<capture, reader, current, sharedVars, fired, awaited, prefetched,
                 from, detours, utterance, asked>>

\* finish_turn, when the voice has spoken, was cut or gave the turn up: it takes off
\* whatever turn is current.
FinishTurn(t) ==
  /\ turn[t] \in {"begun", "abandoned"}
  /\ turn' = [turn EXCEPT ![t] = "over"]
  /\ current' = None
  /\ UNCHANGED <<capture, reader, sharedVars, shot, fired, awaited, prefetched,
                 from, signalled, detours, utterance, asked>>

-----------------------------------------------------------------------------
SearchNext ==
  \/ Fire \/ SpawnSearch \/ Install \/ Discard
  \/ TalkOver \/ PressStop \/ CaptureClears \/ ReaderClears
  \/ \E s \in Shots : SearchDone(s) \/ SearchFails(s)
  \/ \E t \in Turns :
       StartTurn(t) \/ PlanTurn(t) \/ Settle(t) \/ GiveUpSearch(t) \/ FinishTurn(t)

SearchSpec == SearchInit /\ [][SearchNext]_searchVars

-----------------------------------------------------------------------------
(* Properties.                                                             *)

SearchTypeOK ==
  /\ capture \in {"listening", "firing", "spawned", "barging", "starting"}
  /\ reader \in {"idle", "barging"}
  /\ current \in Turns \cup {None}
  /\ epoch \in Nat
  /\ pool \in Shots \cup {None} /\ inflight \in Shots \cup {None}
  /\ shot \in [Shots -> {"none", "running", "aborted", "parked", "returned", "failed"}]
  /\ fired \in [Shots -> Nat] /\ asked \in [Shots -> Nat]
  /\ turn \in [Turns -> {"none", "settling", "begun", "abandoned", "over"}]
  /\ awaited \in [Turns -> Shots \cup {None}]
  /\ prefetched \in [Turns -> Shots \cup {None}]
  /\ signalled \subseteq Turns
  /\ from \in [Turns -> Nat]
  /\ detours \in 0..MaxDetours
  /\ utterance \in Nat \ {0}

\* What was searched while an utterance was spoken that became a turn is given to no
\* other turn ("picked up by the next turn, answering a question nobody asked",
\* SpecShared.epoch), although the search may end at any moment, aborted or not.
NothingCrossesTurns == \A t, r \in Turns :
  prefetched[t] # None /\ r # t => asked[prefetched[t]] # from[r]

\* "Every field is cleared when the utterance ends, so nothing survives into the next
\* turn" (SpecShared): what a turn is given was searched for its own utterance.
GivenIsItsOwn == \A t \in Turns :
  prefetched[t] # None => asked[prefetched[t]] = from[t]
=============================================================================
