---------------------------- MODULE HealthScopes ----------------------------
(***************************************************************************)
(* The cooldowns of failed providers: model_routing/health_scopes.rs and   *)
(* the way its callers use it (transport.rs, dispatch.rs, classifier.rs).  *)
(*                                                                         *)
(* A provider failure blames some scopes (the model, the connection, the   *)
(* credential, the quota group), which several deployments and all workers *)
(* share.  A blamed scope has a row: while it cools nothing is sent, then  *)
(* one request at a time may be its probe, and only the success of the     *)
(* probe removes the row.  Claims and notes are transactions over several  *)
(* rows, taken in the order of their keys.                                 *)
(***************************************************************************)
EXTENDS Naturals, FiniteSets, FiniteSetsExt

CONSTANTS
  Scopes,       \* the scopes of one deployment, numbered by their keys
  Blames,       \* the sets of scopes a failure can blame (note, by kind)
  Requests,     \* provider requests, each made once
  Batches,      \* those of them that make more than one provider call
  NoRequestYet  \* the token of a row nobody probes

VARIABLES
  row,          \* scope -> NoRow, or whether it cools, its token and its window
  lockOf,       \* scope -> the request whose transaction has its row
  at,           \* request -> where it is
  todo,         \* request -> the scopes its transaction, or its success, still visits
  mine,         \* request -> the scopes it probes, or is about to
  freeing,      \* the releases of unsent probes that are on their way
  after         \* scope -> requests admitted as its probe since the last failure

healthVars == <<row, lockOf, at, todo, mine, freeing, after>>

ASSUME HealthConstants ==
  /\ Scopes \subseteq Nat /\ Blames \subseteq SUBSET Scopes
  /\ Batches \subseteq Requests /\ NoRequestYet \notin Requests

NoRow == [cooling |-> FALSE, token |-> NoRequestYet, window |-> FALSE, there |-> FALSE]
Failed == [cooling |-> TRUE, token |-> NoRequestYet, window |-> FALSE, there |-> TRUE]

HealthInit ==
  /\ row = [s \in Scopes |-> NoRow]
  /\ lockOf = [s \in Scopes |-> NoRequestYet]
  /\ at = [r \in Requests |-> "new"]
  /\ todo = [r \in Requests |-> {}] /\ mine = [r \in Requests |-> {}]
  /\ freeing = {}
  /\ after = [s \in Scopes |-> {}]

Unlocked(s, r) == lockOf[s] \in {r, NoRequestYet}
Goto(r, place) == at' = [at EXCEPT ![r] = place]
Visits(r, S) == todo' = [todo EXCEPT ![r] = S]
FreeLocks(r) == lockOf' = [s \in Scopes |-> IF lockOf[s] = r THEN NoRequestYet ELSE lockOf[s]]

\* --- claim(): before a request is sent --------------------------------------

OpenClaim(r) ==
  /\ at[r] = "new"
  /\ Goto(r, "claiming") /\ Visits(r, Scopes)
  /\ UNCHANGED <<row, lockOf, mine, freeing, after>>

\* Mutant: a probe under way does not keep others out.
CoolsOnly(k, r) == row[k].cooling \/ r \in Batches

\* Nothing may be sent under a row that cools or is being probed, and no
\* request of several calls is a probe.
Closed(k, r) == row[k].cooling \/ row[k].window \/ r \in Batches

\* The rows are visited in the order of their keys; one that is not there is
\* not locked, one that is closed ends the transaction with an error.
ClaimScope(r) ==
  /\ at[r] = "claiming" /\ todo[r] # {}
  /\ LET k == Min(todo[r]) IN
       \/ /\ ~row[k].there
          /\ Visits(r, todo[r] \ {k})
          /\ UNCHANGED <<lockOf, at, mine>>
       \/ /\ row[k].there /\ Unlocked(k, r) /\ ~Closed(k, r)
          /\ lockOf' = [lockOf EXCEPT ![k] = r]
          /\ mine' = [mine EXCEPT ![r] = @ \cup {k}]
          /\ Visits(r, todo[r] \ {k})
          /\ UNCHANGED at
       \/ /\ row[k].there /\ Unlocked(k, r) /\ Closed(k, r)
          /\ FreeLocks(r)
          /\ mine' = [mine EXCEPT ![r] = {}]
          /\ Visits(r, {})
          /\ Goto(r, "over")
  /\ UNCHANGED <<row, freeing, after>>

ClaimCommit(r) ==
  /\ at[r] = "claiming" /\ todo[r] = {}
  /\ row' = [s \in Scopes |->
       IF s \in mine[r] THEN [row[s] EXCEPT !.token = r, !.window = TRUE] ELSE row[s]]
  /\ after' = [s \in Scopes |-> IF s \in mine[r] THEN after[s] \cup {r} ELSE after[s]]
  /\ FreeLocks(r)
  /\ Goto(r, "ready")
  /\ UNCHANGED <<todo, mine, freeing>>

\* --- The request -----------------------------------------------------------

SendRequest(r) ==
  /\ at[r] = "ready"
  /\ Goto(r, "sent")
  /\ UNCHANGED <<row, lockOf, todo, mine, freeing, after>>

\* Drop for Probe: what was never sent gives its probes back, in the background.
DropUnsent(r) ==
  /\ at[r] = "ready"
  /\ freeing' = freeing \cup {<<s, r>> : s \in mine[r]}
  /\ Goto(r, "over")
  /\ UNCHANGED <<row, lockOf, todo, mine, after>>

GiveBack(s, r) ==
  /\ <<s, r>> \in freeing
  /\ lockOf[s] = NoRequestYet
  /\ freeing' = freeing \ {<<s, r>>}
  /\ row' = IF row[s].there /\ row[s].token = r
              THEN [row EXCEPT ![s].token = NoRequestYet, ![s].window = FALSE]
              ELSE row
  /\ UNCHANGED <<lockOf, at, todo, mine, after>>

\* The server dies with it, or the update fails: its window will lapse.
LoseGiveBack(s, r) ==
  /\ <<s, r>> \in freeing
  /\ freeing' = freeing \ {<<s, r>>}
  /\ UNCHANGED <<row, lockOf, at, todo, mine, after>>

\* A request that was sent ends without a word on the provider: cancelled,
\* timed out, or the ML service itself failed.
EndUnknown(r) ==
  /\ at[r] = "sent"
  /\ Goto(r, "over")
  /\ UNCHANGED <<row, lockOf, todo, mine, freeing, after>>

Succeeds(r) ==
  /\ at[r] = "sent"
  /\ Goto(r, "clearing") /\ Visits(r, mine[r])
  /\ UNCHANGED <<row, lockOf, mine, freeing, after>>

\* Mutant: the probe's success deletes the row whatever happened to it.
ClearScopeAnyway(r) ==
  /\ at[r] = "clearing" /\ todo[r] # {}
  /\ \E k \in todo[r] :
       /\ lockOf[k] = NoRequestYet
       /\ row' = [row EXCEPT ![k] = NoRow]
       /\ Visits(r, todo[r] \ {k})
  /\ UNCHANGED <<lockOf, at, mine, freeing, after>>

\* Probe::success, one scope after another, each by itself: the row goes if it
\* still has the probe's token and no longer cools.
ClearScope(r) ==
  /\ at[r] = "clearing" /\ todo[r] # {}
  /\ \E k \in todo[r] :
       /\ lockOf[k] = NoRequestYet
       /\ row' = IF row[k].token = r /\ ~row[k].cooling THEN [row EXCEPT ![k] = NoRow] ELSE row
       /\ Visits(r, todo[r] \ {k})
  /\ UNCHANGED <<lockOf, at, mine, freeing, after>>

Cleared(r) ==
  /\ at[r] = "clearing" /\ todo[r] = {}
  /\ Goto(r, "over")
  /\ UNCHANGED <<row, lockOf, todo, mine, freeing, after>>

\* --- note(): a failure the provider confirmed --------------------------------

Fails(r) ==
  /\ at[r] = "sent"
  /\ \E B \in Blames : Visits(r, B)
  /\ mine' = [mine EXCEPT ![r] = {}]
  /\ Goto(r, "noting")
  /\ UNCHANGED <<row, lockOf, freeing, after>>

\* Mutant: the scopes are updated as the kinds list them.
NoteScopeUnsorted(r) ==
  /\ at[r] = "noting" /\ todo[r] # {}
  /\ LET k == Max(todo[r]) IN
       /\ Unlocked(k, r)
       /\ lockOf' = [lockOf EXCEPT ![k] = r]
       /\ mine' = [mine EXCEPT ![r] = @ \cup {k}]
       /\ Visits(r, todo[r] \ {k})
  /\ UNCHANGED <<row, at, freeing, after>>

\* "Match probe lock order when failures update several shared scopes."
NoteScope(r) ==
  /\ at[r] = "noting" /\ todo[r] # {}
  /\ LET k == Min(todo[r]) IN
       /\ Unlocked(k, r)
       /\ lockOf' = [lockOf EXCEPT ![k] = r]
       /\ mine' = [mine EXCEPT ![r] = @ \cup {k}]
       /\ Visits(r, todo[r] \ {k})
  /\ UNCHANGED <<row, at, freeing, after>>

\* The upsert cools the scope again and takes its token from whoever probes it.
NoteCommit(r) ==
  /\ at[r] = "noting" /\ todo[r] = {}
  /\ row' = [s \in Scopes |-> IF s \in mine[r] THEN Failed ELSE row[s]]
  /\ after' = [s \in Scopes |-> IF s \in mine[r] THEN {} ELSE after[s]]
  /\ FreeLocks(r)
  /\ Goto(r, "over")
  /\ UNCHANGED <<todo, mine, freeing>>

\* --- Time --------------------------------------------------------------------

CoolingEnds(s) ==
  /\ row[s].cooling
  /\ row' = [row EXCEPT ![s].cooling = FALSE]
  /\ UNCHANGED <<lockOf, at, todo, mine, freeing, after>>

\* The window is ten seconds longer than the request may take.
WindowEnds(s) ==
  /\ row[s].window
  /\ at[row[s].token] \notin {"ready", "sent"}
  /\ row' = [row EXCEPT ![s].window = FALSE]
  /\ UNCHANGED <<lockOf, at, todo, mine, freeing, after>>

HealthNext ==
  \/ \E r \in Requests :
       \/ OpenClaim(r) \/ ClaimScope(r) \/ ClaimCommit(r) \/ SendRequest(r) \/ DropUnsent(r)
       \/ EndUnknown(r) \/ Succeeds(r) \/ ClearScope(r) \/ Cleared(r)
       \/ Fails(r) \/ NoteScope(r) \/ NoteCommit(r)
       \/ \E s \in Scopes : GiveBack(s, r) \/ LoseGiveBack(s, r)
  \/ \E s \in Scopes : CoolingEnds(s) \/ WindowEnds(s)

HealthSpec == HealthInit /\ [][HealthNext]_healthVars

-----------------------------------------------------------------------------
HealthTypeOK ==
  /\ row \in [Scopes -> [cooling : BOOLEAN, token : Requests \cup {NoRequestYet},
                         window : BOOLEAN, there : BOOLEAN]]
  /\ lockOf \in [Scopes -> Requests \cup {NoRequestYet}]
  /\ at \in [Requests -> {"new", "claiming", "ready", "sent", "clearing", "noting", "over"}]
  /\ todo \in [Requests -> SUBSET Scopes] /\ mine \in [Requests -> SUBSET Scopes]
  /\ freeing \subseteq Scopes \X Requests
  /\ after \in [Scopes -> SUBSET Requests]

\* Half-open: since the last failure of a scope at most one request that was
\* admitted as its probe is with the provider at any time (claim, and the window
\* it grants).
OneProbe ==
  \A s \in Scopes : row[s].there =>
    \A q, r \in after[s] : at[q] \in {"ready", "sent"} /\ at[r] \in {"ready", "sent"} => q = r

\* A scope recovers only by the success of a request that was admitted after its
\* last failure: an old success never erases a newer failure (Probe::success).
RecoversOnProof ==
  [][\A s \in Scopes : row[s].there /\ ~row'[s].there
       => \E r \in after[s] : at[r] = "clearing"]_healthVars

\* The row a request's next step waits for.
Awaits(r) ==
  {k \in todo[r] : at[r] \in {"claiming", "noting"} /\ k = Min(todo[r]) /\ ~Unlocked(k, r)
                     /\ (row[k].there \/ at[r] = "noting")}

\* Claims and notes over shared scopes never wait for each other in a circle
\* (the sort in note, the ordered set in claim).
NoCrossedLocks ==
  \A q, r \in Requests : \A k \in Awaits(q), j \in Awaits(r) : ~(lockOf[k] = r /\ lockOf[j] = q)
=============================================================================
