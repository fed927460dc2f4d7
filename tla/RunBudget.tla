----------------------------- MODULE RunBudget -----------------------------
(***************************************************************************)
(* The ledger one routed run shares among its concurrent helpers.          *)
(*                                                                         *)
(* Every provider call is reserved before its request is dispatched, at    *)
(* the quote of its purpose: an input and an output allowance and, where   *)
(* the model's prices are known, an upper bound of its cost.  Calls of     *)
(* fixed services (embedding, reranking, speech) have neither tokens nor a *)
(* price.  One request reserves calls of both lanes at once; the ML        *)
(* service makes some of them and reports what it did.  A complete and     *)
(* valid report replaces quotes by what was used and releases what was not *)
(* made; anything else keeps the whole reservation.  A reported overrun    *)
(* exhausts the run.  Meanwhile every preparation may tighten the limits.  *)
(*                                                                         *)
(* The mutex of the ledger makes each action one step; a settlement takes  *)
(* it once per call, so other helpers come in between.  The ML service is  *)
(* taken to report what it did and to make no call it was not granted.     *)
(***************************************************************************)
EXTENDS Integers, FiniteSets

CONSTANTS
  Requests,      \* the helpers, each with at most one request under way
  Slots,         \* the calls the run may ever ask for
  Fixed,         \* those that go to a fixed service
  Input,         \* the input allowance of a call: tokens, or bytes if fixed
  Output,        \* its output allowance
  Price,         \* the upper bound of its cost; Unknown without prices
  Uses,          \* what a call may consume: pairs of input and output
  Limits,        \* the limits a run may start with or be restricted to
  Restored,      \* the usage a run may start with: zero, or a durable row's
  MaxGrant,      \* 1024 calls per request
  Unlimited, Unknown

Caps == {"calls", "output", "tokens", "cost"}
Counters == {"calls", "tokens", "cost", "unpriced", "unmetered"}

ASSUME SlotAssumption ==
  /\ IsFiniteSet(Slots) /\ Fixed \subseteq Slots
  /\ Input \in [Slots -> Nat] /\ Output \in [Slots -> Nat]
  /\ Price \in [Slots -> Nat \cup {Unknown}] /\ Unknown \notin Nat
  /\ \A s \in Fixed : Price[s] = Unknown
  /\ Uses \subseteq Nat \X Nat

ASSUME LimitAssumption ==
  /\ Unlimited \notin Nat /\ MaxGrant \in Nat
  /\ Limits \subseteq [Caps -> Nat \cup {Unlimited}]
  /\ Restored \subseteq [Counters -> Nat]

VARIABLES
  first,         \* history: the limits the run started with
  prior,         \* history: the usage it started with
  limits,        \* Inner.limits
  usage,         \* the counters of Inner.usage
  exhausted,     \* usage.exhausted
  expired,       \* max_duration_ms has passed since Inner.started
  batch,         \* the calls of each helper's request
  phase,         \* what has become of each call
  used,          \* what it really consumed, once made
  told,          \* calls whose consumption a complete report gave in full
  capped         \* history: the caps under which something was reserved

ledgerVars == <<limits, usage, exhausted>>
startVars  == <<first, prior>>
vars == <<startVars, ledgerVars, expired, batch, phase, used, told, capped>>

Phases == {"free", "held", "granted", "made", "over", "reported", "unused",
           "settled", "released"}

Within(n, cap) == cap # Unlimited => n <= cap
Has(cap) == limits[cap] # Unlimited
TokensCapped == Has("tokens") \/ Has("output")

QuotedTokens == [s \in Slots |-> IF s \in Fixed THEN 0 ELSE Input[s] + Output[s]]
QuotedCost == [s \in Slots |-> IF Price[s] = Unknown THEN 0 ELSE Price[s]]

\* The sum of the amounts of the calls in S, counted unit by unit.
Units(amount, S) == UNION {{s} \X (1 .. amount[s]) : s \in S}
Total(amount, S) == Cardinality(Units(amount, S))
Unpriced == {s \in Slots : Price[s] = Unknown}

\* RunBudget::new, or RunBudget::restore of a durable row.
Init ==
  /\ first \in Limits /\ limits = first
  /\ prior \in Restored /\ usage = prior
  /\ \A c \in {"calls", "tokens", "cost"} : Within(prior[c], first[c])
  /\ exhausted = FALSE /\ expired = FALSE
  /\ batch = [r \in Requests |-> {}]
  /\ phase = [s \in Slots |-> "free"]
  /\ used = [s \in Slots |-> <<0, 0>>]
  /\ told = {} /\ capped = {}

-----------------------------------------------------------------------------
(* reserve_mixed: all calls of a request, or none.                         *)

\* What the ledger becomes.
Reserved(S) == [
  calls     |-> usage["calls"] + Cardinality(S),
  tokens    |-> usage["tokens"] + Total(QuotedTokens, S),
  cost      |-> usage["cost"] + Total(QuotedCost, S),
  unpriced  |-> usage["unpriced"] + Cardinality(S \cap Unpriced),
  unmetered |-> usage["unmetered"] + Cardinality(S \cap Fixed)]

\* Mutant: spend of unknown size or price counts as nothing.
SpendUnknownIsNone == TRUE

\* No hard cap where what was spent is unknown.
SpendIsKnown ==
  /\ Has("cost") => usage["unpriced"] = 0
  /\ TokensCapped => usage["unmetered"] = 0

\* No call of unknown price or size under a cap on it.
Quotable(S) ==
  /\ S \cap Fixed # {} => ~TokensCapped /\ ~Has("cost")
  /\ \A s \in S \ Fixed : /\ Within(Output[s], limits["output"])
                          /\ Has("cost") => Price[s] # Unknown

Fits(next) == \A c \in {"calls", "tokens", "cost"} : Within(next[c], limits[c])

Reserve(r, S) ==
  /\ batch[r] = {}
  /\ S # {} /\ \A s \in S : phase[s] = "free"
  /\ Cardinality(S) <= MaxGrant
  /\ ~expired /\ ~exhausted
  /\ SpendIsKnown /\ Quotable(S) /\ Fits(Reserved(S))
  /\ usage' = Reserved(S)
  /\ batch' = [batch EXCEPT ![r] = S]
  /\ phase' = [s \in Slots |-> IF s \in S THEN "held" ELSE phase[s]]
  /\ capped' = capped \cup {c \in Caps : Has(c)}
  /\ UNCHANGED <<startVars, limits, exhausted, expired, used, told>>

-----------------------------------------------------------------------------
(* The request.                                                            *)

\* json, stream: refresh looks at the run again before the request leaves.
Send(r) ==
  /\ batch[r] # {} /\ \A s \in batch[r] : phase[s] = "held"
  /\ ~exhausted /\ ~expired
  /\ phase' = [s \in Slots |-> IF s \in batch[r] THEN "granted" ELSE phase[s]]
  /\ UNCHANGED <<startVars, ledgerVars, expired, batch, used, told, capped>>

\* The ML service makes a granted call, also after the helper has gone.
Call(s, u) ==
  /\ phase[s] = "granted"
  /\ phase' = [phase EXCEPT ![s] = "made"]
  /\ used' = [used EXCEPT ![s] = u]
  /\ UNCHANGED <<startVars, ledgerVars, expired, batch, told, capped>>

\* Any error, a cancellation, a deadline, a lost, partial or invalid report:
\* the grant is dropped and its reservations stay charged.
Abandon(r) ==
  /\ batch[r] # {}
  /\ batch' = [batch EXCEPT ![r] = {}]
  /\ UNCHANGED <<startVars, ledgerVars, expired, phase, used, told, capped>>

-----------------------------------------------------------------------------
(* MixedGrant::finish: both lanes are validated before any refund.         *)

Answered(r) == batch[r] # {} /\ \A s \in batch[r] : phase[s] \in {"granted", "made"}
MadeIn(r) == {s \in batch[r] : phase[s] = "made"}
Over(s) == used[s][1] > Input[s] \/ used[s][2] > Output[s]

\* A report, complete or not, that shows a call above its allowance.
Overrun(r) ==
  /\ Answered(r) /\ \E s \in MadeIn(r) : Over(s)
  /\ exhausted' = TRUE
  /\ batch' = [batch EXCEPT ![r] = {}]
  /\ phase' = [s \in Slots |-> IF s \in MadeIn(r) /\ Over(s) THEN "over" ELSE phase[s]]
  /\ UNCHANGED <<startVars, limits, usage, expired, used, told, capped>>

\* A complete report; of the calls in K it gives the whole consumption.
Complete(r, K) ==
  /\ Answered(r)
  /\ K \subseteq MadeIn(r) \ Fixed /\ \A s \in K : ~Over(s)
  /\ batch' = [batch EXCEPT ![r] = {}]
  /\ phase' = [s \in Slots |-> IF s \notin batch[r] THEN phase[s]
                               ELSE IF phase[s] = "made" THEN "reported" ELSE "unused"]
  /\ told' = told \cup K
  /\ UNCHANGED <<startVars, ledgerVars, expired, used, capped>>

ActualTokens ==
  [s \in Slots |-> IF s \in told THEN used[s][1] + used[s][2] ELSE QuotedTokens[s]]

\* Mutant: a reported call gives its reservation back as well.
FinishReleases(s) ==
  /\ phase[s] = "reported"
  /\ phase' = [phase EXCEPT ![s] = "settled"]
  /\ usage' = [usage EXCEPT !["calls"] = @ - 1]
  /\ UNCHANGED <<startVars, limits, exhausted, expired, batch, used, told, capped>>

\* Reservation::finish: quoted tokens become actual ones; prices are not in a
\* report.  A fixed call is only taken off the list.
Finish(s) ==
  /\ phase[s] = "reported"
  /\ phase' = [phase EXCEPT ![s] = "settled"]
  /\ usage' = [usage EXCEPT !["tokens"] = @ - QuotedTokens[s] + ActualTokens[s]]
  /\ UNCHANGED <<startVars, limits, exhausted, expired, batch, used, told, capped>>

\* Reservation::release_unused.
ReleaseUnused(s) ==
  /\ phase[s] = "unused"
  /\ phase' = [phase EXCEPT ![s] = "released"]
  /\ usage' = [usage EXCEPT
       !["calls"] = @ - 1, !["tokens"] = @ - QuotedTokens[s], !["cost"] = @ - QuotedCost[s],
       !["unpriced"] = IF s \in Unpriced THEN @ - 1 ELSE @,
       !["unmetered"] = IF s \in Fixed THEN @ - 1 ELSE @]
  /\ UNCHANGED <<startVars, limits, exhausted, expired, batch, used, told, capped>>

-----------------------------------------------------------------------------
\* Mutant: the newest limits replace the old ones.
Latest(a, b) == b

Tighter(a, b) ==
  IF a = Unlimited THEN b ELSE IF b = Unlimited \/ a <= b THEN a ELSE b

\* RunBudget::restrict, at every preparation.
RestrictTo(l) ==
  /\ limits' = [c \in Caps |-> Tighter(limits[c], l[c])]
  /\ UNCHANGED <<startVars, usage, exhausted, expired, batch, phase, used, told, capped>>

Expire ==
  /\ expired' = TRUE
  /\ UNCHANGED <<startVars, ledgerVars, batch, phase, used, told, capped>>

Next ==
  \/ \E r \in Requests :
       \/ \E S \in SUBSET Slots : Reserve(r, S)
       \/ Send(r) \/ Abandon(r) \/ Overrun(r)
       \/ \E K \in SUBSET batch[r] : Complete(r, K)
  \/ \E s \in Slots :
       \/ \E u \in Uses : Call(s, u)
       \/ Finish(s) \/ ReleaseUnused(s)
  \/ \E l \in Limits : RestrictTo(l)
  \/ Expire

Spec == Init /\ [][Next]_vars

-----------------------------------------------------------------------------
(* Properties.                                                             *)

TypeOK ==
  /\ first \in Limits /\ prior \in Restored
  /\ limits \in [Caps -> Nat \cup {Unlimited}]
  /\ usage \in [Counters -> Nat]
  /\ exhausted \in BOOLEAN /\ expired \in BOOLEAN
  /\ batch \in [Requests -> SUBSET Slots]
  /\ phase \in [Slots -> Phases] /\ used \in [Slots -> Nat \X Nat]
  /\ told \subseteq Slots /\ capped \subseteq Caps

Charged == {s \in Slots : phase[s] \notin {"free", "released"}}
Made == {s \in Slots : phase[s] \in {"made", "over", "reported", "settled"}}

ChargedTokens ==
  [s \in Slots |-> IF phase[s] = "settled" THEN ActualTokens[s] ELSE QuotedTokens[s]]

\* The ledger is the sum over the calls that are charged, whatever the helpers
\* interleave: nothing is charged twice, lost or released twice (Reservation).
LedgerIsExact ==
  /\ usage["calls"] = prior["calls"] + Cardinality(Charged)
  /\ usage["tokens"] = prior["tokens"] + Total(ChargedTokens, Charged)
  /\ usage["cost"] = prior["cost"] + Total(QuotedCost, Charged)
  /\ usage["unpriced"] = prior["unpriced"] + Cardinality(Charged \cap Unpriced)
  /\ usage["unmetered"] = prior["unmetered"] + Cardinality(Charged \cap Fixed)

\* "Concurrent helpers reserve before dispatch": the calls really made never
\* exceed the cap the run started with, restored ones included.
CallsWithinCap == Within(prior["calls"] + Cardinality(Made), first["calls"])

\* Nor do the tokens consumed by calls that kept to their allowances, and
\* under a token or output cap there is no call without a token count.
RealTokens ==
  [s \in Slots |-> IF s \in Fixed \/ Over(s) THEN 0 ELSE used[s][1] + used[s][2]]
TokensWithinCap ==
  /\ Within(prior["tokens"] + Total(RealTokens, Made), first["tokens"])
  /\ first["tokens"] # Unlimited \/ first["output"] # Unlimited => Made \cap Fixed = {}

\* "A new money cap cannot treat previous unknown spend as zero": once anything
\* was reserved under a cap on cost (on tokens), no spend of unknown price
\* (size) is on the ledger, nor ever comes back.
CapsKnowTheSpend ==
  /\ "cost" \in capped => usage["unpriced"] = 0
  /\ capped \cap {"tokens", "output"} # {} => usage["unmetered"] = 0

\* After a report has shown an overrun no further request of the run leaves,
\* the one a sibling had already prepared included (MixedGrant::remaining).
StopsOnOverrun == [][
  (\E t \in Slots : phase[t] = "over")
    => \A s \in Slots : phase'[s] = "granted" => phase[s] = "granted"]_vars
=============================================================================
