-------------------------- MODULE RunBudgetProofs --------------------------
(***************************************************************************)
(* What RunBudget promises for any number of helpers, calls and limits.    *)
(* The argument is double entry.  Each counter equals what the charged     *)
(* calls of its kind come to: their number (Counts), their tokens and      *)
(* their cost (Sums).  So a cap on the counter is a cap on the calls, a    *)
(* counter at zero means that no such call is charged and none is left to  *)
(* be released, and since a complete report never tells more than was      *)
(* quoted (Consumed), a settlement only ever lowers the counter.  A sum is *)
(* a number of units, so its laws are those of the cardinality of sets.    *)
(***************************************************************************)
EXTENDS RunBudget, FiniteSetTheorems, TLAPS

\* The shape of the variables the argument uses.
Shape ==
  /\ first \in [Caps -> Nat \cup {Unlimited}]
  /\ limits \in [Caps -> Nat \cup {Unlimited}]
  /\ prior \in [Counters -> Nat]
  /\ DOMAIN usage = Counters
  /\ phase \in [Slots -> Phases]
  /\ capped \subseteq Caps

\* The counters of calls, entry by entry.
Counts ==
  /\ usage["calls"] = prior["calls"] + Cardinality(Charged)
  /\ usage["unpriced"] = prior["unpriced"] + Cardinality(Charged \cap Unpriced)
  /\ usage["unmetered"] = prior["unmetered"] + Cardinality(Charged \cap Fixed)

\* Limits only tighten, so nothing ever exceeds the first ones, and a cap that
\* was in force stays.
Tight ==
  /\ \A c \in Caps : first[c] # Unlimited => limits[c] # Unlimited /\ limits[c] <= first[c]
  /\ \A c \in capped : limits[c] # Unlimited

\* A reported overrun has exhausted the run.
Stopped == (\E t \in Slots : phase[t] = "over") => exhausted = TRUE

BudgetInv ==
  /\ Shape /\ Counts /\ Tight /\ Stopped
  /\ Within(usage["calls"], first["calls"])
  /\ CapsKnowTheSpend

-----------------------------------------------------------------------------
(* Counting.                                                               *)

\* Subsets of the calls are finite and have a natural number of members.
LEMMA SlotsCount ==
  ASSUME NEW X, X \subseteq Slots
  PROVE  IsFiniteSet(X) /\ Cardinality(X) \in Nat
BY SlotAssumption, FS_Subset, FS_CardinalityType

\* Charging calls that were free adds their number.
LEMMA ChargeCount ==
  ASSUME NEW X, NEW Y, X \subseteq Slots, Y \subseteq Slots, X \cap Y = {}
  PROVE  Cardinality(X \cup Y) = Cardinality(X) + Cardinality(Y)
<1>1. IsFiniteSet(X) /\ IsFiniteSet(Y) /\ Cardinality(X) \in Nat /\ Cardinality(Y) \in Nat
  BY SlotsCount
<1>2. Cardinality(X \cup Y) = Cardinality(X) + Cardinality(Y) - Cardinality(X \cap Y)
  BY <1>1, FS_Union
<1>3. Cardinality(X \cap Y) = 0
  BY FS_EmptySet
<1> QED
  BY <1>1, <1>2, <1>3

\* Releasing one charged call takes one off, and there was one to take.
LEMMA ReleaseCount ==
  ASSUME NEW X, NEW s \in X, X \subseteq Slots
  PROVE  Cardinality(X \ {s}) = Cardinality(X) - 1 /\ Cardinality(X) > 0
<1>1. IsFiniteSet(X) /\ Cardinality(X) \in Nat
  BY SlotsCount
<1>2. Cardinality(X \ {s}) = Cardinality(X) - 1
  BY <1>1, FS_RemoveElement
<1>3. Cardinality(X) # 0
  BY <1>1, FS_EmptySet
<1> QED
  BY <1>1, <1>2, <1>3

\* A part of a set has no more members.
LEMMA PartCount ==
  ASSUME NEW X, NEW Y, X \subseteq Y, Y \subseteq Slots
  PROVE  Cardinality(X) <= Cardinality(Y) /\ Cardinality(X) \in Nat
BY SlotsCount, FS_Subset

-----------------------------------------------------------------------------
(* Sums.  An amount has its units, and the units of different calls differ. *)

Amounts == [Slots -> Nat]

\* The units of a call are the numbers up to its amount, labelled with it.
LEMMA UnitsAre ==
  ASSUME NEW a, NEW X, NEW p
  PROVE  p \in Units(a, X) <=> \E s \in X : p \in {s} \X (1 .. a[s])
BY DEF Units

\* One call's units are as many as its amount says.
LEMMA UnitsOfOne ==
  ASSUME NEW a \in Amounts, NEW s \in Slots
  PROVE  /\ IsFiniteSet({s} \X (1 .. a[s]))
         /\ Cardinality({s} \X (1 .. a[s])) = a[s]
<1>1. a[s] \in Nat
  BY DEF Amounts
<1>2. IsFiniteSet(1 .. a[s]) /\ Cardinality(1 .. a[s]) = a[s]
  <2>1. /\ IsFiniteSet(1 .. a[s])
        /\ Cardinality(1 .. a[s]) = IF 1 > a[s] THEN 0 ELSE a[s] - 1 + 1
    BY <1>1, 1 \in Int, a[s] \in Int, FS_Interval
  <2> QED
    BY <1>1, <2>1
<1>3. IsFiniteSet({s}) /\ Cardinality({s}) = 1
  BY FS_Singleton
<1>4. /\ IsFiniteSet({s} \X (1 .. a[s]))
      /\ Cardinality({s} \X (1 .. a[s])) = Cardinality({s}) * Cardinality(1 .. a[s])
  BY <1>2, <1>3, FS_Product
<1> QED
  BY <1>1, <1>2, <1>3, <1>4

\* A sum over calls is a natural number.
LEMMA TotalIsNat ==
  ASSUME NEW a \in Amounts, NEW X, X \subseteq Slots
  PROVE  IsFiniteSet(Units(a, X)) /\ Total(a, X) \in Nat
<1> DEFINE f == [s \in X |-> {s} \X (1 .. a[s])]
           Blocks == {{s} \X (1 .. a[s]) : s \in X}
<1>1. f \in Surjection(X, Blocks)
  BY DEF Surjection
<1>2. IsFiniteSet(Blocks)
  <2> HIDE DEF f, Blocks
  <2> QED
    BY <1>1, SlotsCount, FS_Surjection
<1>3. \A T \in Blocks : IsFiniteSet(T)
  BY UnitsOfOne
<1>4. IsFiniteSet(UNION Blocks)
  <2> HIDE DEF Blocks
  <2> QED
    BY <1>2, <1>3, FS_UNION
<1>5. IsFiniteSet(Units(a, X))
  BY <1>4 DEF Units
<1> QED
  BY <1>5, FS_CardinalityType DEF Total

\* Nothing adds up to nothing, and one call to its amount.
LEMMA TotalOfNone ==
  ASSUME NEW a
  PROVE  Total(a, {}) = 0
<1>1. Units(a, {}) = {}
  BY DEF Units
<1> QED
  BY <1>1, FS_EmptySet DEF Total

LEMMA TotalOfOne ==
  ASSUME NEW a \in Amounts, NEW s \in Slots
  PROVE  Total(a, {s}) = a[s]
<1>1. Units(a, {s}) = {s} \X (1 .. a[s])
  BY DEF Units
<1> QED
  BY <1>1, UnitsOfOne DEF Total

\* Sums of disjoint sets of calls add up.
LEMMA TotalOfBoth ==
  ASSUME NEW a \in Amounts, NEW X, NEW Y, X \subseteq Slots, Y \subseteq Slots, X \cap Y = {}
  PROVE  Total(a, X \cup Y) = Total(a, X) + Total(a, Y)
<1>1. Units(a, X \cup Y) = Units(a, X) \cup Units(a, Y)
  BY UnitsAre
<1>2. Units(a, X) \cap Units(a, Y) = {}
  BY UnitsAre
<1>3. /\ IsFiniteSet(Units(a, X)) /\ IsFiniteSet(Units(a, Y))
      /\ Total(a, X) \in Nat /\ Total(a, Y) \in Nat
  BY TotalIsNat
<1>4. Total(a, X \cup Y) = Total(a, X) + Total(a, Y) - Cardinality(Units(a, X) \cap Units(a, Y))
  BY <1>1, <1>3, FS_Union DEF Total
<1>5. Cardinality(Units(a, X) \cap Units(a, Y)) = 0
  BY <1>2, FS_EmptySet
<1> QED
  BY <1>3, <1>4, <1>5

\* Taking a call out of a sum takes off its amount.
LEMMA TotalWithout ==
  ASSUME NEW a \in Amounts, NEW X, X \subseteq Slots, NEW s \in X
  PROVE  Total(a, X) = Total(a, X \ {s}) + a[s] /\ Total(a, X \ {s}) \in Nat /\ a[s] \in Nat
<1>1. X = (X \ {s}) \cup {s} /\ (X \ {s}) \cap {s} = {} /\ s \in Slots /\ X \ {s} \subseteq Slots
  OBVIOUS
<1>2. Total(a, (X \ {s}) \cup {s}) = Total(a, X \ {s}) + Total(a, {s})
  BY <1>1, TotalOfBoth
<1> QED
  BY <1>1, <1>2, TotalOfOne, TotalIsNat DEF Amounts

\* A sum depends on the amounts of its calls only, and grows with them and
\* with the set.
LEMMA TotalSame ==
  ASSUME NEW a, NEW b, NEW X, \A s \in X : a[s] = b[s]
  PROVE  Total(a, X) = Total(b, X)
<1>1. Units(a, X) = Units(b, X)
  BY UnitsAre
<1> QED
  BY <1>1 DEF Total

LEMMA TotalGrows ==
  ASSUME NEW a \in Amounts, NEW b \in Amounts, NEW X, NEW Y, X \subseteq Y, Y \subseteq Slots,
         \A s \in X : a[s] <= b[s]
  PROVE  Total(a, X) <= Total(b, Y)
<1>1. \A s \in X : 1 .. a[s] \subseteq 1 .. b[s]
  BY DEF Amounts
<1>2. Units(a, X) \subseteq Units(b, Y)
  BY <1>1, UnitsAre
<1> QED
  BY <1>2, TotalIsNat, FS_Subset DEF Total

-----------------------------------------------------------------------------
\* A run starts with its ledger in order.
LEMMA BudgetStarts == Init => BudgetInv
<1> SUFFICES ASSUME Init PROVE BudgetInv
  OBVIOUS
<1>1. Shape
  <2>1. first \in [Caps -> Nat \cup {Unlimited}] /\ prior \in [Counters -> Nat]
    BY LimitAssumption DEF Init
  <2> QED
    BY <2>1 DEF Init, Shape, Phases
<1>2. Charged = {} /\ Charged \cap Unpriced = {} /\ Charged \cap Fixed = {}
  BY DEF Init, Charged
<1>3. Counts
  <2>1. Cardinality({}) = 0
    BY FS_EmptySet
  <2>2. prior["calls"] \in Nat /\ prior["unpriced"] \in Nat /\ prior["unmetered"] \in Nat
    BY <1>1 DEF Shape, Counters
  <2> QED
    BY <1>2, <2>1, <2>2 DEF Init, Counts
<1>4. Tight
  <2>1. \A c \in Caps : first[c] # Unlimited => first[c] <= first[c]
    BY <1>1 DEF Shape
  <2> QED
    BY <2>1 DEF Init, Tight
<1>5. Stopped /\ CapsKnowTheSpend /\ Within(usage["calls"], first["calls"])
  BY DEF Init, Stopped, CapsKnowTheSpend
<1> QED
  BY <1>1, <1>3, <1>4, <1>5 DEF BudgetInv

\* A reservation keeps the books.
LEMMA ReserveKeeps ==
  ASSUME BudgetInv, NEW r \in Requests, NEW S \in SUBSET Slots, Reserve(r, S)
  PROVE  BudgetInv'
<1> USE DEF BudgetInv
<1>1. usage' = Reserved(S) /\ first' = first /\ prior' = prior /\ limits' = limits
      /\ exhausted' = exhausted
  BY DEF Reserve, startVars
<1>2. /\ usage'["calls"] = usage["calls"] + Cardinality(S)
      /\ usage'["unpriced"] = usage["unpriced"] + Cardinality(S \cap Unpriced)
      /\ usage'["unmetered"] = usage["unmetered"] + Cardinality(S \cap Fixed)
      /\ DOMAIN usage' = Counters
  BY <1>1 DEF Reserved, Counters
<1>3. \A s \in Slots : phase[s] \in Phases /\ phase'[s] = IF s \in S THEN "held" ELSE phase[s]
  BY DEF Reserve, Shape
<1>4. Charged' = Charged \cup S /\ Charged \cap S = {}
  BY <1>3 DEF Charged, Reserve
<1>5. Charged \subseteq Slots /\ Unpriced \subseteq Slots /\ Fixed \subseteq Slots
  BY SlotAssumption DEF Charged, Unpriced
<1>6. Shape'
  <2>1. phase' \in [Slots -> Phases]
    BY DEF Reserve, Shape, Phases
  <2> QED
    BY <1>1, <1>2, <2>1 DEF Shape, Reserve
<1>7. Counts'
  <2>1. Cardinality(Charged') = Cardinality(Charged) + Cardinality(S)
    BY <1>4, <1>5, ChargeCount
  <2>2. Cardinality(Charged' \cap Unpriced)
          = Cardinality(Charged \cap Unpriced) + Cardinality(S \cap Unpriced)
    <3>1. Charged' \cap Unpriced = (Charged \cap Unpriced) \cup (S \cap Unpriced)
      BY <1>4
    <3>2. (Charged \cap Unpriced) \cap (S \cap Unpriced) = {}
      BY <1>4
    <3> QED
      BY <1>5, <3>1, <3>2, ChargeCount
  <2>3. Cardinality(Charged' \cap Fixed)
          = Cardinality(Charged \cap Fixed) + Cardinality(S \cap Fixed)
    <3>1. Charged' \cap Fixed = (Charged \cap Fixed) \cup (S \cap Fixed)
      BY <1>4
    <3>2. (Charged \cap Fixed) \cap (S \cap Fixed) = {}
      BY <1>4
    <3> QED
      BY <1>5, <3>1, <3>2, ChargeCount
  <2>4. /\ Cardinality(Charged) \in Nat /\ Cardinality(S) \in Nat
        /\ Cardinality(Charged \cap Unpriced) \in Nat /\ Cardinality(S \cap Unpriced) \in Nat
        /\ Cardinality(Charged \cap Fixed) \in Nat /\ Cardinality(S \cap Fixed) \in Nat
    BY <1>5, SlotsCount
  <2>5. prior["calls"] \in Nat /\ prior["unpriced"] \in Nat /\ prior["unmetered"] \in Nat
    BY DEF Shape, Counters
  <2>6. Unpriced' = Unpriced
    BY DEF Unpriced
  <2> QED
    BY <1>1, <1>2, <2>1, <2>2, <2>3, <2>4, <2>5, <2>6 DEF Counts
<1>8. Tight' /\ Stopped'
  <2>1. Tight'
    BY <1>1 DEF Tight, Reserve, Has, Shape
  <2>2. \A t \in Slots : phase'[t] = "over" => phase[t] = "over"
    BY <1>3
  <2> QED
    BY <1>1, <2>1, <2>2 DEF Stopped
<1>9. Within(usage["calls"], first["calls"])'
  <2>1. Within(usage'["calls"], limits["calls"])
    BY <1>1 DEF Reserve, Fits
  <2>2. first["calls"] # Unlimited => limits["calls"] # Unlimited /\ limits["calls"] <= first["calls"]
    BY DEF Tight, Caps
  <2>3. usage'["calls"] \in Nat
    <3>1. prior["calls"] \in Nat /\ Cardinality(Charged) \in Nat /\ Cardinality(S) \in Nat
      BY <1>5, SlotsCount DEF Shape, Counters
    <3> QED
      BY <1>2, <3>1 DEF Counts
  <2>4. /\ first["calls"] \in Nat \cup {Unlimited}
        /\ limits["calls"] \in Nat \cup {Unlimited}
    BY DEF Shape, Caps
  <2> QED
    BY <1>1, <2>1, <2>2, <2>3, <2>4 DEF Within
<1>10. CapsKnowTheSpend'
  <2>1. ASSUME "cost" \in capped' PROVE usage'["unpriced"] = 0
    <3>1. Has("cost")
      BY <2>1 DEF Reserve, Tight, Has
    <3>2. usage["unpriced"] = 0
      BY <3>1 DEF Reserve, SpendIsKnown
    <3>3. S \cap Unpriced = {}
      BY <3>1 DEF Reserve, Quotable, Unpriced
    <3> QED
      BY <1>2, <3>2, <3>3, FS_EmptySet
  <2>2. ASSUME capped' \cap {"tokens", "output"} # {} PROVE usage'["unmetered"] = 0
    <3>1. TokensCapped
      BY <2>2 DEF Reserve, Tight, Has, TokensCapped
    <3>2. usage["unmetered"] = 0
      BY <3>1 DEF Reserve, SpendIsKnown
    <3>3. S \cap Fixed = {}
      BY <3>1 DEF Reserve, Quotable
    <3> QED
      BY <1>2, <3>2, <3>3, FS_EmptySet
  <2> QED
    BY <2>1, <2>2 DEF CapsKnowTheSpend
<1> QED
  BY <1>6, <1>7, <1>8, <1>9, <1>10

\* A release takes exactly one entry off, and never one that is not there.
LEMMA ReleaseKeeps ==
  ASSUME BudgetInv, NEW s \in Slots, ReleaseUnused(s)
  PROVE  BudgetInv'
<1> USE DEF BudgetInv
<1>1. /\ first' = first /\ prior' = prior /\ limits' = limits /\ exhausted' = exhausted
      /\ capped' = capped /\ Unpriced' = Unpriced
  BY DEF ReleaseUnused, startVars, Unpriced
<1>2. /\ usage'["calls"] = usage["calls"] - 1
      /\ usage'["unpriced"] = IF s \in Unpriced THEN usage["unpriced"] - 1 ELSE usage["unpriced"]
      /\ usage'["unmetered"] = IF s \in Fixed THEN usage["unmetered"] - 1 ELSE usage["unmetered"]
      /\ DOMAIN usage' = Counters
  BY DEF ReleaseUnused, Shape, Counters
<1>3. /\ phase[s] = "unused"
      /\ \A t \in Slots : phase'[t] = IF t = s THEN "released" ELSE phase[t]
  BY DEF ReleaseUnused, Shape
<1>4. Charged' = Charged \ {s} /\ s \in Charged /\ Charged \subseteq Slots
  BY <1>3 DEF Charged
<1>5. Shape'
  <2>1. phase' \in [Slots -> Phases]
    BY DEF ReleaseUnused, Shape, Phases
  <2> QED
    BY <1>1, <1>2, <2>1 DEF Shape
<1>6. /\ prior["calls"] \in Nat /\ prior["unpriced"] \in Nat /\ prior["unmetered"] \in Nat
      /\ Cardinality(Charged) \in Nat /\ Cardinality(Charged \cap Unpriced) \in Nat
      /\ Cardinality(Charged \cap Fixed) \in Nat
  BY <1>4, SlotsCount DEF Shape, Counters
<1>7. usage'["calls"] = prior["calls"] + Cardinality(Charged') /\ usage["calls"] > 0
  BY <1>2, <1>4, <1>6, ReleaseCount DEF Counts
<1>8. /\ usage'["unpriced"] = prior["unpriced"] + Cardinality(Charged' \cap Unpriced)
      /\ s \in Unpriced => usage["unpriced"] # 0
  <2>1. CASE s \in Unpriced
    <3>1. Charged' \cap Unpriced = (Charged \cap Unpriced) \ {s} /\ s \in Charged \cap Unpriced
      BY <1>4, <2>1
    <3>2. /\ Cardinality(Charged' \cap Unpriced) = Cardinality(Charged \cap Unpriced) - 1
          /\ Cardinality(Charged \cap Unpriced) > 0
      BY <1>4, <3>1, ReleaseCount
    <3> QED
      BY <1>2, <1>6, <2>1, <3>2 DEF Counts
  <2>2. CASE s \notin Unpriced
    <3>1. Charged' \cap Unpriced = Charged \cap Unpriced
      BY <1>4, <2>2
    <3> QED
      BY <1>2, <2>2, <3>1 DEF Counts
  <2> QED
    BY <2>1, <2>2
<1>9. /\ usage'["unmetered"] = prior["unmetered"] + Cardinality(Charged' \cap Fixed)
      /\ s \in Fixed => usage["unmetered"] # 0
  <2>1. CASE s \in Fixed
    <3>1. Charged' \cap Fixed = (Charged \cap Fixed) \ {s} /\ s \in Charged \cap Fixed
      BY <1>4, <2>1
    <3>2. /\ Cardinality(Charged' \cap Fixed) = Cardinality(Charged \cap Fixed) - 1
          /\ Cardinality(Charged \cap Fixed) > 0
      BY <1>4, <3>1, ReleaseCount
    <3> QED
      BY <1>2, <1>6, <2>1, <3>2 DEF Counts
  <2>2. CASE s \notin Fixed
    <3>1. Charged' \cap Fixed = Charged \cap Fixed
      BY <1>4, <2>2
    <3> QED
      BY <1>2, <2>2, <3>1 DEF Counts
  <2> QED
    BY <2>1, <2>2
<1>10. Counts'
  BY <1>1, <1>7, <1>8, <1>9 DEF Counts
<1>11. Tight' /\ Stopped'
  BY <1>1, <1>3 DEF Tight, Stopped
<1>12. Within(usage["calls"], first["calls"])'
  <2>1. usage["calls"] \in Nat
    BY <1>6 DEF Counts
  <2>2. first["calls"] \in Nat \cup {Unlimited}
    BY DEF Shape, Caps
  <2> QED
    BY <1>1, <1>2, <2>1, <2>2 DEF Within
<1>13. CapsKnowTheSpend'
  BY <1>1, <1>2, <1>8, <1>9 DEF CapsKnowTheSpend
<1> QED
  BY <1>5, <1>10, <1>11, <1>12, <1>13

\* A step that moves no call in or out of the ledger and touches no counter of
\* calls keeps the books, whatever it does to requests and reports.
LEMMA OtherKeeps ==
  ASSUME BudgetInv,
         UNCHANGED <<first, prior, limits, capped>>,
         DOMAIN usage' = DOMAIN usage,
         \A c \in {"calls", "unpriced", "unmetered"} : usage'[c] = usage[c],
         phase' \in [Slots -> Phases],
         \A t \in Slots : (phase'[t] \in {"free", "released"}) <=> (phase[t] \in {"free", "released"}),
         \/ exhausted' = TRUE
         \/ /\ exhausted' = exhausted
            /\ \A t \in Slots : phase'[t] = "over" => phase[t] = "over"
  PROVE  BudgetInv'
<1>1. Charged' = Charged /\ Unpriced' = Unpriced
  BY DEF Charged, Unpriced
<1>2. Shape' /\ Counts'
  BY <1>1 DEF BudgetInv, Shape, Counts
<1>3. Tight' /\ Stopped'
  BY DEF BudgetInv, Tight, Stopped
<1>4. Within(usage["calls"], first["calls"])' /\ CapsKnowTheSpend'
  BY DEF BudgetInv, CapsKnowTheSpend, Within
<1> QED
  BY <1>2, <1>3, <1>4 DEF BudgetInv

\* Tightening the limits keeps the books.
LEMMA RestrictKeeps ==
  ASSUME BudgetInv, NEW l \in Limits, RestrictTo(l)
  PROVE  BudgetInv'
<1>1. /\ first' = first /\ prior' = prior /\ usage' = usage /\ phase' = phase
      /\ capped' = capped /\ exhausted' = exhausted
  BY DEF RestrictTo, startVars
<1>2. l \in [Caps -> Nat \cup {Unlimited}] /\ limits \in [Caps -> Nat \cup {Unlimited}]
      /\ first \in [Caps -> Nat \cup {Unlimited}]
  BY LimitAssumption DEF BudgetInv, Shape
<1>3. \A c \in Caps : limits'[c] = Tighter(limits[c], l[c])
  BY DEF RestrictTo
<1>4. \A c \in Caps : /\ limits'[c] \in Nat \cup {Unlimited}
                      /\ limits[c] # Unlimited => limits'[c] # Unlimited /\ limits'[c] <= limits[c]
  BY <1>2, <1>3, LimitAssumption DEF Tighter
<1>5. Shape'
  BY <1>1, <1>4 DEF BudgetInv, Shape, RestrictTo
<1>6. Tight'
  <2>1. \A c \in Caps : first[c] # Unlimited => limits'[c] # Unlimited /\ limits'[c] <= first[c]
    BY <1>2, <1>4 DEF BudgetInv, Tight
  <2>2. \A c \in capped : limits'[c] # Unlimited
    BY <1>4 DEF BudgetInv, Tight, Shape
  <2> QED
    BY <1>1, <2>1, <2>2 DEF Tight
<1>7. Counts' /\ Stopped' /\ Within(usage["calls"], first["calls"])' /\ CapsKnowTheSpend'
  BY <1>1 DEF BudgetInv, Counts, Stopped, Within, CapsKnowTheSpend, Charged, Unpriced
<1> QED
  BY <1>5, <1>6, <1>7 DEF BudgetInv

\* Every step keeps the books.
LEMMA BudgetStep == BudgetInv /\ [Next]_vars => BudgetInv'
<1> SUFFICES ASSUME BudgetInv, [Next]_vars PROVE BudgetInv'
  OBVIOUS
<1> USE DEF startVars, ledgerVars
<1>0. phase \in [Slots -> Phases] /\ DOMAIN usage = Counters
  BY DEF BudgetInv, Shape
<1>1. ASSUME NEW r \in Requests, NEW S \in SUBSET Slots, Reserve(r, S) PROVE BudgetInv'
  BY <1>1, ReserveKeeps
<1>2. ASSUME NEW r \in Requests, Send(r) PROVE BudgetInv'
  <2>1. \A t \in Slots : phase'[t] = phase[t] \/ (phase[t] = "held" /\ phase'[t] = "granted")
    BY <1>0, <1>2 DEF Send
  <2> QED
    BY <1>0, <1>2, <2>1, OtherKeeps DEF Send, Phases
<1>3. ASSUME NEW r \in Requests, Abandon(r) PROVE BudgetInv'
  BY <1>0, <1>3, OtherKeeps DEF Abandon
<1>4. ASSUME NEW r \in Requests, Overrun(r) PROVE BudgetInv'
  <2>1. \A t \in Slots : phase'[t] = phase[t] \/ (phase[t] = "made" /\ phase'[t] = "over")
    BY <1>0, <1>4 DEF Overrun, MadeIn
  <2> QED
    BY <1>0, <1>4, <2>1, OtherKeeps DEF Overrun, Phases
<1>5. ASSUME NEW r \in Requests, NEW K \in SUBSET batch[r], Complete(r, K) PROVE BudgetInv'
  <2>1. \A t \in Slots : \/ phase'[t] = phase[t]
                         \/ /\ phase[t] \in {"made", "granted"}
                            /\ phase'[t] \in {"reported", "unused"}
    BY <1>0, <1>5 DEF Complete, Answered
  <2> QED
    BY <1>0, <1>5, <2>1, OtherKeeps DEF Complete, Phases
<1>6. ASSUME NEW s \in Slots, NEW u \in Uses, Call(s, u) PROVE BudgetInv'
  <2>1. \A t \in Slots : phase'[t] = phase[t] \/ (phase[t] = "granted" /\ phase'[t] = "made")
    BY <1>0, <1>6 DEF Call
  <2> QED
    BY <1>0, <1>6, <2>1, OtherKeeps DEF Call, Phases
<1>7. ASSUME NEW s \in Slots, Finish(s) PROVE BudgetInv'
  <2>1. \A t \in Slots : phase'[t] = phase[t] \/ (phase[t] = "reported" /\ phase'[t] = "settled")
    BY <1>0, <1>7 DEF Finish
  <2>2. /\ DOMAIN usage' = DOMAIN usage
        /\ \A c \in {"calls", "unpriced", "unmetered"} : usage'[c] = usage[c]
    BY <1>0, <1>7 DEF Finish, Counters
  <2> QED
    BY <1>0, <1>7, <2>1, <2>2, OtherKeeps DEF Finish, Phases
<1>8. ASSUME NEW s \in Slots, ReleaseUnused(s) PROVE BudgetInv'
  BY <1>8, ReleaseKeeps
<1>9. ASSUME NEW l \in Limits, RestrictTo(l) PROVE BudgetInv'
  BY <1>9, RestrictKeeps
<1>10. CASE Expire
  BY <1>0, <1>10, OtherKeeps DEF Expire
<1>11. CASE UNCHANGED vars
  BY <1>0, <1>11, OtherKeeps DEF vars
<1> QED
  BY <1>1, <1>2, <1>3, <1>4, <1>5, <1>6, <1>7, <1>8, <1>9, <1>10, <1>11 DEF Next

\* The books of every reachable state are in order.
THEOREM BudgetInvariant == Spec => []BudgetInv
<1>1. Init => BudgetInv
  BY BudgetStarts
<1>2. BudgetInv /\ [Next]_vars => BudgetInv'
  BY BudgetStep
<1> QED
  BY <1>1, <1>2, PTL DEF Spec

-----------------------------------------------------------------------------
\* The provider calls really made never exceed the cap of the run.
THEOREM CapOnCalls == Spec => []CallsWithinCap
<1>1. BudgetInv => CallsWithinCap
  <2> SUFFICES ASSUME BudgetInv PROVE CallsWithinCap
    OBVIOUS
  <2>1. Made \subseteq Charged /\ Charged \subseteq Slots
    BY DEF Made, Charged
  <2>2. Cardinality(Made) <= Cardinality(Charged) /\ Cardinality(Made) \in Nat
        /\ Cardinality(Charged) \in Nat
    BY <2>1, PartCount, SlotsCount
  <2>3. prior["calls"] \in Nat /\ first["calls"] \in Nat \cup {Unlimited}
    BY DEF BudgetInv, Shape, Counters, Caps
  <2> QED
    BY <2>2, <2>3 DEF BudgetInv, Counts, Within, CallsWithinCap
<1> QED
  BY <1>1, BudgetInvariant, PTL

\* Under a cap on cost or tokens no spend of unknown price or size remains.
THEOREM KnownSpend == Spec => []CapsKnowTheSpend
<1>1. BudgetInv => CapsKnowTheSpend
  BY DEF BudgetInv
<1> QED
  BY <1>1, BudgetInvariant, PTL

\* After a reported overrun no request leaves, prepared or not.
THEOREM OverrunStops == Spec => StopsOnOverrun
<1> DEFINE Step == (\E t \in Slots : phase[t] = "over")
                     => \A s \in Slots : phase'[s] = "granted" => phase[s] = "granted"
<1>1. BudgetInv /\ [Next]_vars => [Step]_vars
  <2> SUFFICES ASSUME BudgetInv, Next,
                      NEW t \in Slots, phase[t] = "over",
                      NEW s \in Slots, phase'[s] = "granted"
               PROVE  phase[s] = "granted"
    OBVIOUS
  <2>1. phase \in [Slots -> Phases] /\ exhausted = TRUE
    BY DEF BudgetInv, Shape, Stopped
  <2> USE DEF startVars, ledgerVars
  <2>2. CASE \E r \in Requests : \E S \in SUBSET Slots : Reserve(r, S)
    BY <2>1, <2>2 DEF Reserve
  <2>3. CASE \E r \in Requests : Send(r) \/ Abandon(r) \/ Overrun(r)
    BY <2>1, <2>3 DEF Send, Abandon, Overrun
  <2>4. CASE \E r \in Requests : \E K \in SUBSET batch[r] : Complete(r, K)
    BY <2>1, <2>4 DEF Complete
  <2>5. CASE \E q \in Slots : \E u \in Uses : Call(q, u)
    BY <2>1, <2>5 DEF Call
  <2>6. CASE \E q \in Slots : Finish(q) \/ ReleaseUnused(q)
    BY <2>1, <2>6 DEF Finish, ReleaseUnused
  <2>7. CASE (\E l \in Limits : RestrictTo(l)) \/ Expire
    BY <2>1, <2>7 DEF RestrictTo, Expire
  <2> QED
    BY <2>2, <2>3, <2>4, <2>5, <2>6, <2>7 DEF Next
<1>2. Spec => [][Step]_vars
  BY <1>1, BudgetInvariant, PTL DEF Spec
<1> QED
  BY <1>2 DEF StopsOnOverrun

-----------------------------------------------------------------------------
(* What the calls cost.                                                    *)

\* What a complete report told is a metered call, within its allowances, and
\* is not told before it is settled.
Consumed ==
  /\ used \in [Slots -> Nat \X Nat]
  /\ told \subseteq Slots
  /\ \A s \in told : s \notin Fixed /\ ~Over(s) /\ phase[s] \in {"reported", "settled"}

\* The counters of tokens and cost, entry by entry.
Sums ==
  /\ usage["tokens"] = prior["tokens"] + Total(ChargedTokens, Charged)
  /\ usage["cost"] = prior["cost"] + Total(QuotedCost, Charged)

\* A run that starts under a cap on tokens never reserves a call without any.
Metered ==
  first["tokens"] # Unlimited \/ first["output"] # Unlimited => Charged \cap Fixed = {}

SumInv ==
  /\ Consumed /\ Sums /\ Metered
  /\ Within(usage["tokens"], first["tokens"])

\* What is quoted and what is charged are amounts.
LEMMA QuotesAreAmounts == QuotedTokens \in Amounts /\ QuotedCost \in Amounts
BY SlotAssumption DEF QuotedTokens, QuotedCost, Amounts

LEMMA ChargesAreAmounts ==
  ASSUME Consumed
  PROVE  ChargedTokens \in Amounts
<1>1. \A s \in Slots : used[s][1] + used[s][2] \in Nat
  BY DEF Consumed
<1>2. \A s \in Slots : ActualTokens[s] \in Nat
  BY <1>1, QuotesAreAmounts DEF ActualTokens, Amounts
<1> QED
  BY <1>2, QuotesAreAmounts DEF ChargedTokens, Amounts

\* A call is never charged more than its quote.
LEMMA ActualWithinQuote ==
  ASSUME Consumed, NEW s \in Slots
  PROVE  ActualTokens[s] \in Nat /\ ActualTokens[s] <= QuotedTokens[s]
<1>1. QuotedTokens[s] \in Nat /\ used[s][1] \in Nat /\ used[s][2] \in Nat
  BY QuotesAreAmounts DEF Amounts, Consumed
<1>2. CASE s \in told
  <2>1. s \notin Fixed /\ used[s][1] <= Input[s] /\ used[s][2] <= Output[s]
    BY <1>1, <1>2, SlotAssumption DEF Consumed, Over
  <2>2. QuotedTokens[s] = Input[s] + Output[s] /\ Input[s] \in Nat /\ Output[s] \in Nat
    BY <2>1, SlotAssumption DEF QuotedTokens
  <2>3. ActualTokens[s] = used[s][1] + used[s][2]
    BY <1>2 DEF ActualTokens
  <2> QED
    BY <1>1, <2>1, <2>2, <2>3
<1>3. CASE s \notin told
  BY <1>1, <1>3 DEF ActualTokens
<1> QED
  BY <1>2, <1>3

\* The counters of tokens and cost are natural numbers.
LEMMA SumsAreNat ==
  ASSUME BudgetInv, Consumed
  PROVE  /\ prior["tokens"] \in Nat /\ Total(ChargedTokens, Charged) \in Nat
         /\ prior["cost"] \in Nat /\ Total(QuotedCost, Charged) \in Nat
         /\ first["tokens"] \in Nat \cup {Unlimited}
<1>1. Charged \subseteq Slots
  BY DEF Charged
<1> QED
  BY <1>1, ChargesAreAmounts, QuotesAreAmounts, TotalIsNat DEF BudgetInv, Shape, Counters, Caps

\* It starts in order.
LEMMA SumsStart == Init => SumInv
<1> SUFFICES ASSUME Init PROVE SumInv
  OBVIOUS
<1>1. Charged = {}
  BY DEF Init, Charged
<1>2. Consumed
  BY DEF Init, Consumed
<1>3. prior["tokens"] \in Nat /\ prior["cost"] \in Nat
  BY LimitAssumption DEF Init, Counters
<1>4. Sums
  <2>1. Total(ChargedTokens, {}) = 0 /\ Total(QuotedCost, {}) = 0
    BY TotalOfNone
  <2> QED
    BY <1>1, <1>3, <2>1 DEF Sums, Init
<1>5. Metered
  BY <1>1 DEF Metered
<1>6. Within(usage["tokens"], first["tokens"])
  BY DEF Init
<1> QED
  BY <1>2, <1>4, <1>5, <1>6 DEF SumInv

\* A reservation adds its quotes to the counters, under the caps.
LEMMA ReserveAdds ==
  ASSUME BudgetInv, SumInv, NEW r \in Requests, NEW S \in SUBSET Slots, Reserve(r, S)
  PROVE  SumInv'
<1>1. /\ usage'["tokens"] = usage["tokens"] + Total(QuotedTokens, S)
      /\ usage'["cost"] = usage["cost"] + Total(QuotedCost, S)
      /\ usage' = Reserved(S)
  BY DEF Reserve, Reserved
<1>2. /\ first' = first /\ prior' = prior /\ used' = used /\ told' = told
      /\ \A s \in Slots : phase'[s] = IF s \in S THEN "held" ELSE phase[s]
      /\ \A s \in S : phase[s] = "free"
  BY DEF Reserve, startVars
<1>3. Charged' = Charged \cup S /\ Charged \cap S = {} /\ Charged \subseteq Slots
  BY <1>2 DEF Charged
<1>4. Consumed'
  BY <1>2 DEF SumInv, Consumed, Over
<1>5. Sums'
  <2>1. ChargedTokens \in Amounts /\ ChargedTokens' \in Amounts
    <3>1. \A t \in Slots : ActualTokens'[t] = ActualTokens[t] /\ ActualTokens[t] \in Nat
      BY <1>2, ActualWithinQuote DEF ActualTokens, SumInv
    <3>2. \A t \in Slots : ChargedTokens'[t] \in Nat
      BY <3>1, QuotesAreAmounts DEF ChargedTokens, Amounts
    <3> QED
      BY <3>2, ChargesAreAmounts DEF SumInv, ChargedTokens, Amounts
  <2>2. \A s \in Charged : ChargedTokens'[s] = ChargedTokens[s]
    BY <1>2, <1>3 DEF ChargedTokens, ActualTokens
  <2>3. \A s \in S : ChargedTokens'[s] = QuotedTokens[s]
    BY <1>2 DEF ChargedTokens
  <2>4. Total(ChargedTokens', Charged') = Total(ChargedTokens', Charged) + Total(ChargedTokens', S)
    BY <1>3, <2>1, TotalOfBoth
  <2>5. /\ Total(ChargedTokens', Charged) = Total(ChargedTokens, Charged)
        /\ Total(ChargedTokens', S) = Total(QuotedTokens, S)
    BY <2>2, <2>3, TotalSame
  <2>6. Total(QuotedCost, Charged') = Total(QuotedCost, Charged) + Total(QuotedCost, S)
    BY <1>3, QuotesAreAmounts, TotalOfBoth
  <2>7. Total(QuotedCost, S) \in Nat /\ Total(QuotedTokens, S) \in Nat
    BY QuotesAreAmounts, TotalIsNat
  <2>8. /\ usage'["tokens"] = prior'["tokens"] + Total(ChargedTokens', Charged')
        /\ usage'["cost"] = prior'["cost"] + Total(QuotedCost, Charged')
    BY <1>1, <1>2, <2>4, <2>5, <2>6, <2>7, SumsAreNat DEF SumInv, Sums
  <2> QED
    BY <2>8 DEF Sums
<1>6. Metered'
  <2>1. first["tokens"] # Unlimited \/ first["output"] # Unlimited => TokensCapped
    BY DEF BudgetInv, Tight, Caps, TokensCapped, Has
  <2>2. TokensCapped => S \cap Fixed = {}
    BY DEF Reserve, Quotable
  <2> QED
    BY <1>2, <1>3, <2>1, <2>2 DEF SumInv, Metered
<1>7. Within(usage["tokens"], first["tokens"])'
  <2>1. Within(usage'["tokens"], limits["tokens"])
    BY <1>1 DEF Reserve, Fits
  <2>2. first["tokens"] # Unlimited => limits["tokens"] # Unlimited /\ limits["tokens"] <= first["tokens"]
    BY DEF BudgetInv, Tight, Caps
  <2>3. usage'["tokens"] \in Nat
    BY <1>1, QuotesAreAmounts, TotalIsNat, SumsAreNat DEF SumInv, Sums
  <2>4. first["tokens"] \in Nat \cup {Unlimited} /\ limits["tokens"] \in Nat \cup {Unlimited}
    BY DEF BudgetInv, Shape, Caps
  <2> QED
    BY <1>2, <2>1, <2>2, <2>3, <2>4 DEF Within
<1> QED
  BY <1>4, <1>5, <1>6, <1>7 DEF SumInv

\* A settlement replaces one quote by no more than it was.
LEMMA FinishReplaces ==
  ASSUME BudgetInv, SumInv, NEW s \in Slots, Finish(s)
  PROVE  SumInv'
<1>1. /\ usage'["tokens"] = usage["tokens"] - QuotedTokens[s] + ActualTokens[s]
      /\ usage'["cost"] = usage["cost"]
  BY DEF Finish, BudgetInv, Shape, Counters
<1>2. /\ first' = first /\ prior' = prior /\ used' = used /\ told' = told
      /\ phase[s] = "reported"
      /\ \A t \in Slots : phase'[t] = IF t = s THEN "settled" ELSE phase[t]
  BY DEF Finish, startVars, BudgetInv, Shape
<1>3. Charged' = Charged /\ s \in Charged /\ Charged \subseteq Slots
  BY <1>2 DEF Charged
<1>4. Consumed'
  BY <1>2 DEF SumInv, Consumed, Over
<1>5. /\ Total(ChargedTokens, Charged) = Total(ChargedTokens, Charged \ {s}) + QuotedTokens[s]
      /\ Total(ChargedTokens', Charged) = Total(ChargedTokens, Charged \ {s}) + ActualTokens[s]
      /\ Total(ChargedTokens, Charged \ {s}) \in Nat
  <2>1. ChargedTokens \in Amounts /\ ChargedTokens' \in Amounts
    <3>1. \A t \in Slots : ActualTokens'[t] = ActualTokens[t] /\ ActualTokens[t] \in Nat
      BY <1>2, ActualWithinQuote DEF ActualTokens, SumInv
    <3>2. \A t \in Slots : ChargedTokens'[t] \in Nat
      BY <3>1, QuotesAreAmounts DEF ChargedTokens, Amounts
    <3> QED
      BY <3>2, ChargesAreAmounts DEF SumInv, ChargedTokens, Amounts
  <2>2. \A t \in Charged \ {s} : ChargedTokens'[t] = ChargedTokens[t]
    BY <1>2, <1>3 DEF ChargedTokens, ActualTokens
  <2>3. ChargedTokens[s] = QuotedTokens[s] /\ ChargedTokens'[s] = ActualTokens[s]
    BY <1>2 DEF ChargedTokens, ActualTokens
  <2>4. Total(ChargedTokens', Charged \ {s}) = Total(ChargedTokens, Charged \ {s})
    BY <2>2, TotalSame
  <2>5. /\ Total(ChargedTokens, Charged) = Total(ChargedTokens, Charged \ {s}) + ChargedTokens[s]
        /\ Total(ChargedTokens, Charged \ {s}) \in Nat
    BY <1>3, <2>1, TotalWithout
  <2>6. Total(ChargedTokens', Charged) = Total(ChargedTokens', Charged \ {s}) + ChargedTokens'[s]
    BY <1>3, <2>1, TotalWithout
  <2> QED
    BY <2>3, <2>4, <2>5, <2>6
<1>6. /\ ActualTokens[s] \in Nat /\ QuotedTokens[s] \in Nat
      /\ ActualTokens[s] <= QuotedTokens[s]
  BY ActualWithinQuote, QuotesAreAmounts DEF SumInv, Amounts
<1>7. Sums'
  <2>1. /\ usage'["tokens"] = prior'["tokens"] + Total(ChargedTokens', Charged')
        /\ usage'["cost"] = prior'["cost"] + Total(QuotedCost, Charged')
    BY <1>1, <1>2, <1>3, <1>5, <1>6, SumsAreNat DEF SumInv, Sums
  <2> QED
    BY <2>1 DEF Sums
<1>8. Within(usage["tokens"], first["tokens"])'
  <2>1. usage["tokens"] \in Nat /\ usage'["tokens"] \in Nat /\ usage'["tokens"] <= usage["tokens"]
    BY <1>1, <1>5, <1>6, SumsAreNat DEF SumInv, Sums
  <2> QED
    BY <1>2, <2>1, SumsAreNat DEF SumInv, Within
<1>9. Metered'
  BY <1>2, <1>3 DEF SumInv, Metered
<1> QED
  BY <1>4, <1>7, <1>8, <1>9 DEF SumInv

\* A release takes one whole quote off.
LEMMA ReleaseTakesOff ==
  ASSUME BudgetInv, SumInv, NEW s \in Slots, ReleaseUnused(s)
  PROVE  SumInv'
<1>1. /\ usage'["tokens"] = usage["tokens"] - QuotedTokens[s]
      /\ usage'["cost"] = usage["cost"] - QuotedCost[s]
  BY DEF ReleaseUnused, BudgetInv, Shape, Counters
<1>2. /\ first' = first /\ prior' = prior /\ used' = used /\ told' = told
      /\ phase[s] = "unused"
      /\ \A t \in Slots : phase'[t] = IF t = s THEN "released" ELSE phase[t]
  BY DEF ReleaseUnused, startVars, BudgetInv, Shape
<1>3. Charged' = Charged \ {s} /\ s \in Charged /\ Charged \subseteq Slots
  BY <1>2 DEF Charged
<1>4. Consumed'
  BY <1>2 DEF SumInv, Consumed, Over
<1>5. /\ Total(ChargedTokens, Charged) = Total(ChargedTokens', Charged') + QuotedTokens[s]
      /\ Total(ChargedTokens', Charged') \in Nat /\ QuotedTokens[s] \in Nat
  <2>1. ChargedTokens \in Amounts
    BY ChargesAreAmounts DEF SumInv
  <2>2. \A t \in Charged \ {s} : ChargedTokens'[t] = ChargedTokens[t]
    BY <1>2, <1>3 DEF ChargedTokens, ActualTokens
  <2>3. ChargedTokens[s] = QuotedTokens[s]
    BY <1>2 DEF ChargedTokens
  <2>4. Total(ChargedTokens', Charged \ {s}) = Total(ChargedTokens, Charged \ {s})
    BY <2>2, TotalSame
  <2>5. /\ Total(ChargedTokens, Charged) = Total(ChargedTokens, Charged \ {s}) + ChargedTokens[s]
        /\ Total(ChargedTokens, Charged \ {s}) \in Nat /\ ChargedTokens[s] \in Nat
    BY <1>3, <2>1, TotalWithout
  <2> QED
    BY <1>3, <2>3, <2>4, <2>5
<1>6. /\ Total(QuotedCost, Charged) = Total(QuotedCost, Charged') + QuotedCost[s]
      /\ Total(QuotedCost, Charged') \in Nat /\ QuotedCost[s] \in Nat
  BY <1>3, QuotesAreAmounts, TotalWithout
<1>7. Sums'
  <2>1. /\ usage'["tokens"] = prior'["tokens"] + Total(ChargedTokens', Charged')
        /\ usage'["cost"] = prior'["cost"] + Total(QuotedCost, Charged')
    BY <1>1, <1>2, <1>5, <1>6, SumsAreNat DEF SumInv, Sums
  <2> QED
    BY <2>1 DEF Sums
<1>8. Within(usage["tokens"], first["tokens"])'
  <2>1. usage["tokens"] \in Nat /\ usage'["tokens"] \in Nat /\ usage'["tokens"] <= usage["tokens"]
    BY <1>1, <1>5, SumsAreNat DEF SumInv, Sums
  <2> QED
    BY <1>2, <2>1, SumsAreNat DEF SumInv, Within
<1>9. Metered'
  BY <1>2, <1>3 DEF SumInv, Metered
<1> QED
  BY <1>4, <1>7, <1>8, <1>9 DEF SumInv

\* A step that settles nothing, moves no call in or out of the ledger and
\* leaves the counters keeps the sums, whatever is called and reported.
LEMMA SumsStay ==
  ASSUME BudgetInv, SumInv, Consumed',
         first' = first, prior' = prior, usage' = usage,
         \A t \in Slots : (phase'[t] \in {"free", "released"}) <=> (phase[t] \in {"free", "released"}),
         \A t \in Slots : \/ phase'[t] # "settled" /\ phase[t] # "settled"
                          \/ /\ phase'[t] = phase[t] /\ used'[t] = used[t]
                             /\ t \in told' <=> t \in told
  PROVE  SumInv'
<1>1. Charged' = Charged /\ Charged \subseteq Slots
  BY DEF Charged
<1>2. \A t \in Slots : ChargedTokens'[t] = ChargedTokens[t]
  BY DEF ChargedTokens, ActualTokens
<1>3. Total(ChargedTokens', Charged') = Total(ChargedTokens, Charged)
  BY <1>1, <1>2, TotalSame
<1>4. Sums'
  <2>1. /\ usage'["tokens"] = prior'["tokens"] + Total(ChargedTokens', Charged')
        /\ usage'["cost"] = prior'["cost"] + Total(QuotedCost, Charged')
    BY <1>1, <1>3 DEF SumInv, Sums
  <2> QED
    BY <2>1 DEF Sums
<1>5. Metered' /\ Within(usage["tokens"], first["tokens"])'
  BY <1>1 DEF SumInv, Metered, Within
<1> QED
  BY <1>4, <1>5 DEF SumInv

\* What the argument takes no counts of: where the run started, the requests
\* of the helpers, the two ways a run may be over, the shape of the counters.
Rest ==
  /\ first \in Limits /\ prior \in Restored
  /\ batch \in [Requests -> SUBSET Slots]
  /\ exhausted \in BOOLEAN /\ expired \in BOOLEAN
  /\ usage = [c \in Counters |-> usage[c]]

LEMMA RestInvariant == Spec => []Rest
<1>1. Init => Rest
  BY LimitAssumption DEF Init, Rest
<1>2. Rest /\ [Next]_vars => Rest'
  <2> SUFFICES ASSUME Rest, [Next]_vars PROVE Rest'
    OBVIOUS
  <2>1. first' = first /\ prior' = prior
    BY DEF Next, Reserve, Send, Abandon, Overrun, Complete, Call, Finish, ReleaseUnused,
           RestrictTo, Expire, startVars, vars
  <2>2. batch' \in [Requests -> SUBSET Slots]
    BY DEF Next, Reserve, Send, Abandon, Overrun, Complete, Call, Finish, ReleaseUnused,
           RestrictTo, Expire, Rest, vars
  <2>3. (exhausted' = TRUE \/ exhausted' = exhausted) /\ (expired' = TRUE \/ expired' = expired)
    BY DEF Next, Reserve, Send, Abandon, Overrun, Complete, Call, Finish, ReleaseUnused,
           RestrictTo, Expire, ledgerVars, vars
  <2>4. usage' = [c \in Counters |-> usage'[c]]
    <3>1. CASE usage' = usage
      BY <3>1 DEF Rest
    <3>2. CASE \E S \in SUBSET Slots : usage' = Reserved(S)
      BY <3>2 DEF Reserved, Counters
    <3>3. CASE \E s \in Slots : Finish(s) \/ ReleaseUnused(s)
      BY <3>3 DEF Finish, ReleaseUnused, Rest
    <3> QED
      BY <3>1, <3>2, <3>3 DEF Next, Reserve, Send, Abandon, Overrun, Complete, Call,
           RestrictTo, Expire, ledgerVars, vars
  <2> QED
    BY <2>1, <2>2, <2>3, <2>4 DEF Rest
<1> QED
  BY <1>1, <1>2, PTL DEF Spec

\* Every step keeps the sums.
LEMMA SumStep == Rest /\ BudgetInv /\ SumInv /\ [Next]_vars => SumInv'
<1> SUFFICES ASSUME Rest, BudgetInv, SumInv, [Next]_vars PROVE SumInv'
  OBVIOUS
<1> USE DEF startVars, ledgerVars
<1>0. phase \in [Slots -> Phases] /\ Consumed
  BY DEF BudgetInv, Shape, SumInv
<1>1. ASSUME NEW r \in Requests, NEW S \in SUBSET Slots, Reserve(r, S) PROVE SumInv'
  BY <1>1, ReserveAdds
<1>2. ASSUME NEW r \in Requests, Send(r) PROVE SumInv'
  <2>1. \A t \in Slots : phase'[t] = phase[t] \/ (phase[t] = "held" /\ phase'[t] = "granted")
    BY <1>0, <1>2 DEF Send
  <2>2. Consumed'
    BY <1>0, <1>2, <2>1 DEF Send, Consumed, Over
  <2> QED
    BY <1>2, <2>1, <2>2, SumsStay DEF Send
<1>3. ASSUME NEW r \in Requests, Abandon(r) PROVE SumInv'
  <2>1. Consumed'
    BY <1>0, <1>3 DEF Abandon, Consumed, Over
  <2> QED
    BY <1>3, <2>1, SumsStay DEF Abandon
<1>4. ASSUME NEW r \in Requests, Overrun(r) PROVE SumInv'
  <2>1. \A t \in Slots : phase'[t] = phase[t] \/ (phase[t] = "made" /\ phase'[t] = "over")
    BY <1>0, <1>4 DEF Overrun, MadeIn
  <2>2. Consumed'
    BY <1>0, <1>4, <2>1 DEF Overrun, Consumed, Over
  <2> QED
    BY <1>4, <2>1, <2>2, SumsStay DEF Overrun
<1>5. ASSUME NEW r \in Requests, NEW K \in SUBSET batch[r], Complete(r, K) PROVE SumInv'
  <2>1. \A t \in Slots : phase'[t] = IF t \notin batch[r] THEN phase[t]
                                     ELSE IF phase[t] = "made" THEN "reported" ELSE "unused"
    BY <1>0, <1>5 DEF Complete
  <2>2. \A t \in batch[r] : phase[t] \in {"made", "granted"}
    BY <1>5 DEF Complete, Answered
  <2>3. used' = used /\ told' = told \cup K /\ usage' = usage /\ first' = first /\ prior' = prior
    BY <1>5 DEF Complete
  <2>4. \A t \in K : t \in batch[r] /\ phase[t] = "made" /\ t \notin Fixed /\ ~Over(t)
    BY <1>5 DEF Complete, MadeIn
  <2>5. K \subseteq Slots
    BY <1>5 DEF Rest
  <2>6. Consumed'
    BY <1>0, <2>1, <2>2, <2>3, <2>4, <2>5 DEF Consumed, Over
  <2> QED
    BY <2>1, <2>2, <2>3, <2>4, <2>6, SumsStay
<1>6. ASSUME NEW s \in Slots, NEW u \in Uses, Call(s, u) PROVE SumInv'
  <2>1. \A t \in Slots : /\ phase'[t] = IF t = s THEN "made" ELSE phase[t]
                         /\ used'[t] = IF t = s THEN u ELSE used[t]
    BY <1>0, <1>6 DEF Call, Consumed
  <2>2. phase[s] = "granted" /\ told' = told
    BY <1>6 DEF Call
  <2>3. Consumed'
    <3>1. used' \in [Slots -> Nat \X Nat]
      BY <1>0, <1>6, SlotAssumption DEF Call, Consumed
    <3>2. s \notin told
      BY <1>0, <2>2 DEF Consumed
    <3> QED
      BY <1>0, <2>1, <2>2, <3>1, <3>2 DEF Consumed, Over
  <2> QED
    BY <1>6, <2>1, <2>2, <2>3, SumsStay DEF Call
<1>7. ASSUME NEW s \in Slots, Finish(s) PROVE SumInv'
  BY <1>7, FinishReplaces
<1>8. ASSUME NEW s \in Slots, ReleaseUnused(s) PROVE SumInv'
  BY <1>8, ReleaseTakesOff
<1>9. ASSUME NEW l \in Limits, RestrictTo(l) PROVE SumInv'
  <2>1. Consumed'
    BY <1>0, <1>9 DEF RestrictTo, Consumed, Over
  <2> QED
    BY <1>9, <2>1, SumsStay DEF RestrictTo
<1>10. CASE Expire
  <2>1. Consumed'
    BY <1>0, <1>10 DEF Expire, Consumed, Over
  <2> QED
    BY <1>10, <2>1, SumsStay DEF Expire
<1>11. CASE UNCHANGED vars
  <2>1. Consumed'
    BY <1>0, <1>11 DEF vars, Consumed, Over
  <2> QED
    BY <1>11, <2>1, SumsStay DEF vars
<1> QED
  BY <1>1, <1>2, <1>3, <1>4, <1>5, <1>6, <1>7, <1>8, <1>9, <1>10, <1>11 DEF Next

\* The sums of every reachable state are exact and below the caps.
THEOREM SumInvariant == Spec => []SumInv
<1>1. Init => SumInv
  BY SumsStart
<1>2. Rest /\ BudgetInv /\ SumInv /\ [Next]_vars => SumInv'
  BY SumStep
<1> QED
  BY <1>1, <1>2, RestInvariant, BudgetInvariant, PTL DEF Spec

\* The ledger is the sum over the calls that are charged: no reservation is
\* charged twice, lost or released twice, whatever the helpers interleave.
THEOREM ExactLedger == Spec => []LedgerIsExact
<1>1. BudgetInv /\ SumInv => LedgerIsExact
  BY DEF BudgetInv, Counts, SumInv, Sums, LedgerIsExact
<1> QED
  BY <1>1, BudgetInvariant, SumInvariant, PTL

\* The tokens consumed by calls that kept to their allowances stay below the
\* cap the run started with.
THEOREM CapOnTokens == Spec => []TokensWithinCap
<1>1. BudgetInv /\ SumInv => TokensWithinCap
  <2> SUFFICES ASSUME BudgetInv, SumInv PROVE TokensWithinCap
    OBVIOUS
  <2>1. Made \subseteq Charged /\ Charged \subseteq Slots
    BY DEF Made, Charged
  <2>2. \A s \in Slots : /\ RealTokens[s] \in Nat
                         /\ RealTokens[s] <= ChargedTokens[s]
    <3> SUFFICES ASSUME NEW s \in Slots
                 PROVE  RealTokens[s] \in Nat /\ RealTokens[s] <= ChargedTokens[s]
      OBVIOUS
    <3>1. /\ used[s][1] \in Nat /\ used[s][2] \in Nat
          /\ Input[s] \in Nat /\ Output[s] \in Nat
      BY SlotAssumption DEF SumInv, Consumed
    <3>2. ChargedTokens[s] \in Nat
      BY ChargesAreAmounts DEF SumInv, Amounts
    <3>3. CASE s \in Fixed \/ Over(s)
      BY <3>2, <3>3 DEF RealTokens
    <3>4. CASE s \notin Fixed /\ ~Over(s)
      <4>1. used[s][1] <= Input[s] /\ used[s][2] <= Output[s]
        BY <3>1, <3>4 DEF Over
      <4>2. QuotedTokens[s] = Input[s] + Output[s]
        BY <3>4 DEF QuotedTokens
      <4>3. ChargedTokens[s] = QuotedTokens[s] \/ ChargedTokens[s] = used[s][1] + used[s][2]
        BY DEF ChargedTokens, ActualTokens
      <4>4. RealTokens[s] = used[s][1] + used[s][2]
        BY <3>4 DEF RealTokens
      <4> QED
        BY <3>1, <4>1, <4>2, <4>3, <4>4
    <3> QED
      BY <3>3, <3>4
  <2>3. RealTokens \in Amounts /\ ChargedTokens \in Amounts
    BY <2>2, ChargesAreAmounts DEF RealTokens, Amounts, SumInv
  <2>4. Total(RealTokens, Made) <= Total(ChargedTokens, Charged) /\ Total(RealTokens, Made) \in Nat
    <3>1. Total(RealTokens, Made) <= Total(ChargedTokens, Charged)
      BY <2>1, <2>2, <2>3, TotalGrows
    <3> QED
      BY <2>1, <2>3, <3>1, TotalIsNat
  <2>5. Within(prior["tokens"] + Total(RealTokens, Made), first["tokens"])
    BY <2>4, SumsAreNat DEF SumInv, Sums, Within
  <2>6. first["tokens"] # Unlimited \/ first["output"] # Unlimited => Made \cap Fixed = {}
    BY <2>1 DEF SumInv, Metered
  <2> QED
    BY <2>5, <2>6 DEF TokensWithinCap
<1> QED
  BY <1>1, BudgetInvariant, SumInvariant, PTL

\* Every variable keeps its type; the counters never go below zero.
THEOREM BudgetTypeCorrect == Spec => []TypeOK
<1>1. Rest /\ BudgetInv /\ SumInv => TypeOK
  <2> SUFFICES ASSUME Rest, BudgetInv, SumInv PROVE TypeOK
    OBVIOUS
  <2>1. usage \in [Counters -> Nat]
    <3>1. \A c \in {"calls", "unpriced", "unmetered"} : prior[c] \in Nat
      BY DEF BudgetInv, Shape, Counters
    <3>2. /\ Cardinality(Charged) \in Nat /\ Cardinality(Charged \cap Unpriced) \in Nat
          /\ Cardinality(Charged \cap Fixed) \in Nat
      BY SlotsCount DEF Charged
    <3>3. usage["calls"] \in Nat /\ usage["unpriced"] \in Nat /\ usage["unmetered"] \in Nat
      BY <3>1, <3>2 DEF BudgetInv, Counts
    <3>4. usage["tokens"] \in Nat /\ usage["cost"] \in Nat
      BY SumsAreNat DEF SumInv, Sums
    <3> QED
      BY <3>3, <3>4 DEF Counters, Rest
  <2> QED
    BY <2>1 DEF Rest, BudgetInv, Shape, SumInv, Consumed, TypeOK
<1> QED
  BY <1>1, RestInvariant, BudgetInvariant, SumInvariant, PTL
=============================================================================
