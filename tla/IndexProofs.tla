----------------------------- MODULE IndexProofs -----------------------------
(***************************************************************************)
(* For any collections, documents, requests and bounds, store by store.    *)
(*                                                                         *)
(* The embedding index.  What searches are served from is there, and with  *)
(* no promotion pending the row names what the alias serves.  The argument *)
(* follows the row lock: at most one call has a caller, and it is the one  *)
(* the lock was taken for (Mine); a promotion is only pending for what was *)
(* built, and until it is published the row names the attempt's source     *)
(* (Attempted, Promising).  Where no call outlives its caller, the alias   *)
(* is then what the row names or what the pending promotion does (InTime). *)
(*                                                                         *)
(* The documents.  The fenced store implements DocumentStore, and a read   *)
(* is given the passages and the parents of one version.  Only the holder  *)
(* of the lock writes, and what it may write depends on how far it is      *)
(* (Bodies).  Seen from outside, each step then has one of six effects     *)
(* (Effect), most of which happen behind a journal and change nothing that *)
(* is served.                                                              *)
(***************************************************************************)
EXTENDS EmbeddingIndex, StorageJournal, SequenceTheorems, TLAPS

LEMMA CollectionNames ==
  /\ First \in Collections /\ NoCollection \notin Collections
  /\ "none" \notin Collections /\ "swap" \notin Collections
  /\ Lateness \subseteq BOOLEAN
BY EmbeddingConstants

-----------------------------------------------------------------------------
(* The embedding index: the invariant. *)

WireCalls == [kind : {"swap", "clean"}, name : Collections, expected : Collections,
              mine : BOOLEAN, authorised : BOOLEAN]

RetiredRows == [name : Collections, at : {"retained", "deleted"}, aged : BOOLEAN]

\* At most one call on the wire still has a caller.
Wires ==
  /\ wire \subseteq WireCalls
  /\ \A c, d \in wire : c.mine /\ d.mine => c = d

\* Until an attempt is published, its source is what the row says serves.
Attempted ==
  attempt.at \notin {"none", "completed"} =>
    active = attempt.old /\ attempt.new \in Collections \ {active}

\* A promotion is pending for what was built; a cleanup is never of what the row says
\* serves, and holds off promotions.
Promising ==
  /\ intent # 0 => Built
  /\ holder = "swap" => intent # 0
  /\ holder \in Collections => intent = 0 /\ holder # active

\* The call that has a caller is the one its lock was taken for.
Mine ==
  \A c \in wire : c.mine =>
    /\ c.expected = active
    /\ holder = "swap" => c.kind = "swap" /\ c.name = attempt.new
    /\ holder # "swap" => c.kind = "clean" /\ c.name = holder

\* Where no call outlives its caller, the alias follows the row.
InTime == ~late =>
  /\ \A c \in wire : c.mine
  /\ intent = 0 => alias = active
  /\ intent # 0 => alias \in {active, attempt.new}
  /\ holder = "swap" /\ reply = "ok" => alias = attempt.new
  /\ holder = "swap" /\ reply = "refused" => alias = active

EmbInv ==
  /\ EmbTypeOK /\ authority \in BOOLEAN /\ retired \in Seq(RetiredRows) /\ Wires
  /\ Attempted /\ Promising /\ Mine /\ InTime /\ ServedExists

-----------------------------------------------------------------------------
(* Every step keeps it. *)

\* The steps that leave the alias, the wire and the lock as they are.
Aloof ==
  \/ \E c \in Collections : SetDesired(c)
  \/ Queue \/ Cancel \/ Work \/ JobLapses \/ Age \/ Edit \/ ChangeAuthority \/ RecordIntent

Untouched == UNCHANGED <<alias, active, wire, holder, reply, late>>

\* The attempt goes on, or the next one is queued.
Going ==
  \/ attempt' = attempt
  \/ /\ attempt' \in Attempts
     /\ attempt'.old = attempt.old /\ attempt'.new = attempt.new /\ attempt'.rev = attempt.rev
     /\ attempt.at \in {"none", "completed"} => attempt'.at = attempt.at
     /\ Built => attempt'.at \in {"receipt", "built"}
  \/ /\ attempt' \in Attempts /\ intent = 0 /\ holder = "none"
     /\ attempt'.old = active /\ attempt'.new = desired
     /\ desired \in Collections \ {active}
     /\ attempt'.at = "building"

\* Which copies a step may touch while nothing is called.
Copies ==
  /\ store' \in [Collections -> {"none", "building", "whole", "stale"}]
  /\ \A c \in Collections : store[c] \in {"whole", "stale"} =>
       store'[c] \in {"whole", "stale"} \/ c \notin {alias, active}

\* Only a promotion that is recorded for what was built starts to be pending.
Intended ==
  \/ intent' = intent
  \/ intent = 0 /\ Built /\ attempt' = attempt /\ holder = "none"

LEMMA AloofEffect ==
  ASSUME EmbInv, Aloof
  PROVE  Untouched /\ Going /\ Copies /\ Intended
<1>0. /\ attempt \in Attempts /\ store \in [Collections -> {"none", "building", "whole", "stale"}]
      /\ alias \in Collections /\ active \in Collections /\ desired \in Collections \cup {NoCollection}
      /\ revision \in Nat
  BY DEF EmbInv, EmbTypeOK
<1>1. Untouched
  BY DEF Aloof, Untouched, SetDesired, Queue, Cancel, Work, Start, BuildDone, BuildFails, WorkerReturns, JobLapses,
         Age, Edit, ChangeAuthority, RecordIntent, ml, provenance, exchange, environment
<1>2. Going
  <2>1. CASE Queue
    <3>1. attempt' = [at |-> "building", job |-> "queued", old |-> active, new |-> desired, rev |-> revision]
          /\ intent = 0 /\ holder = "none" /\ desired \notin {NoCollection, active}
      BY <2>1 DEF Queue
    <3>2. attempt' \in Attempts
      BY <1>0, <3>1 DEF Attempts
    <3>. QED
      BY <1>0, <3>1, <3>2 DEF Going
  <2>2. CASE Cancel
    <3>1. attempt' = [attempt EXCEPT !.at = "failed", !.job = "cancelled"] /\ attempt.at = "building"
      BY <2>2 DEF Cancel
    <3>2. attempt' \in Attempts /\ attempt'.at = "failed" /\ attempt'.old = attempt.old
          /\ attempt'.new = attempt.new /\ attempt'.rev = attempt.rev
      BY <1>0, <3>1 DEF Attempts
    <3>. QED
      BY <3>1, <3>2 DEF Going, Built
  <2>3. CASE Start
    <3>1. /\ attempt.at = "building"
          /\ \/ attempt' = [attempt EXCEPT !.job = "running"]
             \/ attempt' = [attempt EXCEPT !.at = "failed", !.job = "failed"]
      BY <2>3 DEF Start
    <3>2. attempt' \in Attempts /\ attempt'.at \in {"building", "failed"} /\ attempt'.old = attempt.old
          /\ attempt'.new = attempt.new /\ attempt'.rev = attempt.rev
      BY <1>0, <3>1 DEF Attempts
    <3>. QED
      BY <3>1, <3>2 DEF Going, Built
  <2>4. CASE BuildDone \/ WorkerReturns
    <3>1. /\ attempt.at \in {"building", "receipt"}
          /\ \E a \in {"receipt", "built"} : attempt' = [attempt EXCEPT !.at = a]
      BY <2>4 DEF BuildDone, WorkerReturns
    <3>2. attempt' \in Attempts /\ attempt'.at \in {"receipt", "built"} /\ attempt'.old = attempt.old
          /\ attempt'.new = attempt.new /\ attempt'.rev = attempt.rev
      BY <1>0, <3>1 DEF Attempts
    <3>. QED
      BY <3>1, <3>2 DEF Going, Built
  <2>5. CASE BuildFails
    <3>1. /\ attempt.at \in {"building", "receipt"}
          /\ attempt' = [attempt EXCEPT !.job = "failed",
                                        !.at = IF attempt.at = "building" THEN "failed" ELSE "built"]
      BY <2>5 DEF BuildFails
    <3>2. attempt' \in Attempts /\ attempt'.at = (IF attempt.at = "building" THEN "failed" ELSE "built")
          /\ attempt'.old = attempt.old /\ attempt'.new = attempt.new /\ attempt'.rev = attempt.rev
      BY <1>0, <3>1 DEF Attempts
    <3>. QED
      BY <3>1, <3>2 DEF Going, Built
  <2>6. CASE JobLapses
    <3>1. /\ Open
          /\ \E j \in {"interrupted", "failed"} :
               attempt' = [attempt EXCEPT !.job = j,
                                          !.at = IF attempt.at = "receipt" THEN "built" ELSE attempt.at]
      BY <2>6 DEF JobLapses
    <3>2. attempt' \in Attempts /\ attempt'.at = (IF attempt.at = "receipt" THEN "built" ELSE attempt.at)
          /\ attempt'.old = attempt.old /\ attempt'.new = attempt.new /\ attempt'.rev = attempt.rev
      BY <1>0, <3>1 DEF Attempts
    <3>. QED
      BY <3>1, <3>2 DEF Going, Built
  <2>. QED
    BY <2>1, <2>2, <2>3, <2>4, <2>5, <2>6
    DEF Aloof, Work, SetDesired, Age, Edit, ChangeAuthority, RecordIntent, Going
<1>3. Copies
  <2>1. CASE Start
    <3>1. attempt.new \in Collections
      BY <1>0, <2>1 DEF Start, EmbInv, Attempted
    <3>2. \/ store' = store
          \/ /\ store' = [store EXCEPT ![attempt.new] = "building"]
             /\ alias = attempt.old /\ active = attempt.old /\ alias # attempt.new
      <4>1. CASE SourceHolds /\ intent = 0 /\ alias = attempt.old /\ alias # attempt.new
        <5>1. store' = [store EXCEPT ![attempt.new] = "building"]
          BY <2>1, <4>1 DEF Start
        <5>2. active = attempt.old
          BY <4>1 DEF SourceHolds
        <5>. QED
          BY <4>1, <5>1, <5>2
      <4>2. CASE ~(SourceHolds /\ intent = 0 /\ alias = attempt.old /\ alias # attempt.new)
        BY <2>1, <4>2 DEF Start
      <4>. QED
        BY <4>1, <4>2
    <3>. QED
      BY <1>0, <3>1, <3>2 DEF Copies
  <2>2. CASE BuildDone
    BY <1>0, <2>2 DEF BuildDone, Copies
  <2>3. CASE Edit
    <3>1. store' = [c \in Collections |->
             IF c # alias /\ store[c] \in {"building", "whole"} THEN "stale" ELSE store[c]]
      BY <2>3 DEF Edit
    <3>. QED
      BY <1>0, <3>1 DEF Copies
  <2>. QED
    <3>1. CASE UNCHANGED store
      BY <1>0, <3>1 DEF Copies
    <3>. QED
      BY <2>1, <2>2, <2>3, <3>1
      DEF Aloof, Work, SetDesired, Queue, Cancel, BuildFails, WorkerReturns, JobLapses, Age, ChangeAuthority,
          RecordIntent, ml
<1>4. Intended
  BY DEF Aloof, Intended, SetDesired, Queue, Cancel, Work, Start, BuildDone, BuildFails, WorkerReturns,
         JobLapses, Age, Edit, ChangeAuthority, RecordIntent, ml, provenance, exchange, environment
<1>. QED
  BY <1>1, <1>2, <1>3, <1>4

LEMMA EmbFacts ==
  ASSUME EmbInv
  PROVE  /\ attempt \in Attempts /\ store \in [Collections -> {"none", "building", "whole", "stale"}]
         /\ alias \in Collections /\ active \in Collections
         /\ desired \in Collections \cup {NoCollection}
         /\ revision \in Nat /\ intent \in {0, revision} /\ authority \in BOOLEAN
         /\ retired \in Seq(RetiredRows) /\ \A i \in DOMAIN retired : retired[i] \in RetiredRows
         /\ \A call \in wire : call.mine => holder # "none" /\ reply = "none"
         /\ holder \in {"none", "swap"} \cup Collections
         /\ reply \in {"none", "ok", "refused", "error"}
         /\ Wires /\ Attempted /\ Promising /\ Mine /\ InTime /\ ServedExists
BY DEF EmbInv, EmbTypeOK, RetiredRows

\* A retired row is appended, aged or deleted.
LEMMA RetiredChanges ==
  ASSUME NEW rows \in Seq(RetiredRows), NEW x \in RetiredRows
  PROVE  /\ Append(rows, x) \in Seq(RetiredRows)
         /\ [i \in DOMAIN rows |-> [rows[i] EXCEPT !.aged = TRUE]] \in Seq(RetiredRows)
         /\ \A i \in DOMAIN rows : [rows EXCEPT ![i].at = "deleted"] \in Seq(RetiredRows)
<1>1. Append(rows, x) \in Seq(RetiredRows)
  OBVIOUS
<1>2. \A i \in DOMAIN rows : /\ [rows[i] EXCEPT !.aged = TRUE] \in RetiredRows
                            /\ [rows[i] EXCEPT !.at = "deleted"] \in RetiredRows
  <2>1. \A i \in DOMAIN rows : rows[i] \in RetiredRows
    OBVIOUS
  <2>. QED
    BY <2>1 DEF RetiredRows
<1>3. PICK n \in Nat : rows \in [1 .. n -> RetiredRows]
  BY SeqDef
<1>. HIDE DEF RetiredRows
<1>4. \A f \in [1 .. n -> RetiredRows] : f \in Seq(RetiredRows)
  BY SeqDef
<1>5. DOMAIN rows = 1 .. n
  BY <1>3
<1>. QED
  BY <1>1, <1>2, <1>3, <1>4, <1>5

LEMMA AloofKeeps ==
  ASSUME EmbInv, Aloof
  PROVE  EmbInv'
<1>. USE CollectionNames
<1>1. Untouched /\ Going /\ Copies /\ Intended
  BY AloofEffect
<1>2. attempt' \in Attempts
  BY EmbFacts, <1>1 DEF Going
<1>3. /\ desired' \in Collections \cup {NoCollection} /\ revision' \in Nat
      /\ intent' \in {0, revision'}
  BY EmbFacts DEF Aloof, SetDesired, Queue, Cancel, Work, Start, BuildDone, BuildFails, WorkerReturns, JobLapses,
              Age, Edit, ChangeAuthority, RecordIntent, ml, provenance, exchange, environment
<1>4. retired' \in Seq(RetiredRows) /\ \A i \in DOMAIN retired' : retired'[i] \in RetiredRows
  <2>1. CASE Age
    <3>1. retired' = [i \in DOMAIN retired |-> [retired[i] EXCEPT !.aged = TRUE]]
      BY <2>1 DEF Age
    <3>2. PICK i \in DOMAIN retired : TRUE
      BY <2>1 DEF Age
    <3>3. retired' \in Seq(RetiredRows)
      BY <3>1, <3>2, EmbFacts, RetiredChanges
    <3>. QED
      BY <3>3
  <2>. QED
    BY <2>1, EmbFacts DEF Aloof, SetDesired, Queue, Cancel, Work, Start, BuildDone, BuildFails, WorkerReturns,
       JobLapses, Edit, ChangeAuthority, RecordIntent, ml, provenance, exchange, environment
<1>5. authority' \in BOOLEAN
  BY EmbFacts DEF Aloof, SetDesired, Queue, Cancel, Work, Start, BuildDone, BuildFails, WorkerReturns, JobLapses,
              Age, Edit, ChangeAuthority, RecordIntent, ml, provenance, exchange, environment
<1>6. EmbTypeOK'
  BY EmbFacts, <1>1, <1>2, <1>3, <1>4 DEF Untouched, Copies, EmbTypeOK, RetiredRows
<1>7. Wires'
  BY EmbFacts, <1>1 DEF Untouched, Wires
<1>8. Attempted'
  BY EmbFacts, <1>1 DEF Untouched, Going, Attempted
<1>9. Promising'
  BY EmbFacts, <1>1 DEF Untouched, Going, Intended, Promising, Built
<1>10. Mine'
  BY EmbFacts, <1>1 DEF Untouched, Going, Promising, Mine
<1>11. InTime'
  BY EmbFacts, <1>1 DEF Untouched, Going, Intended, Promising, InTime
<1>12. ServedExists'
  BY EmbFacts, <1>1 DEF Untouched, Copies, ServedExists
<1>. QED
  BY <1>4, <1>5, <1>6, <1>7, <1>8, <1>9, <1>10, <1>11, <1>12 DEF EmbInv

\* A call with a caller is added, where there was none.
LEMMA CallAdded ==
  ASSUME EmbInv, holder = "none", NEW call \in WireCalls, call.mine = TRUE, wire' = wire \cup {call}
  PROVE  /\ Wires' /\ \A c \in wire : c.mine = FALSE
         /\ \A c \in wire' : c.mine => c = call
<1>1. wire \subseteq WireCalls /\ \A c \in wire : ~c.mine
  BY EmbFacts DEF Wires
<1>2. \A c \in wire : c.mine \in BOOLEAN
  BY <1>1 DEF WireCalls
<1>3. \A c \in wire : c.mine = FALSE
  BY <1>1, <1>2
<1>. QED
  BY <1>1, <1>3 DEF Wires

LEMMA AskKeeps ==
  ASSUME EmbInv, AskSwap \/ \E i \in DOMAIN retired : AskCleanup(i)
  PROVE  EmbInv'
<1>. USE CollectionNames
<1>1. CASE AskSwap
  <2>. DEFINE call == [kind |-> "swap", name |-> attempt.new, expected |-> attempt.old, mine |-> TRUE,
                       authorised |-> /\ Built /\ attempt.job \in {"running", "interrupted"}
                                      /\ SourceHolds]
  <2>0. /\ holder = "none" /\ intent # 0 /\ active = attempt.old
        /\ holder' = "swap" /\ reply' = "none" /\ wire' = wire \cup {call}
        /\ UNCHANGED <<alias, store, active, desired, revision, attempt, intent, retired, authority, late>>
    BY <1>1 DEF AskSwap, ml, provenance, environment
  <2>1. attempt.new \in Collections
    BY <2>0, EmbFacts DEF Attempted, Promising, Built
  <2>2. call \in WireCalls
    BY <2>0, <2>1, EmbFacts DEF WireCalls, SourceHolds
  <2>3. call.kind = "swap" /\ call.name = attempt.new /\ call.expected = active /\ call.mine = TRUE
    BY <2>0
  <2>. HIDE DEF call
  <2>4. Wires' /\ (\A c \in wire : c.mine = FALSE) /\ \A c \in wire' : c.mine => c = call
    BY <2>0, <2>2, <2>3, CallAdded
  <2>5. EmbTypeOK'
    BY <2>0, EmbFacts DEF EmbTypeOK, RetiredRows
  <2>6. Attempted' /\ Promising' /\ Mine'
    BY <2>0, <2>3, <2>4, EmbFacts DEF Attempted, Promising, Mine, Built
  <2>7. InTime' /\ ServedExists'
    BY <2>0, <2>3, <2>4, EmbFacts DEF InTime, ServedExists
  <2>. QED
    BY <2>0, <2>4, <2>5, <2>6, <2>7, EmbFacts DEF EmbInv
<1>2. ASSUME NEW i \in DOMAIN retired, AskCleanup(i) PROVE EmbInv'
  <2>. DEFINE call == [kind |-> "clean", name |-> retired[i].name, expected |-> active,
                       mine |-> TRUE, authorised |-> TRUE]
  <2>0. /\ holder = "none" /\ intent = 0 /\ retired[i].name # active
        /\ holder' = retired[i].name /\ reply' = "none" /\ wire' = wire \cup {call}
        /\ UNCHANGED <<alias, store, active, desired, revision, attempt, intent, retired, authority, late>>
    BY <1>2 DEF AskCleanup, ml, provenance, environment
  <2>1. retired[i].name \in Collections
    BY EmbFacts DEF RetiredRows
  <2>2. call \in WireCalls
    BY <2>0, <2>1, EmbFacts DEF WireCalls
  <2>3. call.kind = "clean" /\ call.name = retired[i].name /\ call.expected = active /\ call.mine = TRUE
    BY <2>0
  <2>. HIDE DEF call
  <2>4. Wires' /\ (\A c \in wire : c.mine = FALSE) /\ \A c \in wire' : c.mine => c = call
    BY <2>0, <2>2, <2>3, CallAdded
  <2>5. EmbTypeOK'
    BY <2>0, <2>1, EmbFacts DEF EmbTypeOK, RetiredRows
  <2>6. Attempted' /\ Promising' /\ Mine'
    BY <2>0, <2>1, <2>3, <2>4, EmbFacts DEF Attempted, Promising, Mine, Built
  <2>7. InTime' /\ ServedExists'
    BY <2>0, <2>1, <2>3, <2>4, EmbFacts DEF InTime, ServedExists
  <2>. QED
    BY <2>0, <2>4, <2>5, <2>6, <2>7, EmbFacts DEF EmbInv
<1>. QED
  BY <1>1, <1>2

LEMMA ExecuteKeeps ==
  ASSUME EmbInv, Execute
  PROVE  EmbInv'
<1>. USE CollectionNames
<1>1. PICK call \in wire, verdict \in {"ok", "refused", "error"} :
        /\ Answer(call, verdict)
        /\ \/ /\ call.kind = "swap" /\ verdict = SwapVerdict(call)
              /\ alias' = (IF verdict = "ok" THEN call.name ELSE alias) /\ store' = store
           \/ /\ call.kind = "clean" /\ alias' = alias
              /\ \/ store' = store
                 \/ /\ alias = call.expected /\ alias # call.name
                    /\ store' = [store EXCEPT ![call.name] = "none"]
        /\ UNCHANGED <<active, desired, revision, attempt, intent, retired, holder, authority, late>>
  <2>1. CASE ExecuteSwap
    <3>1. PICK call \in wire :
             /\ call.kind = "swap"
             /\ alias' = IF SwapVerdict(call) = "ok" THEN call.name ELSE alias
             /\ Answer(call, SwapVerdict(call))
             /\ UNCHANGED <<store, provenance, attempt, intent, retired, holder, environment, newest>>
      BY <2>1 DEF ExecuteSwap
    <3>2. SwapVerdict(call) \in {"ok", "refused", "error"}
      BY DEF SwapVerdict
    <3>. QED
      BY <3>1, <3>2 DEF provenance, environment
  <2>2. CASE ExecuteCleanup
    BY <2>2 DEF ExecuteCleanup, provenance, environment
  <2>. QED
    BY <2>1, <2>2 DEF Execute
<1>2. /\ call \in WireCalls /\ wire' = wire \ {call} /\ call.name \in Collections
      /\ reply' = IF call.mine THEN verdict ELSE reply
  BY <1>1, EmbFacts DEF Answer, Wires, WireCalls
<1>3. verdict = SwapVerdict(call) =>
        /\ verdict = "ok" => alias = call.name \/ store[call.name] = "whole"
        /\ verdict = "refused" => alias = call.expected
  BY DEF SwapVerdict
<1>4. Wires' /\ \A c \in wire' : call.mine => ~c.mine
  BY <1>1, <1>2, EmbFacts DEF Wires
<1>5. EmbTypeOK'
  BY <1>1, <1>2, <1>4, EmbFacts DEF EmbTypeOK, RetiredRows
<1>6. Attempted' /\ Promising' /\ Mine'
  BY <1>1, <1>2, EmbFacts DEF Attempted, Promising, Mine, Built
<1>7. ~late => call.mine = TRUE /\ call.expected = active
  BY <1>2, EmbFacts DEF InTime, Mine, WireCalls
<1>8. ServedExists'
  <2>1. CASE call.kind = "swap"
    <3>1. verdict = SwapVerdict(call) /\ store' = store /\ alias' = IF verdict = "ok" THEN call.name ELSE alias
      BY <1>1, <2>1
    <3>2. store'[alias'] \in {"whole", "stale"}
      BY <1>3, <3>1, EmbFacts DEF ServedExists
    <3>. QED
      BY <1>1, <3>1, <3>2, EmbFacts DEF ServedExists
  <2>2. CASE call.kind = "clean"
    <3>1. /\ alias' = alias
          /\ \/ store' = store
             \/ /\ alias = call.expected /\ alias # call.name
                /\ store' = [store EXCEPT ![call.name] = "none"]
      BY <1>1, <2>2
    <3>2. store'[alias] = store[alias] /\ (~late => store'[active] = store[active])
      BY <1>2, <1>7, <3>1, EmbFacts
    <3>3. active' = active /\ late' = late
      BY <1>1
    <3>4. alias' = alias
      BY <3>1
    <3>5. ServedExists
      BY EmbFacts
    <3>. QED
      BY <3>2, <3>3, <3>4, <3>5 DEF ServedExists
  <2>. QED
    BY <1>1, <2>1, <2>2
<1>9. InTime'
  <2>0. /\ late' = late /\ active' = active /\ attempt' = attempt /\ intent' = intent /\ holder' = holder
        /\ wire' \subseteq wire
    BY <1>1, <1>2
  <2>1. SUFFICES ASSUME ~late
                 PROVE  /\ intent = 0 => alias' = active
                        /\ intent # 0 => alias' \in {active, attempt.new}
                        /\ holder = "swap" /\ reply' = "ok" => alias' = attempt.new
                        /\ holder = "swap" /\ reply' = "refused" => alias' = active
    BY <2>0, EmbFacts DEF InTime
  <2>2. reply' = verdict /\ call.expected = active
    BY <1>2, <1>7, <2>1
  <2>3. CASE call.kind = "swap"
    <3>1. verdict = SwapVerdict(call) /\ alias' = IF verdict = "ok" THEN call.name ELSE alias
      BY <1>1, <2>3
    <3>2. holder = "swap" /\ call.name = attempt.new /\ intent # 0
      BY <1>7, <2>1, <2>3, EmbFacts DEF Mine, Promising
    <3>. QED
      BY <1>3, <2>1, <2>2, <3>1, <3>2, EmbFacts DEF InTime
  <2>4. CASE call.kind = "clean"
    <3>1. alias' = alias /\ holder # "swap"
      BY <1>1, <1>7, <2>1, <2>4, EmbFacts DEF Mine
    <3>. QED
      BY <2>1, <3>1, EmbFacts DEF InTime
  <2>. QED
    BY <1>1, <2>3, <2>4
<1>. QED
  BY <1>1, <1>4, <1>5, <1>6, <1>8, <1>9, EmbFacts DEF EmbInv

\* The lock is given up.
LEMMA ReleaseKeeps ==
  ASSUME EmbInv, CommitSwap \/ CommitRefusal \/ TakeError \/ Release
                 \/ \E i \in DOMAIN retired : CommitCleanup(i)
  PROVE  EmbInv'
<1>. USE CollectionNames
<1>1. holder # "none" /\ holder' = "none" /\ reply' = "none"
  <2>1. CASE \E i \in DOMAIN retired : CommitCleanup(i)
    <3>1. PICK i \in DOMAIN retired : holder = retired[i].name /\ holder' = "none" /\ reply' = "none"
      BY <2>1 DEF CommitCleanup
    <3>2. retired[i].name \in Collections
      BY EmbFacts DEF RetiredRows
    <3>. QED
      BY <3>1, <3>2
  <2>. QED
    BY <2>1 DEF CommitSwap, CommitRefusal, TakeError, Release
<1>2. UNCHANGED <<alias, store, authority, late>>
  BY DEF CommitSwap, CommitRefusal, TakeError, Release, CommitCleanup, ml, environment
<1>3. wire' \subseteq WireCalls /\ (\A c \in wire' : c.mine = FALSE) /\ (~late => wire' = {})
  <2>1. CASE Release
    <3>1. wire \subseteq WireCalls
      BY EmbFacts DEF Wires
    <3>2. CASE late
      <4>1. wire' = {[c EXCEPT !.mine = FALSE] : c \in wire}
        BY <2>1, <3>2 DEF Release
      <4>2. \A c \in WireCalls : /\ [c EXCEPT !.mine = FALSE] \in WireCalls
                                 /\ [c EXCEPT !.mine = FALSE].mine = FALSE
        BY DEF WireCalls
      <4>3. ASSUME NEW d \in wire' PROVE d \in WireCalls /\ d.mine = FALSE
        <5>1. PICK c \in wire : d = [c EXCEPT !.mine = FALSE]
          BY <4>1, <4>3
        <5>. QED
          BY <3>1, <4>2, <5>1
      <4>. QED
        BY <3>2, <4>3
    <3>3. CASE ~late
      <4>1. wire' = {c \in wire : ~c.mine}
        BY <2>1, <3>3 DEF Release
      <4>. QED
        BY <3>3, <4>1, EmbFacts DEF InTime
    <3>. QED
      BY <3>2, <3>3
  <2>2. CASE ~Release
    <3>1. wire' = wire /\ reply # "none"
      BY <2>2, EmbFacts DEF CommitSwap, CommitRefusal, TakeError, CommitCleanup
    <3>2. \A c \in wire : ~c.mine /\ c.mine \in BOOLEAN
      BY <3>1, EmbFacts DEF Wires, WireCalls
    <3>. QED
      BY <3>1, <3>2, EmbFacts DEF InTime, Wires
  <2>. QED
    BY <2>1, <2>2
<1>4. Wires' /\ Mine'
  BY <1>3 DEF Wires, Mine
<1>5. CASE CommitSwap
  <2>0. /\ holder = "swap" /\ reply = "ok"
        /\ active' = attempt.new /\ desired' = NoCollection /\ revision' = revision + 1 /\ intent' = 0
        /\ attempt' = [attempt EXCEPT
             !.at = IF Built THEN "completed" ELSE @,
             !.job = IF Built /\ @ \in {"running", "interrupted"} THEN "succeeded" ELSE @]
    BY <1>5 DEF CommitSwap
  <2>1. Built /\ attempt.new \in Collections
    BY <2>0, EmbFacts DEF Promising, Attempted, Built
  <2>2. \E j \in {attempt.job, "succeeded"} : attempt' = [attempt EXCEPT !.at = "completed", !.job = j]
    BY <2>0, <2>1
  <2>3. attempt' \in Attempts /\ attempt'.at = "completed"
    BY <2>2, EmbFacts DEF Attempts
  <2>4. retired' \in Seq(RetiredRows) /\ \A i \in DOMAIN retired' : retired'[i] \in RetiredRows
    <3>1. [name |-> active, at |-> "retained", aged |-> FALSE] \in RetiredRows
      BY EmbFacts DEF RetiredRows
    <3>2. \/ retired' = retired
          \/ retired' = Append(retired, [name |-> active, at |-> "retained", aged |-> FALSE])
      BY <1>5 DEF CommitSwap
    <3>3. retired' \in Seq(RetiredRows)
      BY <3>1, <3>2, EmbFacts, RetiredChanges
    <3>. QED
      BY <3>3
  <2>5. EmbTypeOK'
    BY <1>1, <1>2, <1>3, <2>0, <2>1, <2>3, <2>4, EmbFacts DEF EmbTypeOK, RetiredRows
  <2>6. Attempted' /\ Promising'
    BY <1>1, <2>0, <2>3 DEF Attempted, Promising
  <2>7. InTime' /\ ServedExists'
    BY <1>1, <1>2, <1>3, <2>0, EmbFacts DEF InTime, ServedExists
  <2>. QED
    BY <1>2, <1>4, <2>4, <2>5, <2>6, <2>7, EmbFacts DEF EmbInv
<1>6. CASE CommitRefusal
  <2>0. /\ holder = "swap" /\ reply = "refused" /\ intent' = 0
        /\ UNCHANGED <<active, desired, revision, retired>>
        /\ attempt' = [attempt EXCEPT
             !.at = IF Built THEN "failed" ELSE @,
             !.job = IF Built /\ @ \in {"running", "interrupted"} THEN "failed" ELSE @]
    BY <1>6 DEF CommitRefusal, provenance
  <2>1. Built
    BY <2>0, EmbFacts DEF Promising
  <2>2. \E j \in {attempt.job, "failed"} : attempt' = [attempt EXCEPT !.at = "failed", !.job = j]
    BY <2>0, <2>1
  <2>3. attempt' \in Attempts /\ attempt'.old = attempt.old /\ attempt'.new = attempt.new
    BY <2>2, EmbFacts DEF Attempts
  <2>5. EmbTypeOK'
    BY <1>1, <1>2, <1>3, <2>0, <2>3, EmbFacts DEF EmbTypeOK, RetiredRows
  <2>6. Attempted' /\ Promising'
    BY <1>1, <2>0, <2>1, <2>3, EmbFacts DEF Attempted, Promising, Built
  <2>7. InTime' /\ ServedExists'
    BY <1>1, <1>2, <1>3, <2>0, EmbFacts DEF InTime, ServedExists
  <2>. QED
    BY <1>2, <1>4, <2>0, <2>5, <2>6, <2>7, EmbFacts DEF EmbInv
<1>7. CASE TakeError \/ Release \/ \E i \in DOMAIN retired : CommitCleanup(i)
  <2>0. UNCHANGED <<active, desired, revision, attempt, intent>>
    BY <1>7 DEF TakeError, Release, CommitCleanup, provenance
  <2>1. retired' \in Seq(RetiredRows) /\ \A i \in DOMAIN retired' : retired'[i] \in RetiredRows
    <3>1. retired' = retired \/ \E i \in DOMAIN retired : retired' = [retired EXCEPT ![i].at = "deleted"]
      BY <1>7 DEF TakeError, Release, CommitCleanup
    <3>2. \A i \in DOMAIN retired : [retired EXCEPT ![i].at = "deleted"] \in Seq(RetiredRows)
      <4>1. ASSUME NEW i \in DOMAIN retired
            PROVE  [retired EXCEPT ![i].at = "deleted"] \in Seq(RetiredRows)
        <5>1. retired[i] \in RetiredRows
          BY EmbFacts
        <5>. QED
          BY <5>1, EmbFacts, RetiredChanges
      <4>. QED
        BY <4>1
    <3>3. retired' \in Seq(RetiredRows)
      BY <3>1, <3>2, EmbFacts
    <3>. QED
      BY <3>3
  <2>2. EmbTypeOK'
    BY <1>1, <1>2, <1>3, <2>0, <2>1, EmbFacts DEF EmbTypeOK, RetiredRows
  <2>3. Attempted' /\ Promising'
    BY <1>1, <2>0, EmbFacts DEF Attempted, Promising, Built
  <2>4. InTime' /\ ServedExists'
    BY <1>1, <1>2, <1>3, <2>0, EmbFacts DEF InTime, ServedExists
  <2>. QED
    BY <1>2, <1>4, <2>1, <2>2, <2>3, <2>4, EmbFacts DEF EmbInv
<1>. QED
  BY <1>5, <1>6, <1>7

LEMMA EmbInitial == EmbInit => EmbInv
<1>. SUFFICES ASSUME EmbInit PROVE EmbInv
  OBVIOUS
<1>. USE CollectionNames
<1>1. EmbTypeOK /\ authority \in BOOLEAN /\ retired \in Seq(RetiredRows)
  <2>1. attempt \in Attempts /\ store \in [Collections -> {"none", "building", "whole", "stale"}]
    BY DEF EmbInit, Attempts
  <2>. QED
    BY <2>1 DEF EmbInit, EmbTypeOK
<1>2. Wires /\ Attempted /\ Promising /\ Mine /\ InTime /\ ServedExists
  BY DEF EmbInit, Wires, Attempted, Promising, Mine, InTime, ServedExists
<1>. QED
  BY <1>1, <1>2 DEF EmbInv

LEMMA EmbInvariant == EmbSpec => []EmbInv
<1>1. ASSUME EmbInv, [EmbNext]_embVars PROVE EmbInv'
  <2>1. CASE UNCHANGED embVars
    BY <1>1, <2>1 DEF embVars, EmbInv, EmbTypeOK, Wires, Attempted, Promising, Mine, InTime, ServedExists, Built
  <2>2. CASE EmbNext
    BY <1>1, <2>2, AloofKeeps, AskKeeps, ExecuteKeeps, ReleaseKeeps DEF EmbNext, Aloof, Publish, Clean
  <2>. QED
    BY <1>1, <2>1, <2>2
<1>. QED
  BY <1>1, EmbInitial, PTL DEF EmbSpec

\* The rows, the calls and the copies keep their shape, and a call that has a caller
\* has not been answered.
THEOREM EmbTypeCorrect == EmbSpec => []EmbTypeOK
<1>1. EmbInv => EmbTypeOK
  BY DEF EmbInv
<1>. QED
  BY <1>1, EmbInvariant, PTL

\* No build resets and no cleanup deletes what searches are served from.
THEOREM ServesWhatIsThere == EmbSpec => []ServedExists
<1>1. EmbInv => ServedExists
  BY DEF EmbInv
<1>. QED
  BY <1>1, EmbInvariant, PTL

\* With no promotion pending the row names the collection the alias serves.
THEOREM TrueProvenance == EmbSpec => []ProvenanceIsServed
<1>1. EmbInv => ProvenanceIsServed
  BY DEF EmbInv, InTime, ProvenanceIsServed
<1>. QED
  BY <1>1, EmbInvariant, PTL

\* A rebuild that was reported failed or cancelled does not serve.
THEOREM FailureServesNothing == EmbSpec => []FailedNeverServes
<1>1. ASSUME EmbInv PROVE FailedNeverServes
  BY <1>1 DEF EmbInv, InTime, Promising, Attempted, Built, FailedNeverServes
<1>. QED
  BY <1>1, EmbInvariant, PTL

-----------------------------------------------------------------------------
(* The documents. *)

USE StorageBounds

-----------------------------------------------------------------------------
(* The invariant. *)

\* The parts that the restoring holder has dealt with are the old ones.
Back ==
  \A j \in journals, m \in 1 .. 4 :
    2 * m < hold.step => points[j.doc][PartNames[m]] = j.old[PartNames[m]]

\* How far the holder of the lock is.
Restoring == hold.phase \in {"recover", "compensate"} => Back
Compensating == hold.phase = "compensate" => asked[hold.owner].op = "write" /\ journals # {}
Writing ==
  hold.phase = "body" /\ asked[hold.owner].op = "write" =>
    LET r == asked[hold.owner] IN
      /\ journals # {} /\ \A j \in journals : j.doc = r.doc
      /\ hold.step >= 4 => points[r.doc]["notes"] = Gone
      /\ hold.step >= 6 => points[r.doc]["parents"] = r.version
      /\ hold.step >= 7 => points[r.doc]["active"] = r.version
      /\ hold.step >= 8 => points[r.doc]["desired"] = r.version
Removing ==
  hold.phase = "body" /\ asked[hold.owner].op = "remove" =>
    /\ journals = {}
    /\ hold.step >= 2 => points[asked[hold.owner].doc]["active"] = Gone
Reading ==
  hold.phase = "body" /\ asked[hold.owner].op \in {"search", "parents", "answer"} =>
    journals = {}

Bodies ==
  hold # Free =>
    /\ asked[hold.owner].op \notin {"none", "down"}
    /\ hold.phase = "body" => asked[hold.owner].op # "start"
    /\ Restoring /\ Compensating /\ Writing /\ Removing /\ Reading

\* A document that is served is not torn, and its passages have their parents.
Sound(c) ==
  /\ \A p \in Parts : c[p] # Torn
  /\ c["active"] = Gone \/ c["parents"] = c["active"]

Soundness ==
  /\ \A j \in journals : Sound(j.old)
  /\ \A d \in Docs : (\A j \in journals : j.doc # d) => Sound(points[d])

\* The passages a search left with, and the parents it came back for.
Searching ==
  \A w \in Workers :
    /\ asked[w].op \in {"parents", "answer"} => asked[w].of # Torn
    /\ asked[w].op = "answer" =>
         /\ Holds(w) /\ hold.phase = "body"
         /\ asked[w].found = FoundBy(asked[w].of, points[asked[w].doc]["parents"])

StoreInv == StoreTypeOK /\ OneJournal /\ Bodies /\ Soundness /\ Searching

-----------------------------------------------------------------------------
(* The operators. *)

LEMMA Bounds ==
  /\ MaxWrites \in Nat /\ MaxRemovals \in Nat /\ MaxReads \in Nat /\ MaxTroubles \in Nat
  /\ Torn \in Nat /\ Torn # Gone /\ \A v \in Versions : v # Torn /\ v # Gone /\ v \in Nat
BY DEF Torn, Gone, Versions

LEMMA RestoreWrites ==
  ASSUME NEW old
  PROVE  /\ Restores(old)[1] = <<"active", Gone>>  /\ Restores(old)[2] = <<"active", old["active"]>>
         /\ Restores(old)[3] = <<"desired", Gone>> /\ Restores(old)[4] = <<"desired", old["desired"]>>
         /\ Restores(old)[5] = <<"parents", Gone>> /\ Restores(old)[6] = <<"parents", old["parents"]>>
         /\ Restores(old)[7] = <<"notes", Gone>>   /\ Restores(old)[8] = <<"notes", old["notes"]>>
BY DEF Restores, PartNames

LEMMA Names == PartNames[1] = "active" /\ PartNames[2] = "desired"
               /\ PartNames[3] = "parents" /\ PartNames[4] = "notes"
BY DEF PartNames

LEMMA Writes ==
  ASSUME NEW v
  PROVE  /\ WritesOf(v)[1] = <<"active", Gone>> /\ WritesOf(v)[2] = <<"parents", Gone>>
         /\ WritesOf(v)[3] = <<"notes", Gone>>  /\ WritesOf(v)[4] = <<"desired", Gone>>
         /\ WritesOf(v)[5] = <<"parents", v>>   /\ WritesOf(v)[6] = <<"active", v>>
         /\ WritesOf(v)[7] = <<"desired", v>>
         /\ Removals[1] = <<"active", Gone>> /\ Removals[2] = <<"parents", Gone>>
         /\ Removals[3] = <<"notes", Gone>>
BY DEF WritesOf, Removals

\* What the holder of the lock is.
LEMMA Holder ==
  ASSUME StoreTypeOK, NEW w \in Workers, Holds(w)
  PROVE  /\ hold \in [owner : Workers, phase : {"recover", "body", "compensate"}, step : 1 .. 9]
         /\ hold # Free /\ hold.owner = w /\ hold.step \in 1 .. 9
BY DEF StoreTypeOK, Holds

LEMMA Requested ==
  ASSUME StoreTypeOK, NEW w \in Workers
  PROVE  /\ asked[w] \in Requests
         /\ asked[w].op \in {"none", "start", "down", "write", "remove", "search", "parents", "answer"}
         /\ asked[w].op = "none" => asked[w] = NoRequest
         /\ asked[w].op \in {"write", "remove", "search", "parents", "answer"} => asked[w].doc \in Docs
         /\ asked[w].op \in {"parents", "answer"} => asked[w].of \in Versions \cup {Torn}
         /\ asked[w].op = "write" => asked[w].version \in Versions
<1>1. asked[w] \in Requests
  BY DEF StoreTypeOK
<1>. QED
  BY <1>1 DEF Requests, NoRequest

LEMMA Interruption ==
  ASSUME StoreTypeOK, NEW d \in Docs, NEW p \in Parts, NEW v \in Versions \cup {Gone},
         Interrupted(d, <<p, v>>) \/ Put(d, <<p, v>>)
  PROVE  /\ points' \in [Docs -> [Parts -> Versions \cup {Gone, Torn}]]
         /\ \A e \in Docs \ {d} : points'[e] = points[e]
         /\ v = Gone => points' = points \/ points' = [points EXCEPT ![d][p] = Gone]
BY DEF StoreTypeOK, Interrupted, Put

LEMMA ServedFacts ==
  ASSUME OneJournal
  PROVE  /\ DOMAIN Served = Docs
         /\ \A d \in Docs, j \in journals : j.doc = d => Served[d] = j.old
         /\ \A d \in Docs : (\A j \in journals : j.doc # d) => Served[d] = points[d]
<1>1. ASSUME NEW d \in Docs, NEW j \in journals, j.doc = d PROVE Served[d] = j.old
  <2>1. (CHOOSE k \in journals : k.doc = d) = j
    BY <1>1 DEF OneJournal
  <2>. QED
    BY <1>1, <2>1 DEF Served
<1>2. ASSUME NEW d \in Docs, \A j \in journals : j.doc # d PROVE Served[d] = points[d]
  BY <1>2 DEF Served
<1>3. DOMAIN Served = Docs
  BY DEF Served
<1>. QED
  BY <1>1, <1>2, <1>3

-----------------------------------------------------------------------------
(* Types. *)

\* Each restoring write empties a part or gives it its old points.
LEMMA RestorePart ==
  ASSUME NEW old \in Stored, NEW s \in 1 .. 8
  PROVE  \E p \in Parts, v \in Versions \cup {Gone} :
           Restores(old)[s] = <<p, v>> /\ v \in {Gone, old[p]}
BY RestoreWrites DEF Stored, Parts

\* And so does each write of a replacement or of a removal.
LEMMA WriteParts ==
  ASSUME NEW v \in Versions, NEW s \in 1 .. 7
  PROVE  \E p \in Parts, u \in Versions \cup {Gone} : WritesOf(v)[s] = <<p, u>>
BY Writes DEF Parts

LEMMA RemoveParts ==
  ASSUME NEW s \in 1 .. 3
  PROVE  \E p \in Parts : Removals[s] = <<p, Gone>>
<1>1. \E v : TRUE
  OBVIOUS
<1>. QED
  BY <1>1, Writes DEF Parts

Contents == [Docs -> [Parts -> Versions \cup {Gone, Torn}]]

\* What Qdrant holds is of the right type, and only one document changes.
Touches(d) == points' \in Contents /\ \A e \in Docs \ {d} : points'[e] = points[e]

LEMMA Restored ==
  ASSUME StoreTypeOK, NEW j \in journals, NEW s \in 1 .. 8,
         Interrupted(j.doc, Restores(j.old)[s]) \/ Put(j.doc, Restores(j.old)[s])
  PROVE  Touches(j.doc)
<1>1. j.doc \in Docs /\ j.old \in Stored
  BY DEF StoreTypeOK
<1>2. PICK p \in Parts, v \in Versions \cup {Gone} : Restores(j.old)[s] = <<p, v>>
  BY <1>1, RestorePart
<1>. QED
  BY <1>1, <1>2, Interruption DEF Touches, Contents

LEMMA Written ==
  ASSUME StoreTypeOK, NEW d \in Docs, NEW v \in Versions, NEW s \in 1 .. 7,
         Interrupted(d, WritesOf(v)[s]) \/ Put(d, WritesOf(v)[s])
  PROVE  Touches(d)
<1>1. PICK p \in Parts, u \in Versions \cup {Gone} : WritesOf(v)[s] = <<p, u>>
  BY WriteParts
<1>. QED
  BY <1>1, Interruption DEF Touches, Contents

LEMMA PartGone ==
  ASSUME StoreTypeOK, NEW d \in Docs, NEW s \in 1 .. 3,
         Interrupted(d, Removals[s]) \/ Put(d, Removals[s])
  PROVE  /\ Touches(d)
         /\ points' = points \/ points' = [points EXCEPT ![d][Removals[s][1]] = Gone]
<1>1. PICK p \in Parts : Removals[s] = <<p, Gone>>
  BY RemoveParts
<1>2. Interrupted(d, <<p, Gone>>) \/ Put(d, <<p, Gone>>)
  BY <1>1
<1>3. Removals[s][1] = p
  BY <1>1
<1>4. Gone \in Versions \cup {Gone}
  OBVIOUS
<1>. QED
  BY <1>2, <1>3, <1>4, Interruption DEF Touches, Contents

-----------------------------------------------------------------------------
(* What a step does to the store. *)

Quiet   == UNCHANGED <<points, journals>>
Behind  == journals' = journals /\ \E j \in journals : Touches(j.doc)
Saved   == /\ journals = {} /\ points' = points
           /\ \E d \in Docs : journals' = {[doc |-> d, old |-> points[d]]}
Settled == /\ points' = points /\ journals' = {}
           /\ \E j \in journals :
                points[j.doc] = j.old \/ \E v \in Versions : points[j.doc] = Whole(v)
Cut     == /\ journals = {} /\ journals' = {}
           /\ \E d \in Docs, p \in {"active", "parents", "notes"} :
                /\ p # "active" => points[d]["active"] = Gone
                /\ points' = [points EXCEPT ![d][p] = Gone]

Effect == Quiet \/ Behind \/ Saved \/ Settled \/ Cut

\* A document whose parts are all back is the old one.
LEMMA BackIsOld ==
  ASSUME StoreTypeOK, Back, hold # Free, hold.step = 9, NEW j \in journals
  PROVE  points[j.doc] = j.old
<1>1. j.doc \in Docs /\ j.old \in Stored
  BY DEF StoreTypeOK
<1>2. points[j.doc] \in [Parts -> Versions \cup {Gone, Torn}]
  BY <1>1 DEF StoreTypeOK
<1>3. \A m \in 1 .. 4 : points[j.doc][PartNames[m]] = j.old[PartNames[m]]
  BY DEF Back
<1>4. \A p \in Parts : points[j.doc][p] = j.old[p]
  <2>1. points[j.doc]["active"] = j.old["active"] /\ points[j.doc]["desired"] = j.old["desired"]
    BY <1>3, Names
  <2>2. points[j.doc]["parents"] = j.old["parents"] /\ points[j.doc]["notes"] = j.old["notes"]
    BY <1>3, Names
  <2>. QED
    BY <2>1, <2>2 DEF Parts
<1>. QED
  BY <1>1, <1>2, <1>4 DEF Stored

LEMMA CutEffect ==
  ASSUME StoreInv, NEW w \in Workers, Holds(w), hold.phase = "body", asked[w].op = "remove",
         hold.step <= 3, journals' = journals,
         Interrupted(asked[w].doc, Removals[hold.step]) \/ Put(asked[w].doc, Removals[hold.step])
  PROVE  Quiet \/ Cut
<1>. DEFINE d == asked[w].doc
<1>1. hold.step \in 1 .. 3 /\ hold.owner = w /\ hold # Free
  BY Holder DEF StoreInv
<1>2. d \in Docs
  BY Requested DEF StoreInv
<1>3. journals = {} /\ (hold.step >= 2 => points[d]["active"] = Gone)
  BY <1>1 DEF StoreInv, Bodies, Removing
<1>4. points' = points \/ points' = [points EXCEPT ![d][Removals[hold.step][1]] = Gone]
  BY <1>1, <1>2, PartGone DEF StoreInv
<1>5. /\ Removals[hold.step][1] \in {"active", "parents", "notes"}
      /\ hold.step = 1 => Removals[hold.step][1] = "active"
  <2>1. Removals[1][1] = "active" /\ Removals[2][1] = "parents" /\ Removals[3][1] = "notes"
    BY DEF Removals
  <2>. QED
    BY <1>1, <2>1
<1>6. CASE points' = points
  BY <1>6 DEF Quiet
<1>7. CASE points' = [points EXCEPT ![d][Removals[hold.step][1]] = Gone]
  <2>1. Removals[hold.step][1] # "active" => points[d]["active"] = Gone
    BY <1>1, <1>3, <1>5
  <2>. QED
    BY <1>2, <1>3, <1>5, <1>7, <2>1 DEF Cut
<1>. QED
  BY <1>4, <1>6, <1>7

LEMMA WriteEffect ==
  ASSUME StoreInv, NEW w \in Workers, Holds(w), hold.phase = "body", asked[w].op = "write",
         hold.step <= 7, journals' = journals,
         \/ Interrupted(asked[w].doc, WritesOf(asked[w].version)[hold.step])
         \/ Put(asked[w].doc, WritesOf(asked[w].version)[hold.step])
  PROVE  Behind
<1>1. hold.step \in 1 .. 7 /\ hold.owner = w /\ hold # Free
  BY Holder DEF StoreInv
<1>2. asked[w].doc \in Docs /\ asked[w].version \in Versions
  BY Requested DEF StoreInv
<1>3. journals # {} /\ \A j \in journals : j.doc = asked[w].doc
  BY <1>1 DEF StoreInv, Bodies, Writing
<1>4. Touches(asked[w].doc)
  BY <1>1, <1>2, Written DEF StoreInv
<1>. QED
  BY <1>3, <1>4 DEF Behind

LEMMA RestoreEffect ==
  ASSUME StoreInv, NEW w \in Workers, Holds(w), hold.step <= 8, journals' = journals,
         NEW j \in journals,
         Interrupted(j.doc, Restores(j.old)[hold.step]) \/ Put(j.doc, Restores(j.old)[hold.step])
  PROVE  Behind
<1>1. hold.step \in 1 .. 8
  BY Holder DEF StoreInv
<1>2. Touches(j.doc)
  BY <1>1, Restored DEF StoreInv
<1>. QED
  BY <1>2 DEF Behind

LEMMA Effects ==
  ASSUME StoreInv, NEW w \in Workers,
         Ask(w) \/ Acquire(w) \/ Serve(w) \/ StoreFault(w) \/ Restart(w)
  PROVE  Effect
<1>. USE DEF Effect
<1>0. StoreTypeOK /\ OneJournal
  BY DEF StoreInv
<1>1. CASE Ask(w) \/ Acquire(w) \/ Restart(w) \/ StoreBusy(w)
  BY <1>1 DEF Ask, AskWrite, AskRemove, AskSearch, Acquire, Restart, StoreBusy, Quiet
<1>2. CASE Removed(w) \/ ReadPassages(w) \/ ReadParents(w) \/ SearchDone(w)
  BY <1>2 DEF Removed, ReadPassages, ReadParents, SearchDone, Quiet
<1>3. CASE RecoverPart(w) \/ Compensate(w)
  <2>1. Holds(w) /\ hold.step <= 8 /\ journals' = journals
    BY <1>3 DEF RecoverPart, Compensate
  <2>2. \E j \in journals : Put(j.doc, Restores(j.old)[hold.step])
    BY <1>3 DEF RecoverPart, Compensate
  <2>. QED
    BY <2>1, <2>2, RestoreEffect
<1>4. CASE RecoverDone(w) \/ Compensated(w)
  <2>1. Holds(w) /\ hold.phase \in {"recover", "compensate"} /\ hold.step = 9 /\ points' = points
    BY <1>4 DEF RecoverDone, Compensated
  <2>2. hold # Free /\ hold.owner = w /\ Back
    BY <2>1 DEF StoreInv, Bodies, Restoring, Holds
  <2>3. journals # {} /\ journals' = {}
    <3>1. CASE RecoverDone(w)
      BY <3>1, <1>0 DEF RecoverDone, OneJournal
    <3>2. CASE Compensated(w)
      BY <3>2, <2>2 DEF Compensated, StoreInv, Bodies, Compensating
    <3>. QED
      BY <1>4, <3>1, <3>2
  <2>. QED
    BY <1>0, <2>1, <2>2, <2>3, BackIsOld DEF Settled
<1>5. CASE Enter(w)
  <2>1. points' = points
    BY <1>5 DEF Enter
  <2>2. CASE asked[w].op = "write"
    <3>1. journals = {} /\ journals' = {[doc |-> asked[w].doc, old |-> points[asked[w].doc]]}
      BY <1>5, <2>2 DEF Enter, Recovered
    <3>. QED
      BY <1>0, <2>1, <2>2, <3>1, Requested DEF Saved
  <2>3. CASE asked[w].op # "write"
    BY <1>5, <2>1, <2>3 DEF Enter, Quiet
  <2>. QED
    BY <2>2, <2>3
<1>6. CASE WritePart(w)
  BY <1>6, WriteEffect DEF WritePart, InBody
<1>7. CASE CommitWrite(w)
  <2>1. Holds(w) /\ hold.phase = "body" /\ asked[w].op = "write" /\ hold.step = 8
        /\ points' = points /\ journals' = {}
    BY <1>7 DEF CommitWrite, InBody
  <2>2. hold # Free /\ hold.owner = w
    BY <2>1 DEF Holds
  <2>3. asked[w].doc \in Docs /\ asked[w].version \in Versions
    BY <1>0, <2>1, Requested
  <2>. DEFINE c == points[asked[w].doc]
              v == asked[w].version
  <2>4. journals # {} /\ \A j \in journals : j.doc = asked[w].doc
    BY <2>1, <2>2 DEF StoreInv, Bodies, Writing
  <2>5. c["notes"] = Gone /\ c["parents"] = v /\ c["active"] = v /\ c["desired"] = v
    BY <2>1, <2>2 DEF StoreInv, Bodies, Writing
  <2>6. c \in [Parts -> Versions \cup {Gone, Torn}]
    BY <1>0, <2>3 DEF StoreTypeOK
  <2>7. c = Whole(v)
    <3>1. \A p \in Parts : c[p] = IF p = "notes" THEN Gone ELSE v
      BY <2>5 DEF Parts
    <3>2. c = [p \in Parts |-> c[p]]
      BY <2>6
    <3>. QED
      BY <3>1, <3>2 DEF Whole
  <2>. QED
    BY <2>1, <2>3, <2>4, <2>7 DEF Settled
<1>8. CASE RemovePart(w)
  BY <1>8, CutEffect DEF RemovePart, InBody
<1>9. CASE WriteFails(w)
  <2>1. Holds(w) /\ hold.phase = "body" /\ asked[w].op = "write" /\ journals' = journals
    BY <1>9 DEF WriteFails, InBody
  <2>2. CASE hold.step <= 7
    <3>1. Interrupted(asked[w].doc, WritesOf(asked[w].version)[hold.step])
      BY <1>9, <2>2 DEF WriteFails
    <3>. QED
      BY <2>1, <2>2, <3>1, WriteEffect
  <2>3. CASE ~(hold.step <= 7)
    BY <1>9, <2>1, <2>3 DEF WriteFails, Quiet
  <2>. QED
    BY <2>2, <2>3
<1>10. CASE RestoreFails(w)
  <2>1. Holds(w) /\ hold.step <= 8 /\ journals' = journals
    BY <1>10 DEF RestoreFails
  <2>2. \E j \in journals : Interrupted(j.doc, Restores(j.old)[hold.step])
    BY <1>10 DEF RestoreFails
  <2>. QED
    BY <2>1, <2>2, RestoreEffect
<1>11. CASE BodyFails(w)
  <2>1. Holds(w) /\ hold.phase = "body" /\ journals' = journals
    BY <1>11 DEF BodyFails
  <2>2. CASE asked[w].op = "remove" /\ hold.step <= 3
    <3>1. Interrupted(asked[w].doc, Removals[hold.step])
      BY <1>11, <2>2 DEF BodyFails
    <3>. QED
      BY <2>1, <2>2, <3>1, CutEffect
  <2>3. CASE ~(asked[w].op = "remove" /\ hold.step <= 3)
    BY <1>11, <2>1, <2>3 DEF BodyFails, Quiet
  <2>. QED
    BY <2>2, <2>3
<1>12. CASE ReplicaDies(w)
  <2>1. journals' = journals
    BY <1>12 DEF ReplicaDies
  <2>2. CASE points' = points
    BY <2>1, <2>2 DEF Quiet
  <2>3. CASE points' # points
    <3>1. Holds(w) /\ \E n \in NextWrite(w) : Interrupted(n[1], n[2])
      BY <1>12, <2>3 DEF ReplicaDies
    <3>2. PICK n \in NextWrite(w) : Interrupted(n[1], n[2])
      BY <3>1
    <3>3. CASE hold.phase = "body" /\ asked[w].op = "write" /\ hold.step <= 7
      <4>1. n = <<asked[w].doc, WritesOf(asked[w].version)[hold.step]>>
        BY <3>2, <3>3 DEF NextWrite
      <4>. QED
        BY <2>1, <3>1, <3>2, <3>3, <4>1, WriteEffect
    <3>4. CASE hold.phase = "body" /\ asked[w].op = "remove" /\ hold.step <= 3
      <4>1. n = <<asked[w].doc, Removals[hold.step]>>
        BY <3>2, <3>4 DEF NextWrite
      <4>. QED
        BY <2>1, <3>1, <3>2, <3>4, <4>1, CutEffect
    <3>5. CASE hold.phase \in {"recover", "compensate"} /\ hold.step <= 8
      <4>1. PICK j \in journals : n = <<j.doc, Restores(j.old)[hold.step]>>
        BY <3>2, <3>5 DEF NextWrite
      <4>. QED
        BY <2>1, <3>1, <3>2, <3>5, <4>1, RestoreEffect
    <3>. QED
      BY <3>2, <3>3, <3>4, <3>5 DEF NextWrite
  <2>. QED
    BY <2>2, <2>3
<1>. QED
  BY <1>1, <1>2, <1>3, <1>4, <1>5, <1>6, <1>7, <1>8, <1>9, <1>10, <1>11, <1>12 DEF Serve, StoreFault

LEMMA StoreTypeStep ==
  ASSUME StoreInv, NEW w \in Workers,
         Ask(w) \/ Acquire(w) \/ Serve(w) \/ StoreFault(w) \/ Restart(w)
  PROVE  StoreTypeOK'
<1>0. StoreTypeOK /\ Effect
  BY Effects DEF StoreInv
<1>1. points' \in Contents
  <2>1. points \in Contents
    BY <1>0 DEF StoreTypeOK, Contents
  <2>2. CASE Cut
    <3>1. PICK d \in Docs, p \in {"active", "parents", "notes"} :
            points' = [points EXCEPT ![d][p] = Gone]
      BY <2>2 DEF Cut
    <3>. QED
      BY <2>1, <3>1 DEF Contents, Parts
  <2>. QED
    BY <1>0, <2>1, <2>2 DEF Effect, Quiet, Behind, Saved, Settled, Touches
<1>2. journals' \in SUBSET [doc : Docs, old : Stored]
  <2>1. journals \in SUBSET [doc : Docs, old : Stored]
    BY <1>0 DEF StoreTypeOK
  <2>2. CASE Saved
    <3>1. PICK d \in Docs : journals = {} /\ journals' = {[doc |-> d, old |-> points[d]]}
      BY <2>2 DEF Saved
    <3>2. points[d] \in [Parts -> Versions \cup {Gone, Torn}] /\ \A p \in Parts : points[d][p] # Torn
      BY <1>0, <3>1 DEF StoreTypeOK, StoreInv, Soundness, Sound
    <3>3. points[d] \in Stored
      BY <3>2 DEF Stored
    <3>. QED
      BY <3>1, <3>3
  <2>. QED
    BY <1>0, <2>1, <2>2 DEF Effect, Quiet, Behind, Settled, Cut
<1>3. asked' \in [Workers -> Requests]
  <2>1. asked \in [Workers -> Requests]
    BY <1>0 DEF StoreTypeOK
  <2>2. NoRequest \in Requests /\ [op |-> "down"] \in Requests /\ [op |-> "start"] \in Requests
    BY DEF Requests
  <2>3. ASSUME NEW d \in Docs, AskWrite(w, d) \/ AskRemove(w, d) \/ AskSearch(w, d)
        PROVE  asked' \in [Workers -> Requests]
    <3>1. /\ [op |-> "remove", doc |-> d] \in Requests /\ [op |-> "search", doc |-> d] \in Requests
          /\ writes < MaxWrites => [op |-> "write", doc |-> d, version |-> writes + 1] \in Requests
      BY <1>0 DEF Requests, Versions, StoreTypeOK
    <3>. QED
      BY <2>1, <2>3, <3>1 DEF AskWrite, AskRemove, AskSearch
  <2>4. CASE Restart(w)
    BY <2>1, <2>2, <2>4 DEF Restart
  <2>5. CASE Acquire(w)
    BY <2>1, <2>5 DEF Acquire
  <2>6. CASE Serve(w) /\ ~ReadPassages(w) /\ ~ReadParents(w)
    BY <2>1, <2>2, <2>6 DEF Serve, RecoverPart, RecoverDone, Enter, WritePart, CommitWrite,
       RemovePart, Removed, SearchDone, Compensate, Compensated
  <2>8. CASE ReadPassages(w)
    <3>. DEFINE d == asked[w].doc
                v == points[d]["active"]
    <3>1. d \in Docs
      BY <1>0, <2>8, Requested DEF ReadPassages, InBody
    <3>2. v \in Versions \cup {Gone, Torn}
      BY <1>0, <3>1 DEF StoreTypeOK, Parts
    <3>3. v # Gone => [op |-> "parents", doc |-> d, of |-> v] \in Requests
      BY <3>1, <3>2 DEF Requests
    <3>. HIDE DEF d, v
    <3>4. asked' = [asked EXCEPT ![w] = IF v = Gone THEN NoRequest ELSE [op |-> "parents", doc |-> d, of |-> v]]
      BY <2>8 DEF ReadPassages, d, v
    <3>. QED
      BY <2>1, <2>2, <3>3, <3>4
  <2>9. CASE ReadParents(w)
    <3>. DEFINE d == asked[w].doc
                v == asked[w].of
                u == FoundBy(v, points[d]["parents"])
    <3>1. d \in Docs /\ v \in Versions \cup {Torn}
      BY <1>0, <2>9, Requested DEF ReadParents, InBody
    <3>2. u \in Versions \cup {Gone, Torn}
      BY <1>0, <3>1 DEF FoundBy
    <3>3. [op |-> "answer", doc |-> d, of |-> v, found |-> u] \in Requests
      <4>. HIDE DEF d, v, u
      <4>. QED
        BY <3>1, <3>2 DEF Requests
    <3>4. asked' = [asked EXCEPT ![w] = [op |-> "answer", doc |-> d, of |-> v, found |-> u]]
      BY <2>9 DEF ReadParents
    <3>. HIDE DEF d, v, u
    <3>. QED
      BY <2>1, <3>3, <3>4
  <2>7. CASE StoreFault(w)
    BY <2>1, <2>2, <2>7 DEF StoreFault, StoreBusy, WriteFails, RestoreFails, BodyFails, ReplicaDies
  <2>. QED
    BY <2>3, <2>4, <2>5, <2>6, <2>7, <2>8, <2>9 DEF Ask
<1>4. hold' = Free \/ hold' \in [owner : Workers, phase : {"recover", "body", "compensate"}, step : 1 .. 9]
  <2>1. CASE hold' = hold
    BY <1>0, <2>1 DEF StoreTypeOK
  <2>2. CASE Acquire(w)
    BY <2>2 DEF Acquire
  <2>3. CASE Holds(w)
    <3>1. hold \in [owner : Workers, phase : {"recover", "body", "compensate"}, step : 1 .. 9]
      BY <1>0, <2>3, Holder
    <3>2. CASE Ask(w)
      BY <2>1, <3>2 DEF Ask, AskWrite, AskRemove, AskSearch
    <3>3. CASE Serve(w)
      BY <3>1, <3>3 DEF Serve, RecoverPart, RecoverDone, Enter, WritePart, CommitWrite, InBody,
         RemovePart, Removed, ReadPassages, ReadParents, SearchDone, Compensate, Compensated, Unlock
    <3>4. CASE StoreFault(w)
      <4>1. CASE WriteFails(w)
        <5>1. hold' = [owner |-> hold.owner, phase |-> "compensate", step |-> 1]
          BY <3>1, <4>1 DEF WriteFails
        <5>. QED
          BY <3>1, <5>1
      <4>2. hold' = Free \/ hold' = hold \/ WriteFails(w)
        BY <3>4 DEF StoreFault, StoreBusy, RestoreFails, BodyFails, ReplicaDies, Unlock
      <4>. QED
        BY <2>1, <4>1, <4>2
    <3>. QED
      BY <2>1, <2>2, <3>2, <3>3, <3>4 DEF Restart
  <2>4. CASE ~Holds(w)
    <3>1. ~Serve(w)
      BY <2>4 DEF Serve, RecoverPart, RecoverDone, Enter, WritePart, CommitWrite, InBody,
         RemovePart, Removed, ReadPassages, ReadParents, SearchDone, Compensate, Compensated
    <3>2. StoreFault(w) => hold' = hold
      BY <2>4 DEF StoreFault, StoreBusy, WriteFails, RestoreFails, BodyFails, ReplicaDies, InBody
    <3>. QED
      BY <2>1, <2>2, <3>1, <3>2 DEF Ask, AskWrite, AskRemove, AskSearch, Restart
  <2>. QED
    BY <2>3, <2>4
<1>5. /\ writes' \in 0 .. MaxWrites /\ removals' \in 0 .. MaxRemovals
      /\ reads' \in 0 .. MaxReads /\ troubles' \in 0 .. MaxTroubles
  <2>1. /\ writes \in 0 .. MaxWrites /\ removals \in 0 .. MaxRemovals
        /\ reads \in 0 .. MaxReads /\ troubles \in 0 .. MaxTroubles
    BY <1>0 DEF StoreTypeOK
  <2>2. CASE Ask(w)
    BY <2>1, <2>2, Bounds DEF Ask, AskWrite, AskRemove, AskSearch
  <2>3. CASE Serve(w)
    BY <2>1, <2>3 DEF Serve, RecoverPart, RecoverDone, Enter, WritePart, CommitWrite,
       RemovePart, Removed, ReadPassages, ReadParents, SearchDone, Compensate, Compensated, NoTrouble
  <2>4. CASE StoreFault(w)
    BY <2>1, <2>4, Bounds DEF StoreFault, StoreBusy, WriteFails, RestoreFails, BodyFails,
       ReplicaDies, Trouble
  <2>5. CASE Acquire(w) \/ Restart(w)
    BY <2>1, <2>5 DEF Acquire, Restart
  <2>. QED
    BY <2>2, <2>3, <2>4, <2>5
<1>. QED
  BY <1>1, <1>2, <1>3, <1>4, <1>5 DEF StoreTypeOK, Contents

-----------------------------------------------------------------------------
(* What is served. *)

LEMMA SoundStep ==
  ASSUME StoreInv, Effect
  PROVE  OneJournal' /\ Soundness'
<1>0. StoreTypeOK /\ OneJournal /\ Soundness
  BY DEF StoreInv
<1>1. CASE Quiet
  BY <1>0, <1>1 DEF Quiet, OneJournal, Soundness, Sound
<1>2. CASE Behind
  <2>1. PICK j \in journals : Touches(j.doc) /\ journals' = journals
    BY <1>2 DEF Behind
  <2>2. OneJournal' /\ \A i \in journals' : Sound(i.old)
    BY <1>0, <2>1 DEF OneJournal, Soundness
  <2>3. ASSUME NEW d \in Docs, \A i \in journals' : i.doc # d PROVE Sound(points'[d])
    BY <1>0, <2>1, <2>3 DEF Touches, Soundness
  <2>. QED
    BY <2>2, <2>3 DEF Soundness, Sound
<1>3. CASE Saved
  <2>1. PICK d \in Docs : journals' = {[doc |-> d, old |-> points[d]]}
    BY <1>3 DEF Saved
  <2>2. \A e \in Docs : Sound(points[e])
    BY <1>0, <1>3 DEF Saved, Soundness
  <2>3. OneJournal' /\ \A i \in journals' : Sound(i.old)
    BY <2>1, <2>2 DEF OneJournal
  <2>. QED
    BY <1>3, <2>2, <2>3 DEF Saved, Soundness, Sound
<1>4. CASE Settled
  <2>1. PICK j \in journals : points[j.doc] = j.old \/ \E v \in Versions : points[j.doc] = Whole(v)
    BY <1>4 DEF Settled
  <2>2. Sound(points[j.doc])
    <3>1. ASSUME NEW v \in Versions PROVE Sound(Whole(v))
      BY Bounds DEF Sound, Whole, Parts
    <3>. QED
      BY <1>0, <2>1, <3>1 DEF Soundness
  <2>3. \A d \in Docs : Sound(points[d])
    BY <1>0, <2>2 DEF OneJournal, Soundness
  <2>. QED
    BY <1>4, <2>3 DEF Settled, OneJournal, Soundness, Sound
<1>5. CASE Cut
  <2>1. PICK d \in Docs, p \in {"active", "parents", "notes"} :
          /\ p # "active" => points[d]["active"] = Gone
          /\ points' = [points EXCEPT ![d][p] = Gone]
    BY <1>5 DEF Cut
  <2>2. \A e \in Docs : Sound(points[e])
    BY <1>0, <1>5 DEF Cut, Soundness
  <2>3. points[d] \in [Parts -> Versions \cup {Gone, Torn}] /\ points \in Contents
    BY <1>0 DEF StoreTypeOK, Contents
  <2>4. points'[d] = [points[d] EXCEPT ![p] = Gone] /\ \A e \in Docs \ {d} : points'[e] = points[e]
    BY <2>1, <2>3 DEF Contents
  <2>5. Sound(points'[d])
    BY <2>1, <2>2, <2>3, <2>4, Bounds DEF Sound, Parts
  <2>6. \A e \in Docs : Sound(points'[e])
    BY <2>2, <2>4, <2>5
  <2>. QED
    BY <1>5, <2>6 DEF Cut, OneJournal, Soundness, Sound
<1>. QED
  BY <1>1, <1>2, <1>3, <1>4, <1>5 DEF Effect

LEMMA ServedStep ==
  ASSUME StoreInv, Effect
  PROVE  Store!DocNext \/ Served' = Served
<1>0. StoreTypeOK /\ OneJournal /\ OneJournal'
  BY SoundStep DEF StoreInv
<1>1. Served = [d \in Docs |-> Served[d]] /\ Served' = [d \in Docs |-> Served'[d]]
  BY DEF Served
<1>2. /\ \A d \in Docs, j \in journals : j.doc = d => Served[d] = j.old
      /\ \A d \in Docs : (\A j \in journals : j.doc # d) => Served[d] = points[d]
  BY <1>0, ServedFacts
<1>3. /\ \A d \in Docs, j \in journals' : j.doc = d => Served'[d] = j.old
      /\ \A d \in Docs : (\A j \in journals' : j.doc # d) => Served'[d] = points'[d]
  <2>1. ASSUME NEW d \in Docs, NEW j \in journals', j.doc = d PROVE Served'[d] = j.old
    <3>1. (CHOOSE k \in journals' : k.doc = d) = j
      BY <1>0, <2>1 DEF OneJournal
    <3>. QED
      BY <2>1, <3>1 DEF Served
  <2>2. ASSUME NEW d \in Docs, \A j \in journals' : j.doc # d PROVE Served'[d] = points'[d]
    BY <2>2 DEF Served
  <2>. QED
    BY <2>1, <2>2
<1>4. ASSUME \A d \in Docs : Served'[d] = Served[d] PROVE Served' = Served
  BY <1>1, <1>4
<1>5. CASE Quiet
  BY <1>5 DEF Quiet, Served
<1>6. CASE Behind
  <2>1. PICK j \in journals : Touches(j.doc) /\ journals' = journals
    BY <1>6 DEF Behind
  <2>2. ASSUME NEW d \in Docs PROVE Served'[d] = Served[d]
    <3>1. CASE j.doc = d
      BY <1>2, <1>3, <2>1, <3>1
    <3>2. CASE j.doc # d
      <4>1. (\A i \in journals : i.doc # d) /\ points'[d] = points[d]
        BY <1>0, <2>1, <3>2 DEF OneJournal, Touches
      <4>. QED
        BY <1>2, <1>3, <2>1, <4>1
    <3>. QED
      BY <3>1, <3>2
  <2>. QED
    BY <1>4, <2>2
<1>7. CASE Saved
  <2>1. PICK c \in Docs : journals' = {[doc |-> c, old |-> points[c]]}
    BY <1>7 DEF Saved
  <2>2. ASSUME NEW d \in Docs PROVE Served'[d] = Served[d]
    <3>1. Served[d] = points[d]
      BY <1>2, <1>7 DEF Saved
    <3>2. CASE c = d
      BY <1>3, <2>1, <3>1, <3>2
    <3>3. CASE c # d
      BY <1>3, <1>7, <2>1, <3>1, <3>3 DEF Saved
    <3>. QED
      BY <3>2, <3>3
  <2>. QED
    BY <1>4, <2>2
<1>8. CASE Settled
  <2>1. PICK j \in journals : points[j.doc] = j.old \/ \E v \in Versions : points[j.doc] = Whole(v)
    BY <1>8 DEF Settled
  <2>2. j.doc \in Docs
    BY <1>0 DEF StoreTypeOK
  <2>3. \A d \in Docs : Served'[d] = points[d]
    BY <1>3, <1>8 DEF Settled
  <2>4. \A d \in Docs \ {j.doc} : Served[d] = points[d]
    BY <1>0, <1>2 DEF OneJournal
  <2>5. CASE points[j.doc] = j.old
    BY <1>2, <1>4, <2>2, <2>3, <2>4, <2>5
  <2>6. ASSUME NEW v \in Versions, points[j.doc] = Whole(v) PROVE Store!DocNext
    <3>1. Served' = [Served EXCEPT ![j.doc] = Whole(v)]
      BY <1>1, <2>2, <2>3, <2>4, <2>6
    <3>2. Store!Replace(j.doc, v)
      BY <3>1 DEF Store!Replace, Store!Whole, Whole, Store!Parts, Parts, Store!Gone, Gone
    <3>. QED
      BY <2>2, <3>2 DEF Store!DocNext
  <2>. QED
    BY <2>1, <2>5, <2>6
<1>9. CASE Cut
  <2>1. PICK d \in Docs, p \in {"active", "parents", "notes"} :
          /\ p # "active" => points[d]["active"] = Gone
          /\ points' = [points EXCEPT ![d][p] = Gone]
    BY <1>9 DEF Cut
  <2>2. \A e \in Docs : Served[e] = points[e] /\ Served'[e] = points'[e]
    BY <1>2, <1>3, <1>9 DEF Cut
  <2>3. points \in Contents
    BY <1>0 DEF StoreTypeOK, Contents
  <2>4. Served = points /\ Served' = points'
    BY <1>1, <2>1, <2>2, <2>3 DEF Contents
  <2>5. Store!Remove(d, p)
    BY <2>1, <2>4 DEF Store!Remove, Store!Gone, Gone
  <2>. QED
    BY <2>5 DEF Store!DocNext, Store!Parts
<1>. QED
  BY <1>5, <1>6, <1>7, <1>8, <1>9 DEF Effect

-----------------------------------------------------------------------------
(* The holder of the lock. *)

\* Steps that do not move the holder leave it where it is.
LEMMA Bystander ==
  ASSUME StoreInv, hold' = hold, UNCHANGED <<points, journals>>,
         hold # Free => asked'[hold.owner] = asked[hold.owner]
  PROVE  Bodies'
BY DEF StoreInv, Bodies, Restoring, Back, Compensating, Writing, Removing, Reading

\* One more restoring write brings no part back out of place.
LEMMA BackStep ==
  ASSUME StoreInv, NEW w \in Workers, Holds(w), hold.phase \in {"recover", "compensate"},
         hold.step <= 8, NEW j \in journals, Put(j.doc, Restores(j.old)[hold.step]),
         hold' = [hold EXCEPT !.step = @ + 1], journals' = journals
  PROVE  Back'
<1>0. /\ hold.step \in 1 .. 8 /\ hold' # Free /\ hold'.step = hold.step + 1
      /\ StoreTypeOK /\ OneJournal /\ Back
  BY Holder DEF StoreInv, Bodies, Restoring, Free
<1>1. j.doc \in Docs /\ j.old \in Stored /\ \A i \in journals' : i = j
  BY <1>0 DEF StoreTypeOK, OneJournal
<1>2. points \in Contents
  BY <1>0 DEF StoreTypeOK, Contents
<1>3. \A m \in 1 .. 4 : 2 * m < hold.step => points[j.doc][PartNames[m]] = j.old[PartNames[m]]
  BY <1>0 DEF Back
<1>4. ASSUME NEW m \in 1 .. 4, 2 * m < hold.step + 1
      PROVE  points'[j.doc][PartNames[m]] = j.old[PartNames[m]]
  <2>1. \A n \in 1 .. 4 : PartNames[n] \in Parts
    BY Names DEF Parts
  <2>2. \A k, n \in 1 .. 4 : PartNames[k] = PartNames[n] => k = n
    BY Names
  <2>3. PICK n \in 1 .. 4 : /\ Restores(j.old)[hold.step][1] = PartNames[n]
                            /\ hold.step = 2 * n - 1 \/ hold.step = 2 * n
                            /\ hold.step = 2 * n => Restores(j.old)[hold.step][2] = j.old[PartNames[n]]
    <3>1. CASE hold.step \in {1, 2}
      BY <3>1, RestoreWrites, Names
    <3>2. CASE hold.step \in {3, 4}
      BY <3>2, RestoreWrites, Names
    <3>3. CASE hold.step \in {5, 6}
      BY <3>3, RestoreWrites, Names
    <3>4. CASE hold.step \in {7, 8}
      BY <3>4, RestoreWrites, Names
    <3>. QED
      BY <1>0, <3>1, <3>2, <3>3, <3>4
  <2>. DEFINE q == Restores(j.old)[hold.step][1]
              u == Restores(j.old)[hold.step][2]
  <2>4. points'[j.doc] = [points[j.doc] EXCEPT ![q] = u]
    BY <1>1, <1>2 DEF Put, Contents
  <2>5. points[j.doc] \in [Parts -> Versions \cup {Gone, Torn}]
    BY <1>1, <1>2 DEF Contents
  <2>6. \A r \in Parts : points'[j.doc][r] = IF r = q THEN u ELSE points[j.doc][r]
    BY <2>4, <2>5
  <2>7. q = PartNames[n] /\ (hold.step = 2 * n => u = j.old[PartNames[n]])
    BY <2>3
  <2>. HIDE DEF q, u
  <2>8. CASE m = n
    BY <1>0, <1>4, <2>1, <2>3, <2>6, <2>7, <2>8
  <2>9. CASE m # n
    <3>1. 2 * m < hold.step
      BY <1>0, <1>4, <2>3, <2>9
    <3>. QED
      BY <1>3, <2>1, <2>2, <2>6, <2>7, <2>9, <3>1
  <2>. QED
    BY <2>8, <2>9
<1>. QED
  BY <1>0, <1>1, <1>4 DEF Back

LEMMA WritingStep ==
  ASSUME StoreInv, NEW w \in Workers, WritePart(w)
  PROVE  Writing'
<1>0. /\ hold.step \in 1 .. 7 /\ hold # Free /\ hold.owner = w /\ hold.phase = "body"
      /\ asked[w].op = "write" /\ UNCHANGED <<asked, journals>>
      /\ hold'.step = hold.step + 1 /\ hold'.owner = w
  BY Holder DEF StoreInv, WritePart, InBody
<1>. DEFINE d == asked[w].doc
            v == asked[w].version
<1>1. d \in Docs /\ v \in Versions
  BY <1>0, Requested DEF StoreInv
<1>2. /\ journals # {} /\ \A j \in journals : j.doc = d
      /\ hold.step >= 4 => points[d]["notes"] = Gone
      /\ hold.step >= 6 => points[d]["parents"] = v
      /\ hold.step >= 7 => points[d]["active"] = v
  BY <1>0 DEF StoreInv, Bodies, Writing
<1>3. points[d] \in [Parts -> Versions \cup {Gone, Torn}] /\ points \in Contents
  BY <1>1 DEF StoreInv, StoreTypeOK, Contents
<1>. DEFINE q == WritesOf(v)[hold.step][1]
            u == WritesOf(v)[hold.step][2]
<1>4. points' = [points EXCEPT ![d][q] = u]
  BY DEF WritePart, Put
<1>5. /\ hold.step = 3 => q = "notes" /\ u = Gone
      /\ hold.step = 4 => q = "desired" /\ u = Gone
      /\ hold.step = 5 => q = "parents" /\ u = v
      /\ hold.step = 6 => q = "active" /\ u = v
      /\ hold.step = 7 => q = "desired" /\ u = v
  BY Writes
<1>. HIDE DEF q, u
<1>6. points'[d] = [points[d] EXCEPT ![q] = u]
  BY <1>1, <1>3, <1>4 DEF Contents
<1>7. \A r \in Parts : points'[d][r] = IF r = q THEN u ELSE points[d][r]
  BY <1>3, <1>6
<1>. HIDE DEF d, v
<1>8. hold.step >= 3 => points'[d]["notes"] = Gone
  BY <1>0, <1>2, <1>5, <1>7 DEF Parts
<1>9. hold.step >= 5 => points'[d]["parents"] = v
  BY <1>0, <1>2, <1>5, <1>7 DEF Parts
<1>10. hold.step >= 6 => points'[d]["active"] = v
  BY <1>0, <1>2, <1>5, <1>7 DEF Parts
<1>11. hold.step >= 7 => points'[d]["desired"] = v
  BY <1>0, <1>2, <1>5, <1>7 DEF Parts
<1>. QED
  BY <1>0, <1>2, <1>8, <1>9, <1>10, <1>11 DEF Writing, d, v

LEMMA RemovingStep ==
  ASSUME StoreInv, NEW w \in Workers, RemovePart(w)
  PROVE  Removing'
<1>0. /\ hold.step \in 1 .. 3 /\ hold # Free /\ hold.owner = w /\ hold.phase = "body"
      /\ asked[w].op = "remove" /\ UNCHANGED <<asked, journals>>
      /\ hold'.step = hold.step + 1 /\ hold'.owner = w
  BY Holder DEF StoreInv, RemovePart, InBody
<1>. DEFINE d == asked[w].doc
<1>1. d \in Docs /\ journals = {} /\ (hold.step >= 2 => points[d]["active"] = Gone)
  BY <1>0, Requested DEF StoreInv, Bodies, Removing
<1>2. points[d] \in [Parts -> Versions \cup {Gone, Torn}] /\ points \in Contents
  BY <1>1 DEF StoreInv, StoreTypeOK, Contents
<1>3. points' = [points EXCEPT ![d][Removals[hold.step][1]] = Gone]
  <2>1. Removals[hold.step][2] = Gone
    BY <1>0, Writes
  <2>. QED
    BY <2>1 DEF RemovePart, Put
<1>4. points'[d] = [points[d] EXCEPT ![Removals[hold.step][1]] = Gone]
  BY <1>1, <1>2, <1>3 DEF Contents
<1>5. hold.step = 1 => Removals[hold.step][1] = "active"
  BY Writes
<1>6. points'[d]["active"] = Gone
  BY <1>0, <1>1, <1>2, <1>4, <1>5 DEF Parts
<1>. QED
  BY <1>0, <1>1, <1>6 DEF Removing

LEMMA BodiesStep ==
  ASSUME StoreInv, NEW w \in Workers,
         Ask(w) \/ Acquire(w) \/ Serve(w) \/ StoreFault(w) \/ Restart(w)
  PROVE  Bodies'
<1>. DEFINE In(phase) == hold' # Free /\ hold'.owner = w /\ hold'.phase = phase
            Same == asked' = asked /\ asked[w].op \notin {"none", "down"}
<1>0. StoreTypeOK /\ OneJournal
  BY DEF StoreInv
<1>1. CASE hold' = Free
  BY <1>1 DEF Bodies
<1>2. ASSUME hold' = hold, UNCHANGED <<points, journals>>,
             asked' = [asked EXCEPT ![w] = asked'[w]], ~Holds(w)
      PROVE  Bodies'
  BY <1>2, Bystander DEF Holds, StoreInv, StoreTypeOK
<1>3. asked \in [Workers -> Requests] /\ (Holds(w) => asked[w].op \notin {"none", "down"})
  BY DEF StoreInv, StoreTypeOK, Bodies, Holds
<1>4. CASE Ask(w) \/ Restart(w)
  <2>1. asked[w].op \in {"none", "down"} /\ hold' = hold /\ UNCHANGED <<points, journals>>
    BY <1>4 DEF Ask, AskWrite, AskRemove, AskSearch, Restart, NoRequest
  <2>2. asked' = [asked EXCEPT ![w] = asked'[w]]
    BY <1>3, <1>4 DEF Ask, AskWrite, AskRemove, AskSearch, Restart
  <2>. QED
    BY <1>2, <1>3, <2>1, <2>2
<1>5. CASE StoreBusy(w) \/ (ReplicaDies(w) /\ ~Holds(w))
  <2>1. ~Holds(w) /\ hold' = hold /\ UNCHANGED <<points, journals>>
    BY <1>5 DEF StoreBusy, ReplicaDies, Holds
  <2>2. asked' = [asked EXCEPT ![w] = asked'[w]]
    BY <1>3, <1>5 DEF StoreBusy, ReplicaDies
  <2>. QED
    BY <1>2, <2>1, <2>2
<1>6. CASE Acquire(w) \/ RecoverDone(w)
  <2>1. In("recover") /\ hold'.step = 1 /\ Same
    BY <1>0, <1>3, <1>6, Holder DEF Acquire, RecoverDone, Free
  <2>2. Back'
    BY <2>1 DEF Back
  <2>. QED
    BY <2>1, <2>2 DEF Bodies, Restoring, Compensating, Writing, Removing, Reading
<1>7. CASE RecoverPart(w) \/ Compensate(w)
  <2>1. /\ Holds(w) /\ hold.step <= 8 /\ hold' = [hold EXCEPT !.step = @ + 1]
        /\ hold.phase \in {"recover", "compensate"} /\ journals' = journals /\ asked' = asked
    BY <1>7 DEF RecoverPart, Compensate
  <2>2. \E j \in journals : Put(j.doc, Restores(j.old)[hold.step])
    BY <1>7 DEF RecoverPart, Compensate
  <2>3. Back'
    BY <2>1, <2>2, BackStep
  <2>4. hold' # Free /\ hold'.owner = w /\ hold'.phase = hold.phase /\ hold.owner = w
    BY <1>0, <2>1, Holder DEF Free
  <2>5. Compensating'
    BY <2>1, <2>4 DEF StoreInv, Bodies, Compensating, Holds
  <2>. QED
    BY <1>3, <2>1, <2>3, <2>4, <2>5 DEF Bodies, Restoring, Writing, Removing, Reading
<1>8. CASE Enter(w) /\ hold' # Free
  <2>1. asked[w].op # "start" /\ asked' = asked /\ journals = {}
    BY <1>8 DEF Enter, Unlock, Recovered
  <2>2. In("body") /\ hold'.step = 1 /\ Same
    BY <1>0, <1>3, <1>8, <2>1, Holder DEF Enter
  <2>3. Writing'
    <3>1. asked[w].op = "write" =>
            journals' = journals \cup {[doc |-> asked[w].doc, old |-> points[asked[w].doc]]}
      BY <1>8, <2>1 DEF Enter
    <3>2. ASSUME asked[w].op = "write"
          PROVE  journals' # {} /\ \A j \in journals' : j.doc = asked[w].doc
      <4>1. journals' = {[doc |-> asked[w].doc, old |-> points[asked[w].doc]]}
        BY <2>1, <3>1, <3>2
      <4>. QED
        BY <4>1
    <3>. QED
      BY <2>2, <3>2 DEF Writing
  <2>4. asked[w].op # "write" => journals' = {}
    BY <1>8, <2>1 DEF Enter
  <2>. QED
    BY <2>1, <2>2, <2>3, <2>4 DEF Bodies, Restoring, Compensating, Removing, Reading
<1>9. CASE WritePart(w) \/ RemovePart(w)
  <2>1. In("body") /\ Same /\ asked[w].op \in {"write", "remove"}
    BY <1>0, <1>3, <1>9, Holder DEF WritePart, RemovePart, InBody, Free
  <2>2. CASE WritePart(w)
    <3>1. Writing' /\ asked[w].op = "write"
      BY <2>2, WritingStep DEF WritePart, InBody
    <3>. QED
      BY <2>1, <3>1 DEF Bodies, Restoring, Compensating, Removing, Reading
  <2>3. CASE RemovePart(w)
    <3>1. Removing' /\ asked[w].op = "remove"
      BY <2>3, RemovingStep DEF RemovePart, InBody
    <3>. QED
      BY <2>1, <3>1 DEF Bodies, Restoring, Compensating, Writing, Reading
  <2>. QED
    BY <1>9, <2>2, <2>3
<1>10. CASE WriteFails(w)
  <2>1. In("compensate") /\ hold'.step = 1 /\ Same /\ asked[w].op = "write" /\ journals' = journals
    BY <1>0, <1>3, <1>10, Holder DEF WriteFails, InBody, Free
  <2>2. Back'
    BY <2>1 DEF Back
  <2>3. journals # {}
    BY <1>10 DEF WriteFails, InBody, Holds, StoreInv, Bodies, Writing
  <2>. QED
    BY <2>1, <2>2, <2>3 DEF Bodies, Restoring, Compensating, Writing, Removing, Reading
<1>12. CASE ReadParents(w)
  <2>1. /\ hold' = hold /\ hold # Free /\ hold.owner = w /\ hold.phase = "body" /\ journals' = journals
        /\ asked[w].op = "parents"
    BY <1>0, <1>12, Holder DEF ReadParents, InBody
  <2>2. asked'[w].op = "answer"
    BY <1>3, <1>12 DEF ReadParents
  <2>3. journals' = {}
    BY <2>1 DEF StoreInv, Bodies, Reading
  <2>. QED
    BY <2>1, <2>2, <2>3 DEF Bodies, Restoring, Compensating, Writing, Removing, Reading
<1>11. CASE CommitWrite(w) \/ Removed(w) \/ ReadPassages(w) \/ SearchDone(w) \/ Compensated(w) \/ RestoreFails(w)
            \/ BodyFails(w) \/ (ReplicaDies(w) /\ Holds(w))
  BY <1>1, <1>11 DEF CommitWrite, Removed, ReadPassages, SearchDone, Compensated, RestoreFails, BodyFails,
     ReplicaDies, Unlock
<1>. QED
  BY <1>1, <1>4, <1>5, <1>6, <1>7, <1>8, <1>9, <1>10, <1>11, <1>12 DEF Serve, StoreFault

\* What a search was given stays what it is: the parents until it lets go of
\* the lock, the passages for as long as it goes on.
LEMMA SearchStep ==
  ASSUME StoreInv, NEW w \in Workers,
         Ask(w) \/ Acquire(w) \/ Serve(w) \/ StoreFault(w) \/ Restart(w)
  PROVE  Searching'
<1>0. StoreTypeOK /\ Searching /\ Soundness /\ asked \in [Workers -> Requests]
  BY DEF StoreInv, StoreTypeOK
<1>. DEFINE Named(x) == asked[x].op \in {"parents", "answer"} => asked[x].of # Torn
            Given(x) == asked[x].op = "answer" =>
                          /\ Holds(x) /\ hold.phase = "body"
                          /\ asked[x].found = FoundBy(asked[x].of, points[asked[x].doc]["parents"])
<1>1. \A x \in Workers : Named(x) /\ Given(x)
  BY <1>0 DEF Searching
<1>2. ASSUME NEW x \in Workers, asked'[x] = asked[x], asked[x].op = "answer"
      PROVE  UNCHANGED <<points, hold>>
  <2>1. hold # Free /\ hold.owner = x /\ hold.phase = "body"
    BY <1>1, <1>2 DEF Holds
  <2>2. CASE x = w
    BY <1>0, <1>2, <2>1, <2>2 DEF Ask, AskWrite, AskRemove, AskSearch, NoRequest, Acquire, Serve, StoreFault, Restart,
       RecoverPart, RecoverDone, Enter, WritePart, CommitWrite, RemovePart, Removed, ReadPassages, ReadParents,
       SearchDone, Compensate, Compensated, InBody, StoreBusy, WriteFails, RestoreFails, BodyFails, ReplicaDies
  <2>3. CASE x # w
    BY <2>1, <2>3 DEF Ask, AskWrite, AskRemove, AskSearch, Acquire, Serve, StoreFault, Restart,
       RecoverPart, RecoverDone, Enter, WritePart, CommitWrite, RemovePart, Removed, ReadPassages, ReadParents,
       SearchDone, Compensate, Compensated, InBody, Holds, StoreBusy, WriteFails, RestoreFails, BodyFails, ReplicaDies
  <2>. QED
    BY <2>2, <2>3
<1>3. ASSUME NEW x \in Workers, asked'[x] = asked[x]
      PROVE  Named(x)' /\ Given(x)'
  BY <1>1, <1>2, <1>3 DEF Holds
<1>4. \A x \in Workers \ {w} : asked'[x] = asked[x]
  BY <1>0 DEF Ask, AskWrite, AskRemove, AskSearch, Acquire, Serve, StoreFault, Restart,
     RecoverPart, RecoverDone, Enter, WritePart, CommitWrite, RemovePart, Removed, ReadPassages, ReadParents,
     SearchDone, Compensate, Compensated, StoreBusy, WriteFails, RestoreFails, BodyFails, ReplicaDies
<1>5. ASSUME ReadPassages(w) PROVE Named(w)' /\ Given(w)'
  <2>. DEFINE d == asked[w].doc
              v == points[d]["active"]
  <2>1. hold # Free /\ hold.owner = w /\ hold.phase = "body" /\ asked[w].op = "search"
    BY <1>0, <1>5, Holder DEF ReadPassages, InBody
  <2>2. journals = {}
    BY <2>1 DEF StoreInv, Bodies, Reading
  <2>3. d \in Docs
    BY <1>0, <2>1, Requested
  <2>4. v # Torn
    BY <1>0, <2>2, <2>3 DEF Soundness, Sound, Parts
  <2>. HIDE DEF d, v
  <2>5. asked'[w] = IF v = Gone THEN NoRequest ELSE [op |-> "parents", doc |-> d, of |-> v]
    BY <1>0, <1>5 DEF ReadPassages, d, v
  <2>. QED
    BY <2>4, <2>5 DEF NoRequest
<1>6. ASSUME ReadParents(w) PROVE Named(w)' /\ Given(w)'
  <2>1. Holds(w) /\ hold.phase = "body" /\ asked[w].op = "parents" /\ UNCHANGED <<points, hold>>
    BY <1>6 DEF ReadParents, InBody
  <2>2. asked'[w] = [op |-> "answer", doc |-> asked[w].doc, of |-> asked[w].of,
                     found |-> FoundBy(asked[w].of, points[asked[w].doc]["parents"])]
    BY <1>0, <1>6 DEF ReadParents
  <2>. QED
    BY <1>1, <2>1, <2>2 DEF Holds
<1>7. ASSUME asked'[w] # asked[w], ~ReadPassages(w), ~ReadParents(w) PROVE Named(w)' /\ Given(w)'
  <2>1. asked'[w].op \notin {"parents", "answer"}
    BY <1>0, <1>7 DEF Ask, AskWrite, AskRemove, AskSearch, Acquire, Serve, StoreFault, Restart, NoRequest,
       RecoverPart, RecoverDone, Enter, WritePart, CommitWrite, RemovePart, Removed,
       SearchDone, Compensate, Compensated, StoreBusy, WriteFails, RestoreFails, BodyFails, ReplicaDies
  <2>. QED
    BY <2>1
<1>8. Named(w)' /\ Given(w)'
  BY <1>3, <1>5, <1>6, <1>7
<1>. QED
  BY <1>3, <1>4, <1>8 DEF Searching

-----------------------------------------------------------------------------
(* The theorems. *)

LEMMA StoreInitial == StoreInit => StoreInv
<1>. SUFFICES ASSUME StoreInit PROVE StoreInv
  OBVIOUS
<1>. USE DEF StoreInit
<1>1. Empty \in [Parts -> Versions \cup {Gone, Torn}]
  BY DEF Empty
<1>2. NoRequest \in Requests
  BY DEF Requests
<1>3. StoreTypeOK
  BY <1>1, <1>2, Bounds DEF StoreTypeOK
<1>4. OneJournal /\ Bodies
  BY DEF OneJournal, Bodies
<1>5. Sound(Empty)
  BY Bounds DEF Sound, Empty, Parts
<1>6. Soundness
  BY <1>5 DEF Soundness
<1>7. Searching
  BY DEF Searching, NoRequest
<1>. QED
  BY <1>3, <1>4, <1>6, <1>7 DEF StoreInv

LEMMA StoreInductive == StoreInv /\ [StoreNext]_storeVars => StoreInv'
<1>. SUFFICES ASSUME StoreInv, [StoreNext]_storeVars PROVE StoreInv'
  OBVIOUS
<1>1. CASE StoreNext
  <2>1. PICK w \in Workers : Ask(w) \/ Acquire(w) \/ Serve(w) \/ StoreFault(w) \/ Restart(w)
    BY <1>1 DEF StoreNext
  <2>2. StoreTypeOK' /\ Bodies' /\ Searching'
    BY <2>1, StoreTypeStep, BodiesStep, SearchStep
  <2>3. OneJournal' /\ Soundness'
    BY <2>1, Effects, SoundStep
  <2>. QED
    BY <2>2, <2>3 DEF StoreInv
<1>2. CASE UNCHANGED storeVars
  <2>1. StoreTypeOK'
    BY <1>2 DEF StoreInv, StoreTypeOK, storeVars
  <2>2. OneJournal' /\ Soundness'
    BY <1>2 DEF StoreInv, OneJournal, Soundness, Sound, storeVars
  <2>3. Bodies'
    BY <1>2, Bystander DEF storeVars
  <2>4. Searching'
    BY <1>2 DEF StoreInv, Searching, Holds, storeVars
  <2>. QED
    BY <2>1, <2>2, <2>3, <2>4 DEF StoreInv
<1>. QED
  BY <1>1, <1>2

LEMMA StoreInvariant == StoreSpec => []StoreInv
BY StoreInitial, StoreInductive, PTL DEF StoreSpec

\* Every variable keeps its type; in particular a journal never holds a torn
\* part, so what recovery writes back was whole (storage_writes.py _save).
THEOREM StoreTypeCorrect == StoreSpec => []StoreTypeOK
<1>1. StoreInv => StoreTypeOK
  BY DEF StoreInv
<1>. QED
  BY <1>1, StoreInvariant, PTL

\* Any number of replicas, whatever dies: there is never a second journal
\* (storage_writes.py _recover_locked before replacement's body).
THEOREM NeverTwoJournals == StoreSpec => []OneJournal
<1>1. StoreInv => OneJournal
  BY DEF StoreInv
<1>. QED
  BY <1>1, StoreInvariant, PTL

\* A search holds no lock while it ranks the passages it was given, and still
\* it is never given half a document: its passages are whole, the parents it
\* comes back for are theirs or gone, and they are not gone while the document
\* serves those passages (qdrant_store.py hybrid_search, retrieve_parents).
THEOREM WholeReads == StoreSpec => []ReadsWhole
<1>1. StoreInv => ReadsWhole
  <2>. SUFFICES ASSUME StoreInv, NEW w \in Workers, asked[w].op = "answer"
                PROVE  /\ asked[w].found \in {asked[w].of, Gone}
                       /\ points[asked[w].doc]["active"] = asked[w].of => asked[w].found = asked[w].of
    BY DEF ReadsWhole, StoreInv, Searching
  <2>. DEFINE d == asked[w].doc
              v == asked[w].of
  <2>1. hold # Free /\ hold.owner = w /\ hold.phase = "body" /\ v # Torn
        /\ asked[w].found = FoundBy(v, points[d]["parents"])
    BY DEF StoreInv, Searching, Holds
  <2>2. journals = {}
    BY <2>1 DEF StoreInv, Bodies, Reading
  <2>3. d \in Docs /\ v \in Versions
    BY <2>1, Requested DEF StoreInv
  <2>4. Sound(points[d])
    BY <2>2, <2>3 DEF StoreInv, Soundness
  <2>. QED
    BY <2>1, <2>3, <2>4, Bounds DEF Sound, Parts, FoundBy
<1>. QED
  BY <1>1, StoreInvariant, PTL

\* Readers see a replacement happen in one step and a removal part by part in
\* the order that leaves no orphan, through every crash, failure and
\* cancellation: the fenced store implements DocumentStore.
THEOREM AtOnce == StoreSpec => ReplacesAtOnce
<1>1. StoreInit => Store!DocInit
  <2>. SUFFICES ASSUME StoreInit PROVE Store!DocInit
    OBVIOUS
  <2>1. Served = [d \in Docs |-> Empty]
    BY DEF StoreInit, Served
  <2>2. Empty = Store!Empty
    BY DEF Empty, Store!Empty, Parts, Store!Parts, Gone, Store!Gone
  <2>. QED
    BY <2>1, <2>2 DEF Store!DocInit
<1>2. StoreInv /\ [StoreNext]_storeVars => [Store!DocNext]_Served
  <2>. SUFFICES ASSUME StoreInv, [StoreNext]_storeVars PROVE Store!DocNext \/ Served' = Served
    OBVIOUS
  <2>1. CASE StoreNext
    <3>1. PICK w \in Workers : Ask(w) \/ Acquire(w) \/ Serve(w) \/ StoreFault(w) \/ Restart(w)
      BY <2>1 DEF StoreNext
    <3>. QED
      BY <3>1, Effects, ServedStep
  <2>2. CASE UNCHANGED storeVars
    BY <2>2 DEF Served, storeVars
  <2>. QED
    BY <2>1, <2>2
<1>. QED
  BY <1>1, <1>2, StoreInvariant, PTL DEF StoreSpec, ReplacesAtOnce, Store!DocSpec
=============================================================================
