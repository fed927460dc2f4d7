----------------------------- MODULE MCLedgers -----------------------------
(***************************************************************************)
(* The ledgers of the instance, side by side: what a run has spent, of two *)
(* calls to a priced model, one to a model without prices and one to a     *)
(* fixed service; the audit log; and the run history of an automation that *)
(* its owner moves between two machines and the server.  They share no     *)
(* row, so a behaviour is one of theirs: part says whose, and the others   *)
(* stand still.  Only safety is checked here.                              *)
(***************************************************************************)
EXTENDS RunBudget, AuditChain, Automations, TLC

CONSTANTS p1, p2, u, f, s1, s2, m1, m2, f1, f2

VARIABLE part

ledgersVars == <<part, vars, auditVars, autoVars>>

MCSlots == {p1, p2, u, f}
MCFixed == {f}
MCInput == [s \in MCSlots |-> 1]
MCOutput == [s \in MCSlots |-> IF s = u THEN 2 ELSE 1]
MCPrice == [s \in MCSlots |-> IF s \in {p1, p2} THEN 1 ELSE Unknown]

\* Below every allowance; and above each output allowance with an input below.
MCUses == {<<1, 0>>, <<0, 3>>}

Limit(calls, output, tokens, cost) ==
  [c \in Caps |-> CASE c = "calls" -> calls [] c = "output" -> output
                    [] c = "tokens" -> tokens [] c = "cost" -> cost]
MCLimits == {
  Limit(3, Unlimited, Unlimited, Unlimited), Limit(2, Unlimited, Unlimited, 2),
  Limit(Unlimited, Unlimited, 4, Unlimited), Limit(Unlimited, 1, Unlimited, 2)}

Usage(calls, tokens, cost, unpriced, unmetered) ==
  [c \in Counters |-> CASE c = "calls" -> calls [] c = "tokens" -> tokens
     [] c = "cost" -> cost [] c = "unpriced" -> unpriced [] c = "unmetered" -> unmetered]
MCRestored == {Usage(0, 0, 0, 0, 0), Usage(1, 2, 0, 1, 0)}

\* Both schedulers are up from the start; each machine has one folder, and which of
\* the two the automation starts in makes no difference.
BothUp == {{s1, s2}}
OneEach == (f1 :> m1) @@ (f2 :> m2)

LedgersInit ==
  /\ part \in {"budget", "audit", "history"}
  /\ Init /\ (part # "budget" => first = Limit(3, Unlimited, Unlimited, Unlimited)
                                 /\ prior = Usage(0, 0, 0, 0, 0))
  /\ AuditInit
  /\ AutoInit /\ folder # f2 /\ reachable \in {{}, Machines}
              /\ (part # "history" => folder = NoFolder /\ reachable = {})

LedgersNext ==
  \/ part = "budget" /\ Next /\ UNCHANGED <<part, auditVars, autoVars>>
  \/ part = "audit" /\ AuditNext /\ UNCHANGED <<part, vars, autoVars>>
  \/ part = "history" /\ AutoNext /\ UNCHANGED <<part, vars, auditVars>>

LedgersSpec == LedgersInit /\ [][LedgersNext]_ledgersVars
=============================================================================
