---------------------------- MODULE EffectLedger ----------------------------
(***************************************************************************)
(* What the durable executors promise about effects on the receiver,       *)
(* whatever crashes, races or lost answers occur (docs/QUEUE-EXECUTION.md, *)
(* "Dispatch sequence"): an effect is intended, then claimed, and only     *)
(* then performed, once; the journal says accepted or rejected only when   *)
(* the receiver said so, and anything less is uncertain for ever.          *)
(***************************************************************************)
EXTENDS Naturals

CONSTANT Effects          \* the identities effects may have

VARIABLES
    status,               \* what the journal knows of an effect
    performed,            \* how often the receiver was asked for it
    answer                \* what the receiver answered

ledgerVars == <<status, performed, answer>>

Status == {"none", "intended", "claimed", "accepted", "rejected", "uncertain"}
Answer == {"none", "accepted", "rejected"}    \* "none": no usable answer

LedgerInit ==
    /\ status = [x \in Effects |-> "none"]
    /\ performed = [x \in Effects |-> 0]
    /\ answer = [x \in Effects |-> "none"]

Intend(x) ==
    /\ status[x] = "none"
    /\ status' = [status EXCEPT ![x] = "intended"]
    /\ UNCHANGED <<performed, answer>>

Claim(x) ==
    /\ status[x] = "intended"
    /\ status' = [status EXCEPT ![x] = "claimed"]
    /\ UNCHANGED <<performed, answer>>

Perform(x) ==
    /\ status[x] = "claimed"
    /\ performed[x] = 0
    /\ performed' = [performed EXCEPT ![x] = 1]
    /\ \E a \in Answer : answer' = [answer EXCEPT ![x] = a]
    /\ UNCHANGED status

\* The receiver's own verdict is recorded.
Resolve(x) ==
    /\ status[x] = "claimed"
    /\ answer[x] \in {"accepted", "rejected"}
    /\ status' = [status EXCEPT ![x] = answer[x]]
    /\ UNCHANGED <<performed, answer>>

\* Claims whose effect nobody can vouch for.
Doubt ==
    /\ \E S \in SUBSET {x \in Effects : status[x] = "claimed"} :
          status' = [x \in Effects |-> IF x \in S THEN "uncertain" ELSE status[x]]
    /\ UNCHANGED <<performed, answer>>

LedgerNext ==
    \/ \E x \in Effects : Intend(x) \/ Claim(x) \/ Perform(x) \/ Resolve(x)
    \/ Doubt

LedgerSpec == LedgerInit /\ [][LedgerNext]_ledgerVars

=============================================================================
