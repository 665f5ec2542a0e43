------------------------------ MODULE RunLedger ------------------------------
(***************************************************************************)
(* What an experiment store promises, abstractly: a run id gets its        *)
(* evidence once, for ever, and whoever asks for the run gets exactly that *)
(* evidence.                                                               *)
(***************************************************************************)
CONSTANTS RunIds, Callers, Evidence,
          None       \* no evidence; not one of Evidence

VARIABLES ledger,    \* run id -> its evidence
          given      \* caller -> the evidence it was given last

Init == ledger = [i \in RunIds |-> None] /\ given = [c \in Callers |-> None]

Record(i) ==
    /\ ledger[i] = None
    /\ ledger'[i] \in Evidence
    /\ ledger' = [ledger EXCEPT ![i] = ledger'[i]]
    /\ UNCHANGED given

Give(c, i) ==
    /\ ledger[i] # None
    /\ given' = [given EXCEPT ![c] = ledger[i]]
    /\ UNCHANGED ledger

Next ==
    \/ \E i \in RunIds : Record(i)
    \/ \E c \in Callers, i \in RunIds : Give(c, i)

Spec == Init /\ [][Next]_<<ledger, given>>
=============================================================================
