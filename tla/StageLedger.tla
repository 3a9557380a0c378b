----------------------------- MODULE StageLedger -----------------------------
(***************************************************************************)
(* What the work loop of tools/run_s25u_autopilot.sh promises of its       *)
(* stages, without git, GitHub, kills and time limits.  One stage runs at  *)
(* a time, on sources that stand still; it begins only on sources other    *)
(* than those on record, unless that is forced; and sources come on record *)
(* only at the end of a stage that ran on them, after a stage has come to  *)
(* a conclusion on them.  A stage may end without either.                  *)
(***************************************************************************)
VARIABLES sources,     \* what the head of main has besides results
          running,     \* the sources of the stage that runs; {} without one
          concluded,   \* sources on which some stage came to a conclusion
          recorded,    \* the sources on record as done; {} at first
          forced       \* is a stage to run in any case?

ledger == <<sources, running, concluded, recorded, forced>>

LedgerInit ==
    /\ running = {} /\ concluded = {} /\ recorded = {}
    /\ forced = FALSE

\* Between stages sources arrive, and the loop ends and begins anew.
Rest ==
    /\ running = {} /\ running' = {}
    /\ sources \subseteq sources'
    /\ UNCHANGED <<concluded, recorded>>

Begin ==
    /\ running = {} /\ running' = sources
    /\ forced \/ sources # recorded
    /\ UNCHANGED <<sources, concluded, recorded, forced>>

Conclude ==
    /\ running # {}
    /\ concluded' = concluded \cup {running}
    /\ UNCHANGED <<sources, running, recorded, forced>>

End ==
    /\ running # {} /\ running' = {}
    /\ recorded' \in {recorded} \cup (concluded \cap {running})
    /\ forced' = FALSE
    /\ UNCHANGED <<sources, concluded>>

LedgerSpec == LedgerInit /\ [][Rest \/ Begin \/ Conclude \/ End]_ledger
=============================================================================
