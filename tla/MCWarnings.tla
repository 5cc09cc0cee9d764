------------------------------ MODULE MCWarnings ------------------------------
(* The two listeners of the evaluator and the settings page do not touch each *)
(* other's state, so a behaviour has one of them move and leaves the others   *)
(* in their initial states.                                                   *)
EXTENDS WarningStore, WarningToasts, WarningSettings

CONSTANT MaxActs   \* bound: things the user of the page does

VARIABLES moves, acts

MCStored == <<[id |-> 1, link |-> "a", cleared |-> TRUE]>>

\* bound: the store is told only of the data links the page has rows for, one
\* less than the toasts are.
StoreLinksOnly == \A d \in Datalinks \ Rows : active'[d] = None

MCVars == <<sourceVars, storeVars, toastVars, pageVars, moves, acts>>

MCInit ==
  /\ Init /\ StoreInit /\ ToastInit /\ PageInit
  /\ \A d \in Rows : stored.rows[d].enabled /\ ~stored.rows[d].custom
  /\ stored.delay = 500
  /\ moves \in {"store", "toasts", "page"}
  /\ acts = 0

MCNext ==
  /\ UNCHANGED moves
  /\ \/ /\ moves = "store" /\ StoreNext /\ UNCHANGED <<toastVars, pageVars, acts>>
        /\ StoreLinksOnly
     \/ moves = "toasts" /\ ToastsNext /\ UNCHANGED <<storeVars, pageVars, acts>>
     \/ /\ moves = "page"
        /\ UNCHANGED <<sourceVars, storeVars, toastVars>>
        /\ \/ (HostAnswers \/ DebounceFires) /\ UNCHANGED acts
           \/ acts < MaxActs /\ acts' = acts + 1 /\ PageUser

MCSpec == MCInit /\ [][MCNext]_MCVars

TypeOK == StoreTypeOK /\ ToastTypeOK /\ PageTypeOK

\* The panel with its history, and the toasts: each follows the evaluator.
ListenersAgree == StoreAgrees /\ ToastsAgree

\* The events of the last call are read by no action and no property.
MCView == <<active, storeVars, toastVars, pageVars, moves, acts>>
=============================================================================
