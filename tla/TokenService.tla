---------------------------- MODULE TokenService ----------------------------
(***************************************************************************)
(* What the evidence token promises the Pods of a console, whatever cache,  *)
(* queue, annotation and counter the operator needs to keep the promise.    *)
(* A token is minted, the workload comes to name it, a Pod mounts it, and   *)
(* it is retired when neither the workload nor a Pod has it any more.       *)
(* Someone else may withdraw a token at any time.                           *)
(***************************************************************************)
VARIABLES
    available, \* tokens whose Secret exists
    withdrawn, \* tokens deleted from outside, and not minted again
    named,     \* the token the workload names, if any
    mounted    \* the token the running Pod mounts, if any

vars == <<available, withdrawn, named, mounted>>

Init ==
    /\ available = {} /\ withdrawn = {}
    /\ named = {} /\ mounted = {}

\* Only a token nobody refers to is new, unless it was withdrawn.
Mint(t) ==
    /\ t \notin available
    /\ t \in named \cup mounted => t \in withdrawn
    /\ available' = available \cup {t}
    /\ withdrawn' = withdrawn \ {t}
    /\ UNCHANGED <<named, mounted>>

\* The workload names one token, which exists or was withdrawn meanwhile.
Name(t) ==
    /\ named' = {t}
    /\ UNCHANGED <<available, withdrawn, mounted>>

\* The workload names none: it has no evidence.
Unname ==
    /\ named' = {}
    /\ UNCHANGED <<available, withdrawn, mounted>>

\* A Pod starts with the token named then, after the one before it is gone.
Mount ==
    /\ mounted = {}
    /\ named \subseteq available
    /\ mounted' = named
    /\ UNCHANGED <<available, withdrawn, named>>

Unmount ==
    /\ mounted' = {}
    /\ UNCHANGED <<available, withdrawn, named>>

\* Tokens go only when neither the workload nor a Pod has them.
Retire(tokens) ==
    /\ tokens \cap (named \cup mounted) = {}
    /\ available' = available \ tokens
    /\ UNCHANGED <<withdrawn, named, mounted>>

Withdraw(t) ==
    /\ t \in available
    /\ available' = available \ {t}
    /\ withdrawn' = withdrawn \cup {t}
    /\ UNCHANGED <<named, mounted>>

Next ==
    \/ \E t \in available' \ available : Mint(t)
    \/ \E t \in available \cup withdrawn : Name(t)
    \/ Unname
    \/ Mount \/ Unmount
    \/ \E tokens \in SUBSET available : Retire(tokens)
    \/ \E t \in available : Withdraw(t)

Spec == Init /\ [][Next]_vars
=============================================================================
