----------------------------- MODULE FeedMirror -----------------------------
(* What a feed promises: its epic shows one task for each item the source     *)
(* last reported, but for those a person deleted while the item was open.     *)
CONSTANT Item

VARIABLES
    shown,     \* items with a task
    retired,   \* items a person deleted
    source     \* the last trusted emission: what is open, what of it is wanted

vars == <<shown, retired, source>>

Init == shown = {} /\ retired = {} /\ source = [open |-> {}, wanted |-> {}]

\* A trusted emission mirrors: what it leaves out is gone, and a later return
\* of it is new.
Mirror(open, wanted) ==
    /\ source' = [open |-> open, wanted |-> wanted]
    /\ retired' = retired \cap open
    /\ shown' = {i \in wanted : i \in shown \/ i \notin retired}

\* A degraded one only adds.
Add(items) ==
    /\ shown' = shown \cup (items \ retired)
    /\ UNCHANGED <<retired, source>>

Retire(items) ==
    /\ items \subseteq shown
    /\ shown' = shown \ items /\ retired' = retired \cup items
    /\ UNCHANGED source

Next ==
    \/ \E open \in SUBSET Item : \E wanted \in SUBSET open : Mirror(open, wanted)
    \/ \E items \in SUBSET Item : Add(items) \/ Retire(items)

Spec == Init /\ [][Next]_vars
=============================================================================
