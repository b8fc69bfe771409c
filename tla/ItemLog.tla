------------------------------ MODULE ItemLog ------------------------------
(***************************************************************************)
(* What the ring file promises the two processes that share it, without    *)
(* the file: a log of published items, and a viewer that is handed them    *)
(* one after the other, from the one that was the newest when it started,  *)
(* and never the newest.  The promise holds until the viewer's course is   *)
(* disturbed (StorageManager says by what); then anything may be delivered, *)
(* until the viewer is started again.                                      *)
(***************************************************************************)
EXTENDS Naturals, Sequences

CONSTANT Items

VARIABLES published, opened, delivered, up, disturbed
logVars == <<published, opened, delivered, up, disturbed>>

Init ==
    /\ published = <<>>
    /\ opened = 0
    /\ delivered = <<>>
    /\ up = FALSE
    /\ disturbed = TRUE

\* Items are published, several at once when the header of some was lost; they
\* may be the ones that disturb the viewer.
Publish ==
    /\ Len(published') > Len(published)
    /\ SubSeq(published', 1, Len(published)) = published
    /\ \A k \in DOMAIN published' : published'[k] \in Items
    /\ \A j, k \in DOMAIN published' : published'[j] = published'[k] => j = k
    /\ disturbed => disturbed'
    /\ UNCHANGED <<opened, delivered, up>>

\* The viewer starts, again if it had died.
Start ==
    /\ ~ up
    /\ up' = TRUE
    /\ opened' = Len(published)
    /\ delivered' = <<>>
    /\ UNCHANGED published

Due == opened + Len(delivered)

\* The viewer is handed the item it is due, once a newer one is there.
Deliver ==
    /\ up
    /\ ~ disturbed
    /\ Due < Len(published)
    /\ delivered' = Append(delivered, published[Due])
    /\ UNCHANGED <<published, opened, up, disturbed>>

Disturb ==
    /\ disturbed' = TRUE
    /\ UNCHANGED <<published, opened, delivered, up>>

\* The viewer is handed anything, or dies.
Misread ==
    /\ disturbed
    /\ UNCHANGED <<published, opened, disturbed>>

Next == Publish \/ Start \/ Deliver \/ Disturb \/ Misread

Spec     == Init /\ [][Next]_logVars
FairSpec == Spec /\ WF_logVars(Deliver)
=============================================================================
