----------------------------- MODULE MCHotplug ------------------------------
EXTENDS Hotplug, TLC

CONSTANTS d1, d2, l1, l2

\* l1 wants everything; l2 filters d2 out.
MCWants == (l1 :> {d1, d2}) @@ (l2 :> {d1})
=============================================================================
