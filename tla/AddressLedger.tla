--------------------------- MODULE AddressLedger ---------------------------
(***************************************************************************)
(* What a pool promises its callers, with no transactions in it: a ledger  *)
(* of held address ranges that changes in whole steps, and a published     *)
(* total that is always the number of distinct addresses held.             *)
(***************************************************************************)
EXTENDS Cidr

CONSTANTS Holding   \* everything that could be held

VARIABLES held, total

vars == <<held, total>>

\* Two holdings share an address only as claims of different address spaces.
Apart(g, h) ==
  Overlap(g, h) => g.purpose = "Claim" /\ h.purpose = "Claim" /\ g.space # h.space

Consistent(H) == \A g, h \in H : g # h => Apart(g, h)

Init == held = {} /\ total = 0

\* New holdings appear, together with the reservations made for the pool, and
\* everything held is still apart.
Grant ==
  /\ held' \in SUBSET Holding
  /\ held \subseteq held'
  /\ Consistent(held')

\* Holdings are given back; a claim's own are, while it is bound, only under
\* reclaim policy Delete.
Free ==
  /\ held' \subseteq held
  /\ \A h \in held \ held' : h.bound => h.policy = "Delete"

\* A claim lets go of a range it retains: the range stays held.
Unbind ==
  \E h \in held : /\ h.bound /\ h.policy = "Retain"
                  /\ held' = (held \ {h}) \cup {[h EXCEPT !.bound = FALSE]}

Next == (Grant \/ Free \/ Unbind) /\ total' = Measure(held')

Spec == Init /\ [][Next]_vars
=============================================================================
