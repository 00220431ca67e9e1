--------------------------- MODULE WriteAheadVault ---------------------------
(***************************************************************************)
(* What the mutation coordinator promises about the writes of its vault    *)
(* accounts, without lanes, queues, epochs, leases or restarts: a durable  *)
(* marker is written before a write is issued, none is issued over one     *)
(* that the local cache has not been refreshed after, and the marker stays *)
(* until the cache has been.  A write that was issued may take effect at   *)
(* any later time, also when nobody waits for it any more and the cache    *)
(* has been refreshed since.                                               *)
(***************************************************************************)
CONSTANTS Accounts, Writes

VARIABLES
    marked,     \* accounts with the durable marker
    out,        \* issued writes that may still take effect
    landed,     \* writes that took effect on the server
    unseen      \* issued writes of each account no refresh has followed

avars == <<marked, out, landed, unseen>>

Init ==
    /\ marked = {} /\ out = {} /\ landed = {}
    /\ unseen = [a \in Accounts |-> {}]

Mark(a) ==
    /\ marked' = marked \cup {a}
    /\ UNCHANGED <<out, landed, unseen>>

Unmark(a) ==
    /\ unseen[a] = {}
    /\ marked' = marked \ {a}
    /\ UNCHANGED <<out, landed, unseen>>

Issue(a, w) ==
    /\ a \in marked /\ unseen[a] = {} /\ w \notin out \cup landed
    /\ out' = out \cup {w}
    /\ unseen' = [unseen EXCEPT ![a] = {w}]
    /\ UNCHANGED <<marked, landed>>

Land(w) ==
    /\ w \in out
    /\ out' = out \ {w}
    /\ landed' = landed \cup {w}
    /\ UNCHANGED <<marked, unseen>>

(* The write is known not to have taken effect, and never will.            *)
RuleOut(a, w) ==
    /\ w \in out
    /\ out' = out \ {w}
    /\ unseen' = [unseen EXCEPT ![a] = @ \ {w}]
    /\ UNCHANGED <<marked, landed>>

(* The cache takes a copy that the server sent after every unseen write.   *)
Refresh(a) ==
    /\ unseen' = [unseen EXCEPT ![a] = {}]
    /\ UNCHANGED <<marked, out, landed>>

Next ==
    \/ \E a \in Accounts : Mark(a) \/ Unmark(a) \/ Refresh(a)
    \/ \E w \in Writes : Land(w)
    \/ \E a \in Accounts, w \in Writes : Issue(a, w) \/ RuleOut(a, w)

Spec == Init /\ [][Next]_avars

(* The marker covers every write that is issued and not yet followed by a  *)
(* refresh, and an account never has two of them.                          *)
MarkerCovers ==
    \A a \in Accounts :
      /\ unseen[a] # {} => a \in marked
      /\ \A v, w \in unseen[a] : v = w
=============================================================================
