------------------------ MODULE ClientEvents_proofs ------------------------
(***************************************************************************)
(* The stored events are accounted for and stay readable, unless an event  *)
(* is claimed while the clock is behind it: for any number of accounts,    *)
(* receipts, batches and disturbances.                                     *)
(*                                                                         *)
(* The argument.  An event is in one place: its receipt is held, its       *)
(* commit waits in the lane of its owner (LaneInv), it is being stored, or *)
(* it is stored in the scope of its owner (QueueInv); from there it only   *)
(* leaves.  So nothing is stored twice, in two scopes or again.  What an   *)
(* operation does to a scope it keeps is to thin it out: no event is new   *)
(* and no claim is new or dated back (Thins), whatever has run since the   *)
(* claim was made.                                                         *)
(* A settlement speaks of the events that still carry the claim of its     *)
(* flight, and those are events of its batch (FlightInv).  A discard ends  *)
(* every receipt that could still be committed (EndInv), save the commit   *)
(* that has passed its check; of those the lane lets one run at a time.    *)
(***************************************************************************)
EXTENDS ClientEvents, FiniteSetTheorems, TLAPS

-----------------------------------------------------------------------------
(* The inductive invariant.                                                *)

EventRec == [id : Events, token : Nat, lapsed : BOOLEAN, early : BOOLEAN]
Retries == {"none", "waits", "due"}
ScopeRec == [retry : Retries, limit : 1 .. MaxBatch, events : Seq(EventRec)]
JobRec == [kind : {"commit", "flush", "remove"}, event : Events \cup {None}]
FlightRec ==
    [step : {"idle", "enqueuing", "claimed", "sent"}, token : Nat, ids : SUBSET Events,
     outcome : {"none", "failed", "taken", "too_large"}, lease : BOOLEAN]

Types ==
    /\ queue \in [Accounts -> ScopeRec]
    /\ lane \in [Accounts -> Seq(JobRec)] /\ flight \in [Accounts -> FlightRec]
    /\ alarm \in BOOLEAN /\ running \in BOOLEAN
    /\ discards \subseteq Accounts /\ calls \subseteq discards
    /\ active \in Accounts \cup {None}
    /\ receipt \in [Events -> {"unused", "held", "waiting", "revoked", "spent"}]
    /\ owner \in [Events -> Accounts \cup {None}]
    /\ received \in [Events -> SUBSET Accounts]
    /\ gone \in [Events -> {"no", "sent", "expired", "discarded"}]
    /\ ended \subseteq Events

\* A scope stores an event once and has one claim, within its limit.
ScopeInv(s) ==
    /\ s \in ScopeRec
    /\ \A i, j \in DOMAIN s.events : s.events[i].id = s.events[j].id => i = j
    /\ OneClaim(s)

\* What is stored was committed, by its owner, and has not left.
Stands(e, a) == owner[e] = a /\ receipt[e] = "spent" /\ gone[e] = "no"
QueueInv ==
    \A a \in Accounts : /\ ScopeInv(queue[a])
                        /\ \A e \in Ids(queue[a].events) : Stands(e, a)

\* A commit in a lane is of its owner, there once and not stored; the running
\* one is past its check while its event is being stored.
CommitAt(a, i) == i \in DOMAIN lane[a] /\ lane[a][i].kind = "commit"
LaneInv ==
    \A a \in Accounts : \A i \in DOMAIN lane[a] : lane[a][i].kind = "commit" =>
        LET e == lane[a][i].event IN
        /\ e \in Events /\ owner[e] = a /\ gone[e] = "no"
        /\ e \notin Ids(queue[a].events)
        /\ \/ receipt[e] \in {"waiting", "revoked"}
           \/ i = 1 /\ receipt[e] = "spent" /\ flight[a].step = "enqueuing"
        /\ \A j \in DOMAIN lane[a] :
              lane[a][j].kind = "commit" /\ lane[a][j].event = e => i = j

\* A flight: what carries its token is of its batch, and what was taken was
\* received.
FlightInv ==
    \A a \in Accounts :
        /\ flight[a].step \in {"claimed", "sent"} <=> flight[a].token # 0
        /\ flight[a].outcome = "taken" => flight[a].step \in {"claimed", "sent"}
        /\ flight[a].step = "enqueuing" =>
              CommitAt(a, 1) /\ receipt[lane[a][1].event] = "spent"
        /\ \A e \in flight[a].ids : /\ owner[e] = a
                                    /\ flight[a].outcome = "taken" => received[e] # {}
        /\ \A i \in DOMAIN queue[a].events :
              queue[a].events[i].token \in {flight[a].token} \ {0} =>
                  queue[a].events[i].id \in flight[a].ids

ReceiptInv ==
    \A e \in Events :
        /\ receipt[e] = "unused" <=> owner[e] = None
        /\ receipt[e] = "unused" => received[e] = {}
        /\ receipt[e] # "spent" => gone[e] = "no"
        /\ gone[e] = "sent" => received[e] # {}
        /\ received[e] \subseteq {owner[e]}

\* Of an ended session nothing can still be committed once its discard has
\* begun, and after it at most one event is stored.
Storing(a) == IF flight[a].step = "enqueuing" THEN {lane[a][1].event} ELSE {}
Late(a) == (Ids(queue[a].events) \cup Storing(a)) \cap ended
EndInv ==
    /\ \A e \in ended :
          /\ receipt[e] # "unused"
          /\ receipt[e] \in {"held", "waiting"} => owner[e] \in discards \ calls
    /\ \A a \in Accounts \ discards : \A e, f \in Late(a) : e = f

IInv == Types /\ QueueInv /\ LaneInv /\ FlightInv /\ ReceiptInv /\ EndInv
-----------------------------------------------------------------------------
(* Filtered sequences.                                                     *)

\* Every position of I has a rank of its own, so the filter that looks them
\* up by rank meets each of them once.
LEMMA Ranks ==
    ASSUME NEW n \in Nat, NEW I \in SUBSET (1 .. n)
    PROVE  /\ Cardinality(I) \in Nat
           /\ \A k \in 1 .. Cardinality(I) :
                 \E i \in I : Cardinality({j \in I : j <= i}) = k
           /\ \A i \in I : Cardinality({j \in I : j <= i}) \in 1 .. Cardinality(I)
           /\ \A i, j \in I : Cardinality({h \in I : h <= i}) = Cardinality({h \in I : h <= j})
                              => i = j
<1> DEFINE Upto(i) == {j \in I : j <= i}
           rank == [i \in I |-> Cardinality(Upto(i))]
<1>1. IsFiniteSet(I) /\ Cardinality(I) \in Nat
  <2>1. IsFiniteSet(1 .. n)
    BY FS_Interval
  <2> QED BY <2>1, FS_Subset, FS_CardinalityType
<1>2. ASSUME NEW i \in I
      PROVE  /\ IsFiniteSet(Upto(i)) /\ Cardinality(Upto(i)) \in 1 .. Cardinality(I)
  <2>1. Upto(i) \in SUBSET I /\ i \in Upto(i)
    OBVIOUS
  <2>2. IsFiniteSet(Upto(i)) /\ Cardinality(Upto(i)) <= Cardinality(I)
    BY <1>1, <2>1, FS_Subset
  <2>3. Cardinality(Upto(i)) # 0 /\ Cardinality(Upto(i)) \in Nat
    BY <2>1, <2>2, FS_EmptySet, FS_CardinalityType
  <2> HIDE DEF Upto
  <2> QED BY <1>1, <2>2, <2>3
<1>3. ASSUME NEW i \in I, NEW j \in I, Cardinality(Upto(i)) = Cardinality(Upto(j)), i < j
      PROVE  FALSE
  <2>0. \A x \in I : x \in Int
    OBVIOUS
  <2>1. Upto(i) \in SUBSET Upto(j)
    <3> SUFFICES ASSUME NEW h \in Upto(i) PROVE h \in Upto(j)
      OBVIOUS
    <3>1. h \in I /\ h \in Int /\ i \in Int /\ j \in Int /\ h <= i
      BY <2>0
    <3> QED BY <1>3, <3>1
  <2>2. Upto(i) = Upto(j)
    BY <1>2, <1>3, <2>1, FS_Subset
  <2>3. j \in Upto(j) /\ j \notin Upto(i)
    BY <1>3
  <2> QED BY <2>2, <2>3
<1>4. ASSUME NEW i \in I, NEW j \in I, Cardinality(Upto(i)) = Cardinality(Upto(j))
      PROVE  i = j
  BY <1>3, <1>4
<1>5. rank \in Injection(I, 1 .. Cardinality(I))
  BY <1>2, <1>4 DEF Injection, IsInjective
<1>6. /\ IsFiniteSet(1 .. Cardinality(I))
      /\ Cardinality(1 .. Cardinality(I)) = Cardinality(I)
  BY <1>1, FS_Interval
<1>7. rank \in Surjection(I, 1 .. Cardinality(I))
  BY <1>5, <1>6, FS_Injection
<1> QED BY <1>1, <1>2, <1>4, <1>7 DEF Surjection

\* A filtered sequence holds what was kept, each once.
LEMMA KeptOnce ==
    ASSUME NEW S, NEW evs \in Seq(S), NEW I \in SUBSET DOMAIN evs
    PROVE  /\ Kept(evs, I) \in Seq(S)
           /\ \A k \in DOMAIN Kept(evs, I) : \E i \in I : Kept(evs, I)[k] = evs[i]
           /\ \A i \in I : \E k \in DOMAIN Kept(evs, I) : Kept(evs, I)[k] = evs[i]
           /\ (\A i, j \in I : evs[i] = evs[j] => i = j) =>
                 \A k, l \in DOMAIN Kept(evs, I) : Kept(evs, I)[k] = Kept(evs, I)[l] => k = l
<1> DEFINE Rank(i) == Cardinality({j \in I : j <= i})
           At(k) == CHOOSE i \in I : Rank(i) = k
<1>1. I \in SUBSET (1 .. Len(evs)) /\ Len(evs) \in Nat
  OBVIOUS
<1>2. /\ Cardinality(I) \in Nat
      /\ \A k \in 1 .. Cardinality(I) : \E i \in I : Rank(i) = k
      /\ \A i \in I : Rank(i) \in 1 .. Cardinality(I)
      /\ \A i, j \in I : Rank(i) = Rank(j) => i = j
  BY <1>1, Ranks
<1> HIDE DEF Rank
<1>3. \A k \in 1 .. Cardinality(I) : At(k) \in I /\ Rank(At(k)) = k
  BY <1>2
<1>4. \A i \in I : At(Rank(i)) = i
  BY <1>2
<1>5. Kept(evs, I) = [k \in 1 .. Cardinality(I) |-> evs[At(k)]]
  BY DEF Kept, Rank
<1> HIDE DEF At
<1>6. \A i \in I : evs[i] \in S
  OBVIOUS
<1>7. Kept(evs, I) \in Seq(S)
  BY <1>2, <1>3, <1>5, <1>6
<1> QED BY <1>2, <1>3, <1>4, <1>5, <1>7

LEMMA ListType ==
    ASSUME NEW S, NEW T, NEW evs \in Seq(S), NEW f, DOMAIN f = DOMAIN evs,
           \A i \in DOMAIN evs : f[i] \in T,
           f = [i \in DOMAIN evs |-> f[i]]
    PROVE  f \in Seq(T) /\ Len(f) = Len(evs)
<1>1. DOMAIN evs = 1 .. Len(evs) /\ Len(evs) \in Nat
  OBVIOUS
<1> QED BY <1>1

\* What is left of a scope: no event is new, no claim is, and none has been
\* dated back.
Distinct(evs) == \A i, j \in DOMAIN evs : evs[i].id = evs[j].id => i = j
Within(evs, new) ==
    \A j \in DOMAIN new : \E i \in DOMAIN evs : /\ new[j].id = evs[i].id
                                                /\ new[j].token \in {0, evs[i].token}
                                                /\ new[j].early \in {FALSE, evs[i].early}

Thins(s, t) == ScopeInv(t) /\ Within(s.events, t.events)

LEMMA WithinIds ==
    ASSUME NEW evs, NEW new, Within(evs, new)
    PROVE  Ids(new) \subseteq Ids(evs)
  BY DEF Within, Ids

\* Nothing that thins a scope out dates a claim back.
LEMMA ThinOnTime ==
    ASSUME NEW s, NEW t, Thins(s, t)
    PROVE  OnTime(s.events) => OnTime(t.events)
  BY DEF Thins, Within, OnTime

LEMMA ClaimedFinite ==
    ASSUME NEW evs \in Seq(EventRec)
    PROVE  IsFiniteSet(Claimed(evs)) /\ Cardinality(Claimed(evs)) \in Nat
<1>1. DOMAIN evs = 1 .. Len(evs) /\ Len(evs) \in Nat
  OBVIOUS
<1>2. IsFiniteSet(1 .. Len(evs)) /\ Claimed(evs) \in SUBSET (1 .. Len(evs))
  BY <1>1, FS_Interval DEF Claimed
<1> QED BY <1>2, FS_Subset, FS_CardinalityType

\* A scope that lost events or claims, and no batch limit, can still be read.
LEMMA ThinReads ==
    ASSUME NEW s, ScopeInv(s), NEW t \in ScopeRec, t.limit >= s.limit,
           Distinct(t.events), Within(s.events, t.events)
    PROVE  Thins(s, t)
<1>1. /\ s \in ScopeRec /\ s.events \in Seq(EventRec) /\ t.events \in Seq(EventRec)
      /\ s.limit \in Nat /\ t.limit \in Nat
  BY EventAssumption DEF ScopeInv, ScopeRec
<1> DEFINE from == [j \in Claimed(t.events) |->
                      CHOOSE i \in DOMAIN s.events :
                         /\ t.events[j].id = s.events[i].id
                         /\ t.events[j].token \in {0, s.events[i].token}]
<1>2. ASSUME NEW j \in Claimed(t.events)
      PROVE  /\ from[j] \in Claimed(s.events) /\ t.events[j].id = s.events[from[j]].id
             /\ t.events[j].token = s.events[from[j]].token
  <2>1. j \in DOMAIN t.events /\ t.events[j].token # 0
    BY DEF Claimed
  <2>2. \E i \in DOMAIN s.events : /\ t.events[j].id = s.events[i].id
                                   /\ t.events[j].token \in {0, s.events[i].token}
    BY <2>1 DEF Within
  <2> QED BY <2>1, <2>2 DEF Claimed
<1>3. from \in [Claimed(t.events) -> Claimed(s.events)]
  BY <1>2
<1> HIDE DEF from
<1>4. from \in Injection(Claimed(t.events), Claimed(s.events))
  BY <1>2, <1>3 DEF Injection, IsInjective, Distinct, Claimed
<1>5. Cardinality(Claimed(t.events)) <= Cardinality(Claimed(s.events))
  BY <1>1, <1>4, ClaimedFinite, FS_Injection
<1>6. /\ \A i, j \in Claimed(s.events) : s.events[i].token = s.events[j].token
      /\ Cardinality(Claimed(s.events)) <= s.limit
  BY DEF ScopeInv, OneClaim
<1>7. \A i, j \in Claimed(t.events) : t.events[i].token = t.events[j].token
  BY <1>2, <1>6
<1>8. Cardinality(Claimed(t.events)) <= t.limit
  BY <1>1, <1>5, <1>6, ClaimedFinite
<1> QED BY <1>7, <1>8 DEF Thins, ScopeInv, OneClaim, Distinct

LEMMA ThinsTwice ==
    ASSUME NEW s, NEW t, NEW u, Thins(s, t), Thins(t, u)
    PROVE  Thins(s, u)
<1> SUFFICES ASSUME NEW k \in DOMAIN u.events
             PROVE  \E i \in DOMAIN s.events : /\ u.events[k].id = s.events[i].id
                                               /\ u.events[k].token \in {0, s.events[i].token}
                                               /\ u.events[k].early \in {FALSE, s.events[i].early}
  BY DEF Thins, Within
<1>1. PICK j \in DOMAIN t.events : /\ u.events[k].id = t.events[j].id
                                   /\ u.events[k].token \in {0, t.events[j].token}
                                   /\ u.events[k].early \in {FALSE, t.events[j].early}
  BY DEF Thins, Within
<1>2. PICK i \in DOMAIN s.events : /\ t.events[j].id = s.events[i].id
                                   /\ t.events[j].token \in {0, s.events[i].token}
                                   /\ t.events[j].early \in {FALSE, s.events[i].early}
  BY DEF Thins, Within
<1> QED BY <1>1, <1>2

LEMMA ThinsSelf ==
    ASSUME NEW s, ScopeInv(s)
    PROVE  Thins(s, s)
  BY DEF Thins, Within, ScopeInv

LEMMA NoScopeThins ==
    ASSUME NEW s
    PROVE  Thins(s, NoScope) /\ ScopeInv(NoScope) /\ Ids(NoScope.events) = {}
<1>1. NoScope \in ScopeRec /\ NoScope.events = << >> /\ NoScope.limit \in Nat
  BY EventAssumption DEF NoScope, ScopeRec, Retries
<1>2. DOMAIN NoScope.events = {}
  BY <1>1
<1>3. Claimed(NoScope.events) = {} /\ Ids(NoScope.events) = {}
  BY <1>2 DEF Claimed, Ids
<1>4. OneClaim(NoScope)
  <2>1. Cardinality(Claimed(NoScope.events)) <= NoScope.limit
    <3>1. Cardinality(Claimed(NoScope.events)) = 0
      BY <1>3, FS_EmptySet
    <3>2. NoScope.limit \in Nat
      BY <1>1
    <3> QED BY <3>1, <3>2
  <2> QED BY <1>3, <2>1 DEF OneClaim
<1> QED BY <1>1, <1>2, <1>3, <1>4 DEF Thins, Within, ScopeInv

\* Without: exactly the events of ids leave.
LEMMA WithoutThins ==
    ASSUME NEW evs \in Seq(EventRec), Distinct(evs), NEW ids
    PROVE  /\ Without(evs, ids) \in Seq(EventRec) /\ Distinct(Without(evs, ids))
           /\ Within(evs, Without(evs, ids))
           /\ \A e \in Ids(evs) : e \in Ids(Without(evs, ids)) <=> e \notin ids
<1>1. CASE \A i \in DOMAIN evs : evs[i].id \notin ids
  BY <1>1 DEF Without, Within, Ids
<1>2. CASE ~\A i \in DOMAIN evs : evs[i].id \notin ids
  <2> DEFINE I == {i \in DOMAIN evs : evs[i].id \notin ids}
             new == Kept(evs, I)
  <2>1. I \in SUBSET DOMAIN evs /\ \A i, j \in I : evs[i] = evs[j] => i = j
    BY DEF Distinct
  <2>2. /\ new \in Seq(EventRec)
        /\ \A k \in DOMAIN new : \E i \in I : new[k] = evs[i]
        /\ \A i \in I : \E k \in DOMAIN new : new[k] = evs[i]
        /\ \A k, l \in DOMAIN new : new[k] = new[l] => k = l
    BY <2>1, KeptOnce
  <2>3. Without(evs, ids) = new
    BY <1>2 DEF Without
  <2> HIDE DEF new
  <2>4. Distinct(new)
    <3> SUFFICES ASSUME NEW k \in DOMAIN new, NEW l \in DOMAIN new, new[k].id = new[l].id
                 PROVE  new[k] = new[l]
      BY <2>2 DEF Distinct
    <3>1. PICK i \in I : new[k] = evs[i]
      BY <2>2
    <3>2. PICK j \in I : new[l] = evs[j]
      BY <2>2
    <3>3. i = j
      BY <3>1, <3>2 DEF Distinct
    <3> QED BY <3>1, <3>2, <3>3
  <2>5. Within(evs, new)
    BY <2>2 DEF Within
  <2>6. ASSUME NEW e \in Ids(evs), e \notin ids PROVE e \in Ids(new)
    BY <2>2, <2>6 DEF Ids
  <2>7. ASSUME NEW e \in Ids(new) PROVE e \notin ids
    BY <2>2 DEF Ids
  <2> QED BY <2>2, <2>3, <2>4, <2>5, <2>6, <2>7
<1> QED BY <1>1, <1>2

\* An event that is written back without its claim.
LEMMA StoredType ==
    ASSUME NEW e \in Events
    PROVE  /\ StoredEvent(e) \in EventRec /\ StoredEvent(e).id = e /\ StoredEvent(e).token = 0
           /\ StoredEvent(e).early = FALSE
  BY DEF StoredEvent, EventRec

\* The claims of some events are taken off.
LEMMA FreedThins ==
    ASSUME NEW evs \in Seq(EventRec), Distinct(evs), NEW new, DOMAIN new = DOMAIN evs,
           new = [i \in DOMAIN evs |-> new[i]],
           \A i \in DOMAIN evs : /\ new[i] \in EventRec /\ new[i].id = evs[i].id
                                 /\ new[i].token \in {0, evs[i].token}
                                 /\ new[i].early \in {FALSE, evs[i].early}
    PROVE  /\ new \in Seq(EventRec) /\ Distinct(new) /\ Within(evs, new)
           /\ Ids(new) = Ids(evs) /\ Len(new) = Len(evs)
<1>1. new \in Seq(EventRec) /\ Len(new) = Len(evs)
  <2>1. \A i \in DOMAIN evs : new[i] \in EventRec
    OBVIOUS
  <2> QED BY <2>1, ListType
<1>2. Distinct(new)
  <2>1. \A i \in DOMAIN evs : new[i].id = evs[i].id
    OBVIOUS
  <2> QED BY <2>1 DEF Distinct
<1>3. Within(evs, new)
  <2> SUFFICES ASSUME NEW j \in DOMAIN evs
               PROVE  /\ new[j].id = evs[j].id
                      /\ new[j].token \in {0, evs[j].token}
                      /\ new[j].early \in {FALSE, evs[j].early}
    BY ZenonT(30) DEF Within
  <2> QED OBVIOUS
<1>4. Ids(new) = Ids(evs)
  BY DEF Ids
<1> QED BY <1>1, <1>2, <1>3, <1>4

\* cleanup: what is left of a scope has lost the aged events and lapsed claims.
LEMMA CleanedThins ==
    ASSUME NEW s, ScopeInv(s)
    PROVE  /\ Thins(s, CleanedScope(s))
           /\ \A e \in Ids(s.events) : e \in Ids(CleanedScope(s).events) \/ e \in aged
<1> DEFINE kept == Without(s.events, aged)
           new == [i \in DOMAIN kept |->
                     IF kept[i].lapsed THEN StoredEvent(kept[i].id) ELSE kept[i]]
<1>1. s \in ScopeRec /\ s.events \in Seq(EventRec) /\ Distinct(s.events)
  BY DEF ScopeInv, ScopeRec, Distinct
<1>2. /\ kept \in Seq(EventRec) /\ Distinct(kept) /\ Within(s.events, kept)
      /\ \A e \in Ids(s.events) : e \in Ids(kept) <=> e \notin aged
  BY <1>1, WithoutThins
<1>3. CleanedScope(s) = IF kept = << >> THEN NoScope ELSE [s EXCEPT !.events = new]
  BY DEF CleanedScope
<1> HIDE DEF kept
<1>4. CASE kept = << >>
  <2>1. Ids(kept) = {}
    BY <1>4 DEF Ids
  <2> QED BY <1>2, <1>3, <1>4, <2>1, NoScopeThins
<1>5. CASE kept # << >>
  <2>1. \A i \in DOMAIN kept : /\ kept[i] \in EventRec /\ kept[i].id \in Events
    <3>1. \A i \in DOMAIN kept : kept[i] \in EventRec
      BY <1>2
    <3>2. \A ev \in EventRec : ev.id \in Events
      BY DEF EventRec
    <3> QED BY <3>1, <3>2
  <2>2. \A i \in DOMAIN kept : /\ new[i] \in EventRec /\ new[i].id = kept[i].id
                               /\ new[i].token \in {0, kept[i].token}
                               /\ new[i].early \in {FALSE, kept[i].early}
    BY <2>1, StoredType
  <2>3. DOMAIN new = DOMAIN kept /\ new = [i \in DOMAIN kept |-> new[i]]
    OBVIOUS
  <2> HIDE DEF new
  <2>4. /\ new \in Seq(EventRec) /\ Distinct(new) /\ Within(kept, new)
        /\ Ids(new) = Ids(kept)
    BY <1>2, <2>2, <2>3, FreedThins
  <2>5. Within(s.events, new)
    <3> SUFFICES ASSUME NEW k \in DOMAIN new
                 PROVE  \E i \in DOMAIN s.events : /\ new[k].id = s.events[i].id
                                                   /\ new[k].token \in {0, s.events[i].token}
                                                   /\ new[k].early \in {FALSE, s.events[i].early}
      BY DEF Within
    <3>1. PICK j \in DOMAIN kept : /\ new[k].id = kept[j].id
                                   /\ new[k].token \in {0, kept[j].token}
                                   /\ new[k].early \in {FALSE, kept[j].early}
      BY <2>4 DEF Within
    <3>2. PICK i \in DOMAIN s.events : /\ kept[j].id = s.events[i].id
                                       /\ kept[j].token \in {0, s.events[i].token}
                                       /\ kept[j].early \in {FALSE, s.events[i].early}
      BY <1>2 DEF Within
    <3> QED BY <3>1, <3>2
  <2> DEFINE t == [s EXCEPT !.events = new]
  <2>6. t \in ScopeRec /\ t.events = new /\ t.limit = s.limit /\ s.limit \in Nat
    BY <1>1, <2>4, EventAssumption DEF ScopeRec
  <2> HIDE DEF t
  <2>7. Thins(s, t)
    BY <2>4, <2>5, <2>6, ThinReads
  <2> QED BY <1>2, <1>3, <1>5, <2>4, <2>6, <2>7 DEF t
<1> QED BY <1>4, <1>5

-----------------------------------------------------------------------------
(* What an operation of the queue leaves.                                  *)

Reasons == {"sent", "expired", "discarded"}

\* Nothing is stored but what was, and the event that is being stored; what
\* is dropped leaves for a reason, and as sent only if it was received.
Keeps ==
    /\ queue' \in [Accounts -> ScopeRec]
    /\ \A a \in Accounts : /\ ScopeInv(queue'[a])
                           /\ Ids(queue'[a].events) \subseteq Ids(queue[a].events) \cup Storing(a)
    /\ gone' \in [Events -> {"no"} \cup Reasons]
    /\ \A e \in Events : \/ gone'[e] = gone[e]
                         \/ /\ e \in StoredIn(queue) \ StoredIn(queue')
                            /\ gone'[e] \in Reasons
                            /\ gone'[e] = "sent" => received[e] # {}

LEMMA QueueTyped ==
    ASSUME Types, QueueInv, NEW a \in Accounts
    PROVE  /\ queue[a] \in ScopeRec /\ queue[a].events \in Seq(EventRec)
           /\ Distinct(queue[a].events) /\ ScopeInv(queue[a])
           /\ queue[a].limit \in 1 .. MaxBatch /\ queue[a].retry \in Retries
           /\ Ids(queue[a].events) \subseteq Events
<1>1. queue[a] \in ScopeRec /\ queue[a].events \in Seq(EventRec)
      /\ queue[a].limit \in 1 .. MaxBatch /\ queue[a].retry \in Retries
  BY DEF Types, ScopeRec
<1>2. ScopeInv(queue[a]) /\ Distinct(queue[a].events)
  BY DEF QueueInv, ScopeInv, Distinct
<1>3. Ids(queue[a].events) \subseteq Events
  <2>1. \A i \in DOMAIN queue[a].events : queue[a].events[i] \in EventRec
    BY <1>1
  <2>2. \A ev \in EventRec : ev.id \in Events
    BY DEF EventRec
  <2> QED BY <2>1, <2>2 DEF Ids
<1> QED BY <1>1, <1>2, <1>3

LEMMA StillKeeps ==
    ASSUME Types, QueueInv, UNCHANGED <<queue, gone>>
    PROVE  Keeps /\ \A a \in Accounts : Thins(queue[a], queue'[a])
<1>1. \A a \in Accounts : ScopeInv(queue[a])
  BY DEF QueueInv
<1> QED BY <1>1, ThinsSelf DEF Keeps, Types, Reasons

\* A write that only drops events, and names why, keeps what Keeps asks.
LEMMA StoreKeeps ==
    ASSUME Types, QueueInv, NEW q \in [Accounts -> ScopeRec], NEW reason \in Reasons,
           Store(q, reason),
           \A a \in Accounts : /\ ScopeInv(q[a])
                               /\ Ids(q[a].events) \subseteq Ids(queue[a].events) \cup Storing(a),
           reason = "sent" =>
              \A e \in StoredIn(queue) \ StoredIn(q) : e \in aged \/ received[e] # {}
    PROVE  Keeps /\ queue' = q
<1> DEFINE dropped == StoredIn(queue) \ StoredIn(q)
<1>1. /\ queue' = q
      /\ gone' = [e \in Events |->
                    IF e \notin dropped THEN gone[e]
                    ELSE IF e \in aged /\ reason # "discarded" THEN "expired" ELSE reason]
  BY DEF Store
<1>2. dropped = StoredIn(queue) \ StoredIn(queue')
  BY <1>1 DEF StoredIn
<1> HIDE DEF dropped
<1>3. gone' \in [Events -> {"no"} \cup Reasons]
  BY <1>1 DEF Types, Reasons
<1>4. ASSUME NEW e \in Events
      PROVE  \/ gone'[e] = gone[e]
             \/ /\ e \in StoredIn(queue) \ StoredIn(queue')
                /\ gone'[e] \in Reasons
                /\ gone'[e] = "sent" => received[e] # {}
  <2>1. CASE e \notin dropped
    BY <1>1, <2>1
  <2>2. CASE e \in dropped
    <3>1. gone'[e] = IF e \in aged /\ reason # "discarded" THEN "expired" ELSE reason
      BY <1>1, <2>2
    <3>2. gone'[e] = "sent" => reason = "sent" /\ e \notin aged
      BY <3>1
    <3>3. gone'[e] \in Reasons
      BY <3>1 DEF Reasons
    <3> QED BY <1>2, <2>2, <3>2, <3>3 DEF dropped
  <2> QED BY <2>1, <2>2
<1> QED BY <1>1, <1>3, <1>4 DEF Keeps

LEMMA ThinStoreKeeps ==
    ASSUME Types, QueueInv, NEW q \in [Accounts -> ScopeRec], NEW reason \in Reasons,
           Store(q, reason), \A a \in Accounts : Thins(queue[a], q[a]),
           reason = "sent" =>
              \A e \in StoredIn(queue) \ StoredIn(q) : e \in aged \/ received[e] # {}
    PROVE  Keeps /\ queue' = q /\ \A a \in Accounts : Thins(queue[a], queue'[a])
<1>1. \A a \in Accounts : /\ ScopeInv(q[a])
                          /\ Ids(q[a].events) \subseteq Ids(queue[a].events) \cup Storing(a)
  BY WithinIds DEF Thins
<1>2. Keeps /\ queue' = q
  BY <1>1, StoreKeeps
<1> QED BY <1>2

\* Every operation begins with the cleaned envelope.
LEMMA CleanedTyped ==
    ASSUME Types, QueueInv
    PROVE  /\ Cleaned(queue) \in [Accounts -> ScopeRec]
           /\ \A a \in Accounts :
                 /\ Cleaned(queue)[a] = CleanedScope(queue[a])
                 /\ Thins(queue[a], Cleaned(queue)[a]) /\ ScopeInv(Cleaned(queue)[a])
                 /\ Cleaned(queue)[a] \in ScopeRec
                 /\ Cleaned(queue)[a].events \in Seq(EventRec)
                 /\ Distinct(Cleaned(queue)[a].events)
                 /\ Cleaned(queue)[a].limit \in 1 .. MaxBatch
                 /\ Ids(Cleaned(queue)[a].events) \subseteq Ids(queue[a].events)
                 /\ \A e \in Ids(queue[a].events) :
                       e \in Ids(Cleaned(queue)[a].events) \/ e \in aged
<1>1. ASSUME NEW a \in Accounts
      PROVE  /\ Thins(queue[a], CleanedScope(queue[a]))
             /\ ScopeInv(CleanedScope(queue[a])) /\ CleanedScope(queue[a]) \in ScopeRec
             /\ Ids(CleanedScope(queue[a]).events) \subseteq Ids(queue[a].events)
             /\ \A e \in Ids(queue[a].events) :
                       e \in Ids(CleanedScope(queue[a]).events) \/ e \in aged
  <2>1. ScopeInv(queue[a])
    BY DEF QueueInv
  <2> QED BY <2>1, CleanedThins, WithinIds DEF Thins, ScopeInv
<1>2. Cleaned(queue) = [a \in Accounts |-> CleanedScope(queue[a])]
  BY DEF Cleaned
<1>3. \A s \in ScopeRec : s.events \in Seq(EventRec) /\ s.limit \in 1 .. MaxBatch
  BY DEF ScopeRec
<1>4. \A s : ScopeInv(s) => Distinct(s.events)
  BY DEF ScopeInv, Distinct
<1> QED BY <1>1, <1>2, <1>3, <1>4

LEMMA CleanedKeeps ==
    ASSUME Types, QueueInv, Store(Cleaned(queue), "expired")
    PROVE  Keeps /\ \A a \in Accounts : Thins(queue[a], queue'[a])
<1>1. "expired" \in Reasons /\ "expired" # "sent"
  BY DEF Reasons
<1> QED BY <1>1, CleanedTyped, ThinStoreKeeps

\* discardScope: the scope is empty afterwards.
LEMMA DiscardKeeps ==
    ASSUME Types, QueueInv, NEW a \in Accounts, DiscardScope(a)
    PROVE  /\ Keeps /\ \A b \in Accounts : Thins(queue[b], queue'[b])
           /\ Ids(queue'[a].events) = {}
<1> DEFINE q == [queue EXCEPT ![a] = NoScope]
<1>1. Store(q, "discarded")
  BY DEF DiscardScope
<1>2. NoScope \in ScopeRec
  BY NoScopeThins DEF ScopeInv
<1>3. q \in [Accounts -> ScopeRec] /\ q[a] = NoScope /\ \A b \in Accounts \ {a} : q[b] = queue[b]
  BY <1>2 DEF Types
<1> HIDE DEF q
<1>4. \A b \in Accounts : Thins(queue[b], q[b])
  BY <1>3, NoScopeThins, ThinsSelf DEF QueueInv
<1>5. "discarded" \in Reasons /\ "discarded" # "sent"
  BY DEF Reasons
<1>6. Keeps /\ queue' = q /\ \A b \in Accounts : Thins(queue[b], queue'[b])
  BY <1>1, <1>3, <1>4, <1>5, ThinStoreKeeps
<1> QED BY <1>3, <1>6, NoScopeThins

LEMMA FreeReads ==
    ASSUME NEW s, NEW t \in ScopeRec, Distinct(t.events), Within(s.events, t.events),
           Claimed(t.events) = {}
    PROVE  Thins(s, t)
<1>1. Cardinality(Claimed(t.events)) = 0
  BY FS_EmptySet
<1>2. t.limit \in Nat
  BY EventAssumption DEF ScopeRec
<1>3. Cardinality(Claimed(t.events)) <= t.limit
  BY <1>1, <1>2
<1> QED BY <1>3 DEF Thins, ScopeInv, OneClaim, Distinct

\* What a flight still holds in the envelope is of its batch.
LEMMA MineIsBatch ==
    ASSUME NEW q, NEW a
    PROVE  StillClaimed(q, a) \subseteq flight[a].ids
  BY DEF StillClaimed

\* Acknowledged: what the batch still holds leaves; the server has taken it.
LEMMA AcknowledgedKeeps ==
    ASSUME Types, QueueInv, FlightInv, NEW a \in Accounts, Answered(a) = "taken",
           Store(Acknowledged(Cleaned(queue), a), "sent")
    PROVE  Keeps /\ \A b \in Accounts : Thins(queue[b], queue'[b])
<1> DEFINE q == Cleaned(queue)
           mine == StillClaimed(q, a)
           left == Without(q[a].events, mine)
           t == IF left = << >> THEN NoScope
                ELSE [q[a] EXCEPT !.events = left, !.retry = IF mine = {} THEN q[a].retry ELSE "none"]
           r == [q EXCEPT ![a] = t]
<1>1. Store(r, "sent")
  BY DEF Acknowledged
<1>2. /\ q \in [Accounts -> ScopeRec] /\ q[a] \in ScopeRec
      /\ q[a].events \in Seq(EventRec) /\ Distinct(q[a].events) /\ ScopeInv(q[a])
      /\ \A b \in Accounts : /\ Thins(queue[b], q[b])
                             /\ \A e \in Ids(queue[b].events) : e \in Ids(q[b].events) \/ e \in aged
  BY CleanedTyped
<1> HIDE DEF q
<1>3. /\ left \in Seq(EventRec) /\ Distinct(left) /\ Within(q[a].events, left)
      /\ \A e \in Ids(q[a].events) : e \in Ids(left) <=> e \notin mine
  BY <1>2, WithoutThins
<1>4. \A e \in mine : received[e] # {}
  <2>1. flight[a].outcome = "taken"
    BY DEF Answered
  <2> QED BY <2>1, MineIsBatch DEF FlightInv
<1> HIDE DEF left, mine
<1>5. /\ Thins(q[a], t) /\ t \in ScopeRec
      /\ \A e \in Ids(q[a].events) : e \in Ids(t.events) \/ e \in mine
  <2>1. CASE left = << >>
    <3>1. Ids(left) = {}
      BY <2>1 DEF Ids
    <3>2. t = NoScope
      BY <2>1
    <3> HIDE DEF t
    <3> QED BY <1>3, <3>1, <3>2, NoScopeThins DEF ScopeInv
  <2>2. CASE left # << >>
    <3>2. PICK d \in Retries : d = IF mine = {} THEN q[a].retry ELSE "none"
      BY <1>2 DEF ScopeRec, Retries
    <3>3. t = [q[a] EXCEPT !.events = left, !.retry = d]
      BY <2>2, <3>2
    <3> HIDE DEF t
    <3>4. t \in ScopeRec
      BY <1>2, <1>3, <3>3 DEF ScopeRec
    <3>5. t.events = left /\ t.limit = q[a].limit
      BY <1>2, <3>3 DEF ScopeRec
    <3>6. \A s \in ScopeRec : s.limit \in Nat
      BY EventAssumption DEF ScopeRec
    <3>1. /\ t \in ScopeRec /\ t.events = left /\ t.limit = q[a].limit /\ q[a].limit \in Nat
      BY <1>2, <3>4, <3>5, <3>6
    <3> QED BY <1>2, <1>3, <3>1, ThinReads
  <2> QED BY <2>1, <2>2
<1> HIDE DEF t
<1>6. /\ r \in [Accounts -> ScopeRec] /\ r[a] = t
      /\ \A b \in Accounts \ {a} : r[b] = q[b]
  BY <1>2, <1>5
<1> HIDE DEF r
<1>7. \A b \in Accounts : Thins(queue[b], r[b])
  BY <1>2, <1>5, <1>6, ThinsTwice
<1>8. ASSUME NEW e \in StoredIn(queue) \ StoredIn(r)
      PROVE  e \in aged \/ received[e] # {}
  <2>1. PICK b \in Accounts : e \in Ids(queue[b].events) /\ e \notin Ids(r[b].events)
    BY <1>8 DEF StoredIn
  <2> QED BY <1>2, <1>4, <1>5, <1>6, <2>1
<1>9. "sent" \in Reasons
  BY DEF Reasons
<1> QED BY <1>1, <1>6, <1>7, <1>8, <1>9, ThinStoreKeeps

\* The smaller batch limit is still one.
LEMMA HalvedType ==
    ASSUME NEW limit \in 1 .. MaxBatch, NEW n \in Nat
    PROVE  Halved(limit, n) \in 1 .. MaxBatch
<1>1. MaxBatch \in Nat
  BY EventAssumption
<1> DEFINE least == IF n < limit THEN n ELSE limit
           half == least \div 2
<1>2. least \in Nat /\ least <= MaxBatch
  BY <1>1
<1> HIDE DEF least
<1>3. half \in Nat /\ half <= MaxBatch
  BY <1>1, <1>2
<1>4. Halved(limit, n) = IF half = 0 THEN 1 ELSE half
  BY DEF Halved, least
<1> HIDE DEF half
<1> QED BY <1>1, <1>3, <1>4

\* Released: the claim is off, so the smaller limit bars nothing.
LEMMA ReleasedKeeps ==
    ASSUME Types, QueueInv, FlightInv, NEW a \in Accounts, flight[a].step = "sent",
           IsFiniteSet(flight[a].ids),
           StillClaimed(Cleaned(queue), a) # {},
           Store(Released(Cleaned(queue), a), "expired")
    PROVE  Keeps /\ \A b \in Accounts : Thins(queue[b], queue'[b])
<1> DEFINE q == Cleaned(queue)
           mine == StillClaimed(q, a)
           freed == [i \in DOMAIN q[a].events |->
                       IF q[a].events[i].id \in mine THEN StoredEvent(q[a].events[i].id)
                                                     ELSE q[a].events[i]]
           limit == IF Answered(a) = "too_large"
                    THEN Halved(q[a].limit, Cardinality(flight[a].ids)) ELSE q[a].limit
           t == [q[a] EXCEPT !.events = freed, !.retry = "waits", !.limit = limit]
           r == [q EXCEPT ![a] = t]
<1>2. /\ q \in [Accounts -> ScopeRec] /\ q[a] \in ScopeRec
      /\ q[a].events \in Seq(EventRec) /\ Distinct(q[a].events) /\ ScopeInv(q[a])
      /\ q[a].limit \in 1 .. MaxBatch /\ \A b \in Accounts : Thins(queue[b], q[b])
  BY CleanedTyped
<1>1. Store(r, "expired")
  <2>1. Released(q, a) = r
    BY <1>2 DEF Released
  <2> QED BY <2>1
<1>0. mine # {}
  OBVIOUS
<1> HIDE DEF q
<1>3. \A i \in DOMAIN q[a].events : /\ q[a].events[i] \in EventRec
                                    /\ q[a].events[i].id \in Events
  <2>1. \A ev \in EventRec : ev.id \in Events
    BY DEF EventRec
  <2> QED BY <1>2, <2>1
<1>4. /\ freed \in Seq(EventRec) /\ Distinct(freed) /\ Within(q[a].events, freed)
  <2>1. \A i \in DOMAIN q[a].events : /\ freed[i] \in EventRec
                                      /\ freed[i].id = q[a].events[i].id
                                      /\ freed[i].token \in {0, q[a].events[i].token}
                                      /\ freed[i].early \in {FALSE, q[a].events[i].early}
    BY <1>3, StoredType
  <2>2. DOMAIN freed = DOMAIN q[a].events /\ freed = [i \in DOMAIN q[a].events |-> freed[i]]
    OBVIOUS
  <2> HIDE DEF freed
  <2> QED BY <1>2, <2>1, <2>2, FreedThins
<1>5. Claimed(freed) = {}
  <2> SUFFICES ASSUME NEW i \in DOMAIN q[a].events, freed[i].token # 0 PROVE FALSE
    BY DEF Claimed
  <2>1. q[a].events[i].id \notin mine /\ q[a].events[i].token # 0
    BY <1>3, StoredType
  <2>2. PICK j \in DOMAIN q[a].events : q[a].events[j].token = flight[a].token
    BY <1>0 DEF StillClaimed
  <2>3. flight[a].token # 0
    BY DEF FlightInv
  <2>4. q[a].events[i].token = flight[a].token
    BY <1>2, <2>1, <2>2, <2>3 DEF ScopeInv, OneClaim, Claimed
  <2>5. PICK h \in DOMAIN queue[a].events :
              /\ q[a].events[i].id = queue[a].events[h].id
              /\ q[a].events[i].token \in {0, queue[a].events[h].token}
    BY <1>2 DEF Thins, Within
  <2>6. q[a].events[i].id \in flight[a].ids
    BY <2>1, <2>3, <2>4, <2>5 DEF FlightInv
  <2> QED BY <2>1, <2>4, <2>6 DEF StillClaimed
<1>6. limit \in 1 .. MaxBatch
  BY <1>2, HalvedType, FS_CardinalityType
<1> HIDE DEF freed, limit
<1>7. t \in ScopeRec /\ t.events = freed
  BY <1>2, <1>4, <1>6 DEF ScopeRec, Retries
<1> HIDE DEF t
<1>8. Thins(q[a], t)
  BY <1>4, <1>5, <1>7, FreeReads
<1>9. /\ r \in [Accounts -> ScopeRec] /\ r[a] = t
      /\ \A b \in Accounts \ {a} : r[b] = q[b]
  BY <1>2, <1>7
<1> HIDE DEF r
<1>10. \A b \in Accounts : Thins(queue[b], r[b])
  BY <1>2, <1>8, <1>9, ThinsTwice
<1>11. "expired" \in Reasons /\ "expired" # "sent"
  BY DEF Reasons
<1> QED BY <1>1, <1>9, <1>10, <1>11, ThinStoreKeeps

\* There are at most two tokens of each account, so one is free.
LEMMA NewTokenFound ==
    ASSUME Types, QueueInv
    PROVE  NewToken \in Nat \ {0}
<1> DEFINE n == Cardinality(Accounts)
           pairs == Accounts \X (1 .. 2)
           claim(a) == CHOOSE t : \A i \in Claimed(queue[a].events) : queue[a].events[i].token = t
           tokenOf == [p \in pairs |-> IF p[2] = 1 THEN claim(p[1]) ELSE flight[p[1]].token]
           found == {tokenOf[p] : p \in pairs}
<1>1. IsFiniteSet(Accounts) /\ n \in Nat
  BY EventAssumption, FS_CardinalityType
<1>2. IsFiniteSet(pairs) /\ Cardinality(pairs) = n * 2
  <2>1. 1 \in Int /\ 2 \in Int /\ ~(1 > 2) /\ 2 - 1 + 1 = 2
    OBVIOUS
  <2>2. IsFiniteSet(1 .. 2) /\ Cardinality(1 .. 2) = 2
    <3> HIDE DEF found, tokenOf, claim, n
    <3> QED BY <2>1, FS_Interval
  <2> QED BY <1>1, <2>2, FS_Product
<1>3. tokenOf \in Surjection(pairs, found)
  BY DEF Surjection
<1>4. IsFiniteSet(found) /\ Cardinality(found) <= n * 2
  BY <1>2, <1>3, FS_Surjection
<1>5. ASSUME NEW t \in TokensInUse, t # 0 PROVE t \in found
  <2>1. PICK a \in Accounts : \/ t = flight[a].token
                              \/ \E i \in DOMAIN queue[a].events : t = queue[a].events[i].token
    BY DEF TokensInUse
  <2>2. <<a, 1>> \in pairs /\ <<a, 2>> \in pairs
    OBVIOUS
  <2>3. CASE t = flight[a].token
    <3>1. tokenOf[<<a, 2>>] = flight[a].token
      BY <2>2
    <3> HIDE DEF tokenOf
    <3> QED BY <2>2, <2>3, <3>1
  <2>4. CASE \E i \in DOMAIN queue[a].events : t = queue[a].events[i].token
    <3>1. PICK i \in DOMAIN queue[a].events : t = queue[a].events[i].token
      BY <2>4
    <3>2. i \in Claimed(queue[a].events)
      BY <1>5, <3>1 DEF Claimed
    <3>3. \A j \in Claimed(queue[a].events) : queue[a].events[j].token = t
      BY <3>1, <3>2 DEF QueueInv, ScopeInv, OneClaim
    <3>4. claim(a) = t
      BY <3>1, <3>2, <3>3
    <3> HIDE DEF claim
    <3>5. tokenOf[<<a, 1>>] = t
      BY <2>2, <3>4
    <3> QED BY <2>2, <3>5
  <2> QED BY <2>1, <2>3, <2>4
<1>6. \E t \in 1 .. (2 * n + 1) : t \notin TokensInUse
  <2> SUFFICES ASSUME 1 .. (2 * n + 1) \subseteq TokensInUse PROVE FALSE
    OBVIOUS
  <2>1. 1 .. (2 * n + 1) \in SUBSET found
    <3> SUFFICES ASSUME NEW t \in 1 .. (2 * n + 1) PROVE t \in found
      OBVIOUS
    <3> HIDE DEF found, n
    <3>1. t \in TokensInUse /\ t # 0
      BY <1>1
    <3> QED BY <1>5, <3>1
  <2>2. Cardinality(1 .. (2 * n + 1)) = 2 * n + 1
    BY <1>1, FS_Interval
  <2>3. Cardinality(1 .. (2 * n + 1)) <= Cardinality(found)
    BY <1>4, <2>1, FS_Subset
  <2>4. Cardinality(found) \in Nat
    BY <1>4, FS_CardinalityType
  <2> HIDE DEF found
  <2> QED BY <1>1, <1>4, <2>2, <2>3, <2>4
<1>7. NewToken \in 1 .. (2 * n + 1)
  BY <1>6 DEF NewToken
<1> QED BY <1>1, <1>7

\* Enqueue: the event of the running commit joins the scope, unclaimed.
LEMMA EnqueueKeeps ==
    ASSUME Types, QueueInv, LaneInv, FlightInv, NEW a \in Accounts,
           flight[a].step = "enqueuing",
           Store([Cleaned(queue) EXCEPT ![a].events =
                     Append(@, StoredEvent(lane[a][1].event))], "expired")
    PROVE  /\ Keeps /\ \A b \in Accounts \ {a} : Thins(queue[b], queue'[b])
           /\ OnTime(queue[a].events) => OnTime(queue'[a].events)
<1> DEFINE q == Cleaned(queue)
           e == lane[a][1].event
           new == Append(q[a].events, StoredEvent(e))
           t == [q[a] EXCEPT !.events = new]
           r == [q EXCEPT ![a] = t]
<1>1. /\ q \in [Accounts -> ScopeRec] /\ q[a] \in ScopeRec
      /\ q[a].events \in Seq(EventRec) /\ Distinct(q[a].events) /\ ScopeInv(q[a])
      /\ \A b \in Accounts : /\ Thins(queue[b], q[b]) /\ ScopeInv(q[b])
                             /\ Ids(q[b].events) \subseteq Ids(queue[b].events)
  BY CleanedTyped
<1>2. Store(r, "expired")
  <2>1. [q EXCEPT ![a].events = Append(@, StoredEvent(lane[a][1].event))] = r
    BY <1>1
  <2> QED BY <2>1
<1> HIDE DEF q
<1>3. e \in Events /\ e \notin Ids(queue[a].events) /\ Storing(a) = {e}
  BY DEF FlightInv, LaneInv, CommitAt, Storing
<1> HIDE DEF e
<1>4. /\ StoredEvent(e) \in EventRec /\ StoredEvent(e).id = e /\ StoredEvent(e).token = 0
      /\ StoredEvent(e).early = FALSE
  BY <1>3, StoredType
<1>5. /\ new \in Seq(EventRec) /\ Len(new) = Len(q[a].events) + 1
      /\ \A i \in DOMAIN q[a].events : i \in DOMAIN new /\ new[i] = q[a].events[i]
      /\ \A i \in DOMAIN new : i \in DOMAIN q[a].events \/ i = Len(q[a].events) + 1
      /\ new[Len(q[a].events) + 1] = StoredEvent(e)
  BY <1>1, <1>4
<1> HIDE DEF new
<1>6. Ids(new) = Ids(q[a].events) \cup {e}
  <2>1. Len(q[a].events) + 1 \in DOMAIN new
    BY <1>1, <1>5
  <2> QED BY <1>4, <1>5, <2>1 DEF Ids
<1>7. Distinct(new)
  <2>1. \A i \in DOMAIN q[a].events : q[a].events[i].id # e
    BY <1>1, <1>3 DEF Ids
  <2> QED BY <1>1, <1>4, <1>5, <2>1 DEF Distinct
<1>8. Claimed(new) = Claimed(q[a].events)
  BY <1>4, <1>5 DEF Claimed
<1>9. t \in ScopeRec /\ t.events = new /\ t.limit = q[a].limit
  BY <1>1, <1>5 DEF ScopeRec
<1> HIDE DEF t
<1>10. ScopeInv(t)
  <2>1. \A i \in Claimed(q[a].events) : new[i] = q[a].events[i]
    BY <1>5 DEF Claimed
  <2>2. OneClaim(t)
    BY <1>1, <1>8, <1>9, <2>1 DEF ScopeInv, OneClaim
  <2> QED BY <1>7, <1>9, <2>2 DEF ScopeInv, Distinct
<1>11. /\ r \in [Accounts -> ScopeRec] /\ r[a] = t
       /\ \A b \in Accounts \ {a} : r[b] = q[b]
  BY <1>1, <1>9
<1> HIDE DEF r
<1>12. \A b \in Accounts : /\ ScopeInv(r[b])
                           /\ Ids(r[b].events) \subseteq Ids(queue[b].events) \cup Storing(b)
  BY <1>1, <1>3, <1>6, <1>9, <1>10, <1>11
<1>13. "expired" \in Reasons /\ "expired" # "sent"
  BY DEF Reasons
<1>14. Keeps /\ queue' = r
  BY <1>2, <1>11, <1>12, <1>13, StoreKeeps
<1>15. OnTime(queue[a].events) => OnTime(new)
  <2>1. OnTime(queue[a].events) => OnTime(q[a].events)
    BY <1>1, ThinOnTime
  <2> QED BY <1>4, <1>5, <2>1 DEF OnTime
<1> QED BY <1>1, <1>9, <1>11, <1>14, <1>15

\* ClaimTaken: the claim is the only one, and within the limit.
LEMMA ClaimTakenKeeps ==
    ASSUME Types, QueueInv, NEW a \in Accounts, ClaimTaken(a)
    PROVE  /\ Keeps /\ \A b \in Accounts \ {a} : Thins(queue[b], queue'[b])
           /\ \E ids \in SUBSET Ids(queue[a].events) :
                 /\ flight' = [flight EXCEPT ![a] =
                       [flight[a] EXCEPT !.step = "claimed", !.token = NewToken, !.ids = ids]]
                 /\ \A i \in DOMAIN queue'[a].events :
                       queue'[a].events[i].token # 0 => queue'[a].events[i].id \in ids
           /\ ahead = {} /\ OnTime(queue[a].events) => OnTime(queue'[a].events)
<1> DEFINE q == Cleaned(queue)
           evs == q[a].events
           size == IF Len(evs) < q[a].limit THEN Len(evs) ELSE q[a].limit
           take(ev) == [ev EXCEPT !.token = NewToken, !.early = ev.id \in ahead]
           new == [i \in DOMAIN evs |-> IF i <= size THEN take(evs[i]) ELSE evs[i]]
           ids == {evs[i].id : i \in 1 .. size}
           t == [q[a] EXCEPT !.events = new]
           r == [q EXCEPT ![a] = t]
<1>1. /\ q \in [Accounts -> ScopeRec] /\ q[a] \in ScopeRec
      /\ evs \in Seq(EventRec) /\ Distinct(evs) /\ q[a].limit \in 1 .. MaxBatch
      /\ \A b \in Accounts : /\ Thins(queue[b], q[b]) /\ ScopeInv(q[b])
                             /\ Ids(q[b].events) \subseteq Ids(queue[b].events)
  BY CleanedTyped
<1>2. /\ Store(r, "expired") /\ Claimed(evs) = {}
      /\ flight' = [flight EXCEPT ![a].step = "claimed", ![a].token = NewToken, ![a].ids = ids]
  <2>1. Store([q EXCEPT ![a].events =
                 [i \in DOMAIN @ |-> IF i <= size THEN take(@[i]) ELSE @[i]]], "expired")
    BY DEF ClaimTaken
  <2>2. Claimed(evs) = {}
        /\ flight' = [flight EXCEPT ![a].step = "claimed", ![a].token = NewToken, ![a].ids = ids]
    BY DEF ClaimTaken
  <2>3. [q EXCEPT ![a].events =
                 [i \in DOMAIN @ |-> IF i <= size THEN take(@[i]) ELSE @[i]]] = r
    BY <1>1
  <2> QED BY <2>1, <2>2, <2>3
<1> HIDE DEF q
<1>3. NewToken \in Nat \ {0}
  BY NewTokenFound
<1>4. /\ DOMAIN evs = 1 .. Len(evs) /\ Len(evs) \in Nat
      /\ size \in Nat /\ size <= Len(evs) /\ size <= q[a].limit
  BY <1>1
<1>5. \A i \in DOMAIN evs : evs[i] \in EventRec
  BY <1>1
<1> HIDE DEF evs, size
<1>6. ASSUME NEW i \in DOMAIN evs
      PROVE  /\ new[i] \in EventRec /\ new[i].id = evs[i].id
             /\ new[i].token = IF i <= size THEN NewToken ELSE evs[i].token
             /\ ahead # {} \/ new[i].early \in {FALSE, evs[i].early}
  <2> DEFINE late == evs[i].id \in ahead
  <2>1. late \in BOOLEAN /\ (ahead # {} \/ late = FALSE)
    OBVIOUS
  <2>2. i <= size => new[i] = [evs[i] EXCEPT !.token = NewToken, !.early = late]
    OBVIOUS
  <2>3. ~(i <= size) => new[i] = evs[i]
    OBVIOUS
  <2>4. evs[i] \in EventRec
    BY <1>5
  <2> HIDE DEF late, new
  <2>5. CASE i <= size
    <3>1. new[i] \in EventRec /\ new[i].id = evs[i].id /\ new[i].token = NewToken
      BY <1>3, <2>1, <2>2, <2>4, <2>5 DEF EventRec
    <3>2. new[i].early = late
      BY <2>2, <2>4, <2>5 DEF EventRec
    <3> QED BY <2>1, <2>5, <3>1, <3>2
  <2>6. CASE ~(i <= size)
    BY <2>3, <2>4, <2>6
  <2> QED BY <2>5, <2>6
<1>20. \A i \in DOMAIN evs : new[i] \in EventRec /\ new[i].id = evs[i].id
  BY <1>6
<1>21. \A i \in DOMAIN evs : i <= size => new[i].token = NewToken
  BY <1>6
<1>7. Claimed(new) = 1 .. size
  <2>1. \A i \in DOMAIN evs : new[i].token = IF i <= size THEN NewToken ELSE 0
    BY <1>2, <1>6 DEF Claimed
  <2>2. DOMAIN new = DOMAIN evs
    OBVIOUS
  <2> HIDE DEF new
  <2> QED BY <1>3, <1>4, <2>1, <2>2 DEF Claimed
<1>8. \A i \in 1 .. size : new[i].token = NewToken
  <2>1. \A i \in 1 .. size : i \in DOMAIN evs /\ i <= size
    BY <1>4
  <2> HIDE DEF new
  <2> QED BY <1>21, <2>1
<1>9. /\ new \in Seq(EventRec) /\ Distinct(new) /\ Ids(new) = Ids(evs) /\ DOMAIN new = DOMAIN evs
  <2>1. DOMAIN new = DOMAIN evs /\ new = [i \in DOMAIN evs |-> new[i]]
    OBVIOUS
  <2> HIDE DEF new
  <2>2. new \in Seq(EventRec)
    BY <1>1, <1>20, <2>1, ListType
  <2> QED BY <1>1, <1>20, <2>1, <2>2 DEF Distinct, Ids
<1>10. t \in ScopeRec /\ t.events = new /\ t.limit = q[a].limit
  BY <1>1, <1>9 DEF ScopeRec
<1>11. \A i \in DOMAIN new : new[i].token # 0 => new[i].id \in ids
  BY <1>6, <1>7, <1>9 DEF Claimed
<1>12. ids \in SUBSET Ids(queue[a].events)
  <2>1. ids \subseteq Ids(evs)
    BY <1>4 DEF Ids
  <2> HIDE DEF ids
  <2> QED BY <1>1, <2>1 DEF evs
<1> HIDE DEF new, t, ids
<1>13. ScopeInv(t)
  <2>1. Cardinality(1 .. size) = size
    BY <1>4, FS_Interval
  <2>2. OneClaim(t)
    BY <1>4, <1>7, <1>8, <1>10, <2>1 DEF OneClaim
  <2> QED BY <1>9, <1>10, <2>2 DEF ScopeInv, Distinct
<1>14. /\ r \in [Accounts -> ScopeRec] /\ r[a] = t
       /\ \A b \in Accounts \ {a} : r[b] = q[b]
  BY <1>1, <1>10
<1> HIDE DEF r
<1>15. \A b \in Accounts : /\ ScopeInv(r[b])
                           /\ Ids(r[b].events) \subseteq Ids(queue[b].events) \cup Storing(b)
  BY <1>1, <1>9, <1>10, <1>13, <1>14 DEF evs
<1>16. "expired" \in Reasons /\ "expired" # "sent"
  BY DEF Reasons
<1>17. Keeps /\ queue' = r
  BY <1>2, <1>14, <1>15, <1>16, StoreKeeps
<1>18. flight' = [flight EXCEPT ![a] =
          [flight[a] EXCEPT !.step = "claimed", !.token = NewToken, !.ids = ids]]
  BY <1>2 DEF Types
<1>19. ahead = {} /\ OnTime(queue[a].events) => OnTime(t.events)
  <2> SUFFICES ASSUME ahead = {}, OnTime(queue[a].events) PROVE OnTime(new)
    BY <1>10
  <2>1. OnTime(evs)
    BY <1>1, ThinOnTime DEF evs
  <2>2. \A i \in DOMAIN evs : new[i].early \in {FALSE, evs[i].early}
    BY <1>6
  <2> QED BY <1>9, <2>1, <2>2 DEF OnTime
<1> QED BY <1>1, <1>10, <1>11, <1>12, <1>14, <1>17, <1>18, <1>19

\* Time raises a flag of stored events, or of a scope.
LEMMA TimeKeeps ==
    ASSUME Types, QueueInv, NEW a \in Accounts, UNCHANGED gone,
           \/ RetryComesDue(a)
           \/ ClaimLapses(a)
    PROVE  Keeps /\ \A b \in Accounts : Thins(queue[b], queue'[b])
<1> DEFINE evs == queue[a].events
<1>1. /\ queue \in [Accounts -> ScopeRec] /\ queue[a] \in ScopeRec /\ evs \in Seq(EventRec)
      /\ Distinct(evs) /\ ScopeInv(queue[a]) /\ queue[a].limit \in Nat
  BY QueueTyped, EventAssumption DEF Types
<1>2. PICK t \in ScopeRec : /\ queue' = [queue EXCEPT ![a] = t] /\ t.limit = queue[a].limit
                            /\ Distinct(t.events) /\ Within(evs, t.events)
  <2>1. CASE RetryComesDue(a)
    <3> DEFINE t == [queue[a] EXCEPT !.retry = "due"]
    <3>1. t \in ScopeRec /\ t.events = evs /\ t.limit = queue[a].limit
      BY <1>1 DEF ScopeRec, Retries
    <3>2. queue' = [queue EXCEPT ![a] = t]
      BY <1>1, <2>1 DEF RetryComesDue
    <3> HIDE DEF t, evs
    <3>3. Within(evs, evs)
      BY DEF Within
    <3> QED BY <1>1, <3>1, <3>2, <3>3
  <2>2. CASE ClaimLapses(a)
    <3> DEFINE new == [i \in DOMAIN evs |-> IF i \in Claimed(evs)
                                            THEN [evs[i] EXCEPT !.lapsed = TRUE] ELSE evs[i]]
               t == [queue[a] EXCEPT !.events = new]
    <3>1. queue' = [queue EXCEPT ![a] = t]
      BY <1>1, <2>2 DEF ClaimLapses
    <3> HIDE DEF evs
    <3>2. \A i \in DOMAIN evs : evs[i] \in EventRec
      BY <1>1
    <3>3. \A i \in DOMAIN evs : /\ new[i] \in EventRec /\ new[i].id = evs[i].id
                                /\ new[i].token \in {0, evs[i].token}
                                /\ new[i].early \in {FALSE, evs[i].early}
      BY <3>2 DEF EventRec
    <3>4. DOMAIN new = DOMAIN evs /\ new = [i \in DOMAIN evs |-> new[i]]
      OBVIOUS
    <3> HIDE DEF new
    <3>5. new \in Seq(EventRec) /\ Distinct(new) /\ Within(evs, new)
      BY <1>1, <3>3, <3>4, FreedThins
    <3>6. t \in ScopeRec /\ t.events = new /\ t.limit = queue[a].limit
      BY <1>1, <3>5 DEF ScopeRec
    <3> QED BY <3>1, <3>5, <3>6
  <2> QED BY <2>1, <2>2
<1>3. Thins(queue[a], t)
  BY <1>1, <1>2, ThinReads
<1>4. /\ queue' \in [Accounts -> ScopeRec] /\ queue'[a] = t
      /\ \A b \in Accounts \ {a} : queue'[b] = queue[b]
  BY <1>1, <1>2
<1>5. \A b \in Accounts : Thins(queue[b], queue'[b])
  BY <1>3, <1>4, ThinsSelf DEF QueueInv
<1>6. gone' \in [Events -> {"no"} \cup Reasons]
  BY DEF Types, Reasons
<1> QED BY <1>4, <1>5, <1>6, WithinIds DEF Keeps, Thins

\* The clock set back: the deadlines have not passed, nothing else changes.
LEMMA SetBackKeeps ==
    ASSUME Types, QueueInv, ClockSetBack, UNCHANGED gone
    PROVE  Keeps /\ \A b \in Accounts : Thins(queue[b], queue'[b])
<1>1. queue' = [a \in Accounts |-> SetBackScope(queue[a])]
  BY DEF ClockSetBack
<1>2. ASSUME NEW a \in Accounts
      PROVE  Thins(queue[a], SetBackScope(queue[a])) /\ SetBackScope(queue[a]) \in ScopeRec
  <2> DEFINE evs == queue[a].events
             new == [i \in DOMAIN evs |-> [evs[i] EXCEPT !.lapsed = FALSE]]
             retry == IF queue[a].retry = "none" THEN "none" ELSE "waits"
             t == [queue[a] EXCEPT !.retry = retry, !.events = new]
  <2>1. /\ queue[a] \in ScopeRec /\ evs \in Seq(EventRec)
        /\ Distinct(evs) /\ ScopeInv(queue[a]) /\ queue[a].limit \in Nat
    BY QueueTyped, EventAssumption
  <2>2. SetBackScope(queue[a]) = t
    BY <2>1 DEF SetBackScope
  <2>3. retry \in Retries
    BY DEF Retries
  <2> HIDE DEF evs, retry
  <2>4. \A i \in DOMAIN evs : evs[i] \in EventRec
    BY <2>1
  <2>5. \A i \in DOMAIN evs : /\ new[i] \in EventRec /\ new[i].id = evs[i].id
                              /\ new[i].token \in {0, evs[i].token}
                              /\ new[i].early \in {FALSE, evs[i].early}
    BY <2>4 DEF EventRec
  <2>6. DOMAIN new = DOMAIN evs /\ new = [i \in DOMAIN evs |-> new[i]]
    OBVIOUS
  <2> HIDE DEF new
  <2>7. new \in Seq(EventRec) /\ Distinct(new) /\ Within(evs, new)
    BY <2>1, <2>5, <2>6, FreedThins
  <2>8. t \in ScopeRec /\ t.events = new /\ t.limit = queue[a].limit
    BY <2>1, <2>3, <2>7 DEF ScopeRec
  <2> HIDE DEF t
  <2>9. Thins(queue[a], t)
    BY <2>1, <2>7, <2>8, ThinReads DEF evs
  <2> QED BY <2>2, <2>8, <2>9
<1>3. queue' \in [Accounts -> ScopeRec] /\ \A b \in Accounts : Thins(queue[b], queue'[b])
  BY <1>1, <1>2
<1>4. gone' \in [Events -> {"no"} \cup Reasons]
  BY DEF Types, Reasons
<1> QED BY <1>3, <1>4, WithinIds DEF Keeps, Thins

-----------------------------------------------------------------------------
(* What each part of the invariant needs of a step.                        *)

\* Nobody takes an event over, and a spent receipt stays spent.
Ages ==
    \A e \in Events : /\ owner[e] # None => owner'[e] = owner[e]
                      /\ receipt[e] = "spent" => receipt'[e] = "spent"

\* An event whose commit is in a lane is not stored anywhere.
LEMMA CommitFresh ==
    ASSUME IInv, NEW a \in Accounts, NEW i \in DOMAIN lane[a], lane[a][i].kind = "commit"
    PROVE  /\ lane[a][i].event \in Events /\ lane[a][i].event \notin StoredIn(queue)
           /\ owner[lane[a][i].event] = a /\ owner[lane[a][i].event] # None
<1> DEFINE e == lane[a][i].event
<1>1. e \in Events /\ owner[e] = a /\ e \notin Ids(queue[a].events)
  BY DEF IInv, LaneInv
<1>2. \A b \in Accounts : e \in Ids(queue[b].events) => owner[e] = b
  BY DEF IInv, QueueInv, Stands
<1> QED BY <1>1, <1>2, EventAssumption DEF StoredIn

\* The event that is being stored.
LEMMA StoringIs ==
    ASSUME IInv, NEW a \in Accounts, NEW e \in Storing(a)
    PROVE  /\ CommitAt(a, 1) /\ e = lane[a][1].event /\ e \in Events
           /\ Stands(e, a) /\ e \notin StoredIn(queue)
<1>1. /\ flight[a].step = "enqueuing" /\ e = lane[a][1].event /\ CommitAt(a, 1)
      /\ receipt[e] = "spent"
  BY DEF Storing, IInv, FlightInv
<1>2. gone[e] = "no" /\ owner[e] = a /\ e \in Events
  BY <1>1 DEF IInv, LaneInv, CommitAt
<1>3. e \notin StoredIn(queue)
  BY <1>1, CommitFresh DEF CommitAt
<1> QED BY <1>1, <1>2, <1>3 DEF Stands

\* What is stored stays committed, by its owner, and has not left.
LEMMA QueueStep ==
    ASSUME IInv, Keeps, Ages
    PROVE  QueueInv'
<1> SUFFICES ASSUME NEW a \in Accounts, NEW e \in Ids(queue'[a].events)
             PROVE  Stands(e, a)'
  BY DEF QueueInv, Keeps
<1>1. Stands(e, a) /\ e \in Events
  <2>1. CASE e \in Ids(queue[a].events)
    BY <2>1, QueueTyped DEF IInv, QueueInv
  <2>2. CASE e \in Storing(a)
    BY <2>2, StoringIs
  <2> QED BY <2>1, <2>2 DEF Keeps
<1>2. e \in StoredIn(queue')
  BY DEF StoredIn
<1>3. gone'[e] = gone[e]
  BY <1>1, <1>2 DEF Keeps
<1>4. owner[e] # None
  BY <1>1, EventAssumption DEF Stands
<1> QED BY <1>1, <1>3, <1>4 DEF Stands, Ages

\* Lanes that only got flushes and removals.
LaneGrows ==
    \A b \in Accounts :
       /\ \A i \in DOMAIN lane'[b] : lane'[b][i].kind = "commit" =>
             i \in DOMAIN lane[b] /\ lane'[b][i] = lane[b][i]
       /\ \A i \in DOMAIN lane[b] : i \in DOMAIN lane'[b] /\ lane'[b][i] = lane[b][i]

\* The commits of the lanes stay in one place while their jobs do.
LEMMA LaneSteady ==
    ASSUME IInv, Keeps, Ages, LaneGrows,
           \A b \in Accounts : /\ Ids(queue'[b].events) \subseteq Ids(queue[b].events)
                               /\ flight[b].step = "enqueuing" => flight'[b].step = "enqueuing",
           \A e \in Events : receipt[e] \in {"waiting", "revoked"} =>
                                receipt'[e] \in {"waiting", "revoked"}
    PROVE  LaneInv'
<1> SUFFICES ASSUME NEW b \in Accounts, NEW i \in DOMAIN lane'[b], lane'[b][i].kind = "commit"
             PROVE  LET e == lane'[b][i].event IN
                    /\ e \in Events /\ owner'[e] = b /\ gone'[e] = "no"
                    /\ e \notin Ids(queue'[b].events)
                    /\ \/ receipt'[e] \in {"waiting", "revoked"}
                       \/ i = 1 /\ receipt'[e] = "spent" /\ flight'[b].step = "enqueuing"
                    /\ \A j \in DOMAIN lane'[b] :
                          lane'[b][j].kind = "commit" /\ lane'[b][j].event = e => i = j
  BY DEF LaneInv
<1> DEFINE e == lane'[b][i].event
<1>1. i \in DOMAIN lane[b] /\ lane'[b][i] = lane[b][i]
  BY DEF LaneGrows
<1>2. /\ e \in Events /\ owner[e] = b /\ gone[e] = "no" /\ e \notin Ids(queue[b].events)
      /\ \/ receipt[e] \in {"waiting", "revoked"}
         \/ i = 1 /\ receipt[e] = "spent" /\ flight[b].step = "enqueuing"
      /\ \A j \in DOMAIN lane[b] :
            lane[b][j].kind = "commit" /\ lane[b][j].event = e => i = j
  BY <1>1 DEF IInv, LaneInv
<1>3. e \notin StoredIn(queue) /\ owner[e] # None
  BY <1>1, CommitFresh
<1> HIDE DEF e
<1>4. gone'[e] = "no" /\ owner'[e] = b
  BY <1>2, <1>3 DEF Keeps, Ages
<1>5. \/ receipt'[e] \in {"waiting", "revoked"}
      \/ i = 1 /\ receipt'[e] = "spent" /\ flight'[b].step = "enqueuing"
  BY <1>2 DEF Ages
<1>6. \A j \in DOMAIN lane'[b] :
         lane'[b][j].kind = "commit" /\ lane'[b][j].event = e => i = j
  BY <1>2 DEF LaneGrows
<1> QED BY <1>2, <1>4, <1>5, <1>6 DEF e

LEMMA JobDoneFacts ==
    ASSUME Types, NEW a \in Accounts, JobDone(a), lane[a] # << >>
    PROVE  /\ lane' \in [Accounts -> Seq(JobRec)] /\ flight' \in [Accounts -> FlightRec]
           /\ \A b \in Accounts \ {a} : lane'[b] = lane[b] /\ flight'[b] = flight[b]
           /\ flight'[a] = NoFlight
           /\ \A i \in DOMAIN lane'[a] : i + 1 \in DOMAIN lane[a] /\ i + 1 # 1
                                         /\ lane'[a][i] = lane[a][i + 1]
<1>1. lane' = [lane EXCEPT ![a] = Tail(lane[a])] /\ flight' = [flight EXCEPT ![a] = NoFlight]
  BY DEF JobDone
<1>2. lane[a] \in Seq(JobRec)
  BY DEF Types
<1>3. NoFlight \in FlightRec
  BY DEF NoFlight, FlightRec
<1>4. /\ Tail(lane[a]) \in Seq(JobRec)
      /\ \A i \in DOMAIN Tail(lane[a]) : i + 1 \in DOMAIN lane[a] /\ i + 1 # 1
                                         /\ Tail(lane[a])[i] = lane[a][i + 1]
  BY <1>2
<1>5. lane'[a] = Tail(lane[a]) /\ flight'[a] = NoFlight
  BY <1>1 DEF Types
<1> QED BY <1>1, <1>3, <1>4, <1>5 DEF Types

\* The lane of a runs its next job.
LEMMA LanePops ==
    ASSUME IInv, Keeps, NEW a \in Accounts, JobDone(a), lane[a] # << >>, UNCHANGED owner,
           \A b \in Accounts \ {a} : Ids(queue'[b].events) \subseteq Ids(queue[b].events),
           \A e \in Events : \/ receipt'[e] = receipt[e]
                             \/ CommitAt(a, 1) /\ e = lane[a][1].event
    PROVE  LaneInv'
<1> SUFFICES ASSUME NEW b \in Accounts, NEW i \in DOMAIN lane'[b], lane'[b][i].kind = "commit"
             PROVE  LET e == lane'[b][i].event IN
                    /\ e \in Events /\ owner'[e] = b /\ gone'[e] = "no"
                    /\ e \notin Ids(queue'[b].events)
                    /\ \/ receipt'[e] \in {"waiting", "revoked"}
                       \/ i = 1 /\ receipt'[e] = "spent" /\ flight'[b].step = "enqueuing"
                    /\ \A j \in DOMAIN lane'[b] :
                          lane'[b][j].kind = "commit" /\ lane'[b][j].event = e => i = j
  BY DEF LaneInv
<1> DEFINE e == lane'[b][i].event
<1>0. /\ \A c \in Accounts \ {a} : lane'[c] = lane[c] /\ flight'[c] = flight[c]
      /\ \A h \in DOMAIN lane'[a] : h + 1 \in DOMAIN lane[a] /\ h + 1 # 1
                                    /\ lane'[a][h] = lane[a][h + 1]
  BY JobDoneFacts DEF IInv
<1>1. CASE b # a
  <2>1. lane'[b] = lane[b] /\ flight'[b] = flight[b] /\ e = lane[b][i].event
    BY <1>0, <1>1
  <2>2. /\ e \in Events /\ owner[e] = b /\ gone[e] = "no" /\ e \notin Ids(queue[b].events)
        /\ \/ receipt[e] \in {"waiting", "revoked"}
           \/ i = 1 /\ receipt[e] = "spent" /\ flight[b].step = "enqueuing"
        /\ \A j \in DOMAIN lane[b] :
              lane[b][j].kind = "commit" /\ lane[b][j].event = e => i = j
    BY <2>1 DEF IInv, LaneInv
  <2>3. e \notin StoredIn(queue)
    BY <2>1, CommitFresh
  <2>4. receipt'[e] = receipt[e]
    BY <1>1, <2>2, CommitFresh DEF CommitAt
  <2> HIDE DEF e
  <2>5. gone'[e] = "no" /\ e \notin Ids(queue'[b].events)
    BY <1>1, <2>2, <2>3 DEF Keeps
  <2> QED BY <2>1, <2>2, <2>4, <2>5 DEF e
<1>2. CASE b = a
  <2> DEFINE k == i + 1
  <2>1. k \in DOMAIN lane[a] /\ k # 1 /\ lane'[a][i] = lane[a][k] /\ lane[a][k].kind = "commit"
    BY <1>0, <1>2
  <2>2. /\ e \in Events /\ owner[e] = a /\ gone[e] = "no" /\ e \notin Ids(queue[a].events)
        /\ receipt[e] \in {"waiting", "revoked"}
        /\ \A j \in DOMAIN lane[a] :
              lane[a][j].kind = "commit" /\ lane[a][j].event = e => k = j
    BY <1>2, <2>1 DEF IInv, LaneInv
  <2>3. e \notin StoredIn(queue)
    BY <1>2, <2>1, CommitFresh
  <2>4. ~(CommitAt(a, 1) /\ e = lane[a][1].event)
    BY <2>1, <2>2 DEF CommitAt
  <2>5. receipt'[e] = receipt[e]
    BY <2>2, <2>4
  <2>6. e \notin Storing(a)
    BY <2>4, StoringIs
  <2>7. \A j \in DOMAIN lane'[a] :
           lane'[a][j].kind = "commit" /\ lane'[a][j].event = e => i = j
    <3> SUFFICES ASSUME NEW j \in DOMAIN lane'[a], lane'[a][j].kind = "commit",
                        lane'[a][j].event = e
                 PROVE  i = j
      OBVIOUS
    <3>1. i + 1 = j + 1
      BY <1>0, <2>2
    <3>2. i \in Int /\ j \in Int
      <4>1. lane'[a] \in Seq(JobRec)
        BY JobDoneFacts DEF IInv
      <4> QED BY <1>2, <4>1
    <3> QED BY <3>1, <3>2
  <2> HIDE DEF e, k
  <2>8. gone'[e] = "no" /\ e \notin Ids(queue'[a].events)
    BY <2>2, <2>3, <2>6 DEF Keeps
  <2> QED BY <1>2, <2>2, <2>5, <2>7, <2>8 DEF e
<1> QED BY <1>1, <1>2

\* A flight ends, or goes on with its batch.
Continues(b) ==
    /\ Thins(queue[b], queue'[b])
    /\ flight'[b].token = flight[b].token /\ flight'[b].ids = flight[b].ids
    /\ flight'[b].step \in {"claimed", "sent"} <=> flight[b].step \in {"claimed", "sent"}
    /\ flight'[b].step = "enqueuing" => /\ flight[b].step = "enqueuing"
                                        /\ CommitAt(b, 1)' /\ lane'[b][1] = lane[b][1]
    /\ flight'[b].outcome = "taken" =>
          \/ flight[b].outcome = "taken"
          \/ /\ flight'[b].step \in {"claimed", "sent"}
             /\ \A e \in flight[b].ids : received'[e] # {}

\* No flight gains an event or a claim.
LEMMA FlightStep ==
    ASSUME IInv, Ages, \A b \in Accounts : flight'[b] = NoFlight \/ Continues(b),
           \A e \in Events : received[e] # {} => received'[e] # {}
    PROVE  FlightInv'
<1> SUFFICES ASSUME NEW b \in Accounts
             PROVE  /\ flight'[b].step \in {"claimed", "sent"} <=> flight'[b].token # 0
                    /\ flight'[b].outcome = "taken" => flight'[b].step \in {"claimed", "sent"}
                    /\ flight'[b].step = "enqueuing" =>
                          CommitAt(b, 1)' /\ receipt'[lane'[b][1].event] = "spent"
                    /\ \A e \in flight'[b].ids :
                          /\ owner'[e] = b
                          /\ flight'[b].outcome = "taken" => received'[e] # {}
                    /\ \A i \in DOMAIN queue'[b].events :
                          queue'[b].events[i].token \in {flight'[b].token} \ {0} =>
                              queue'[b].events[i].id \in flight'[b].ids
  BY DEF FlightInv
<1>1. CASE flight'[b] = NoFlight
  BY <1>1 DEF NoFlight
<1>2. CASE Continues(b)
  <2>0. flight[b].ids \subseteq Events
    BY DEF IInv, Types, FlightRec
  <2>1. /\ flight[b].step \in {"claimed", "sent"} <=> flight[b].token # 0
        /\ flight[b].outcome = "taken" => flight[b].step \in {"claimed", "sent"}
        /\ flight[b].step = "enqueuing" =>
              CommitAt(b, 1) /\ receipt[lane[b][1].event] = "spent"
        /\ \A e \in flight[b].ids : /\ owner[e] = b
                                    /\ flight[b].outcome = "taken" => received[e] # {}
        /\ \A i \in DOMAIN queue[b].events :
              queue[b].events[i].token \in {flight[b].token} \ {0} =>
                  queue[b].events[i].id \in flight[b].ids
    BY DEF IInv, FlightInv
  <2>2. /\ flight'[b].step \in {"claimed", "sent"} <=> flight'[b].token # 0
        /\ flight'[b].outcome = "taken" => flight'[b].step \in {"claimed", "sent"}
    BY <1>2, <2>1 DEF Continues
  <2>3. ASSUME flight'[b].step = "enqueuing"
        PROVE  CommitAt(b, 1)' /\ receipt'[lane'[b][1].event] = "spent"
    <3>1. /\ flight[b].step = "enqueuing" /\ CommitAt(b, 1)' /\ lane'[b][1] = lane[b][1]
      BY <1>2, <2>3 DEF Continues
    <3>2. CommitAt(b, 1) /\ receipt[lane[b][1].event] = "spent"
      BY <2>1, <3>1
    <3>3. lane[b][1].event \in Events
      BY <3>2, CommitFresh DEF CommitAt
    <3> QED BY <3>1, <3>2, <3>3 DEF Ages
  <2>4. ASSUME NEW e \in flight'[b].ids
        PROVE  owner'[e] = b /\ (flight'[b].outcome = "taken" => received'[e] # {})
    <3>1. e \in flight[b].ids /\ e \in Events
      BY <1>2, <2>0 DEF Continues
    <3>2. owner'[e] = b
      BY <2>1, <3>1, EventAssumption DEF Ages
    <3> QED BY <1>2, <2>1, <3>1, <3>2 DEF Continues
  <2>5. ASSUME NEW i \in DOMAIN queue'[b].events,
               queue'[b].events[i].token \in {flight'[b].token} \ {0}
        PROVE  queue'[b].events[i].id \in flight'[b].ids
    <3>1. PICK j \in DOMAIN queue[b].events :
             /\ queue'[b].events[i].id = queue[b].events[j].id
             /\ queue'[b].events[i].token \in {0, queue[b].events[j].token}
      BY <1>2 DEF Continues, Thins, Within
    <3>2. flight'[b].token = flight[b].token /\ flight'[b].ids = flight[b].ids
      BY <1>2 DEF Continues
    <3> QED BY <2>1, <2>5, <3>1, <3>2
  <2> QED BY <2>2, <2>3, <2>4, <2>5
<1> QED BY <1>1, <1>2

\* What leaves the queue was spent, and if sent, received.
LEMMA ReceiptStep ==
    ASSUME IInv, Keeps, UNCHANGED received,
           \A e \in Events :
              /\ receipt'[e] = "unused" <=> owner'[e] = None
              /\ receipt'[e] = "unused" => receipt[e] = "unused"
              /\ receipt[e] = "spent" => receipt'[e] = "spent"
              /\ owner'[e] = owner[e] \/ receipt[e] = "unused"
    PROVE  ReceiptInv'
<1> SUFFICES ASSUME NEW e \in Events
             PROVE  /\ receipt'[e] = "unused" => received[e] = {}
                    /\ receipt'[e] # "spent" => gone'[e] = "no"
                    /\ gone'[e] = "sent" => received[e] # {}
                    /\ received[e] \subseteq {owner'[e]}
  BY DEF ReceiptInv
<1>1. /\ receipt[e] = "unused" => received[e] = {}
      /\ receipt[e] # "spent" => gone[e] = "no"
      /\ gone[e] = "sent" => received[e] # {}
      /\ received[e] \subseteq {owner[e]}
  BY DEF IInv, ReceiptInv
<1>2. e \in StoredIn(queue) => receipt[e] = "spent"
  BY DEF StoredIn, IInv, QueueInv, Stands
<1>3. /\ gone'[e] = "sent" => received[e] # {}
      /\ receipt'[e] # "spent" => gone'[e] = "no"
  BY <1>1, <1>2 DEF Keeps
<1> QED BY <1>1, <1>3

\* Nothing more of an ended session is stored or about to be.
LEMMA EndStep ==
    ASSUME IInv, UNCHANGED ended,
           \A e \in ended : receipt'[e] = "unused" => receipt[e] = "unused",
           \A e \in ended : receipt'[e] \in {"held", "waiting"} =>
                               receipt[e] \in {"held", "waiting"} /\ owner'[e] = owner[e],
           discards \ calls \subseteq discards' \ calls' \/ \A e \in Events :
              receipt'[e] \notin {"held", "waiting"},
           \A b \in Accounts \ discards' :
              /\ b \notin discards
              /\ Ids(queue'[b].events) \cup Storing(b)' \subseteq
                    Ids(queue[b].events) \cup Storing(b)
    PROVE  EndInv'
<1>1. ASSUME NEW e \in ended'
      PROVE  /\ receipt'[e] # "unused"
             /\ receipt'[e] \in {"held", "waiting"} => owner'[e] \in discards' \ calls'
  <2>1. e \in ended /\ e \in Events
    BY DEF IInv, Types
  <2> QED BY <1>1, <2>1 DEF IInv, EndInv
<1>2. ASSUME NEW b \in Accounts \ discards', NEW e \in Late(b)', NEW f \in Late(b)'
      PROVE  e = f
  <2>1. e \in Late(b) /\ f \in Late(b) /\ b \notin discards
    BY DEF Late
  <2> QED BY <2>1 DEF IInv, EndInv
<1> QED BY <1>1, <1>2 DEF EndInv

\* The lane of a runs its next job, and the queue only lost what Keeps says.
LEMMA PopStep ==
    ASSUME IInv, Keeps, NEW a \in Accounts, JobDone(a), lane[a] # << >>,
           \A b \in Accounts \ {a} : Thins(queue[b], queue'[b]),
           alarm' \in BOOLEAN,
           UNCHANGED <<receipt, owner, received, ended, discards, calls, active, running>>
    PROVE  IInv'
<1>1. /\ lane' \in [Accounts -> Seq(JobRec)] /\ flight' \in [Accounts -> FlightRec]
      /\ \A b \in Accounts \ {a} : lane'[b] = lane[b] /\ flight'[b] = flight[b]
      /\ flight'[a] = NoFlight
  BY JobDoneFacts DEF IInv
<1>2. Types'
  BY <1>1 DEF IInv, Types, Keeps, Reasons
<1>3. Ages
  BY DEF Ages
<1>4. QueueInv'
  BY <1>3, QueueStep
<1>5. \A b \in Accounts \ {a} : Ids(queue'[b].events) \subseteq Ids(queue[b].events)
  BY WithinIds DEF Thins
<1>6. LaneInv'
  BY <1>5, LanePops
<1>7. FlightInv'
  <2> SUFFICES ASSUME NEW b \in Accounts \ {a} PROVE Continues(b)
    BY <1>1, <1>3, FlightStep
  <2>1. flight[b].step = "enqueuing" => CommitAt(b, 1)
    BY DEF IInv, FlightInv
  <2> QED BY <1>1, <2>1 DEF Continues, CommitAt
<1>8. ReceiptInv'
  <2>1. \A e \in Events : receipt[e] = "unused" <=> owner[e] = None
    BY DEF IInv, ReceiptInv
  <2> QED BY <2>1, ReceiptStep
<1>9. EndInv'
  <2>1. \A b \in Accounts : Storing(b)' \subseteq Storing(b)
    <3> SUFFICES ASSUME NEW b \in Accounts PROVE Storing(b)' \subseteq Storing(b)
      OBVIOUS
    <3>1. CASE b = a
      BY <1>1, <3>1 DEF Storing, NoFlight
    <3>2. CASE b # a
      BY <1>1, <3>2 DEF Storing
    <3> QED BY <3>1, <3>2
  <2>2. \A b \in Accounts : Ids(queue'[b].events) \subseteq Ids(queue[b].events) \cup Storing(b)
    BY DEF Keeps
  <2> QED BY <2>1, <2>2, EndStep
<1> QED BY <1>2, <1>4, <1>6, <1>7, <1>8, <1>9 DEF IInv

-----------------------------------------------------------------------------
(* Steps that leave every running job where it is.                         *)

\* The flight of b holds what it held.
Holds(b) ==
    /\ flight'[b].token = flight[b].token /\ flight'[b].ids = flight[b].ids
    /\ flight'[b].step \in {"claimed", "sent"} <=> flight[b].step \in {"claimed", "sent"}
    /\ flight'[b].step = "enqueuing" <=> flight[b].step = "enqueuing"
    /\ flight'[b].outcome = "taken" =>
          \/ flight[b].outcome = "taken"
          \/ /\ flight'[b].step \in {"claimed", "sent"}
             /\ \A e \in flight[b].ids : received'[e] # {}

\* The queue thins out, lanes grow by flushes and removals, flights go on.
LEMMA Steady ==
    ASSUME IInv, Keeps, Ages, LaneGrows,
           \A b \in Accounts : Thins(queue[b], queue'[b]) /\ Holds(b),
           \A e \in Events : /\ receipt[e] \in {"waiting", "revoked"} =>
                                   receipt'[e] \in {"waiting", "revoked"}
                             /\ received[e] # {} => received'[e] # {}
    PROVE  /\ QueueInv' /\ LaneInv' /\ FlightInv'
           /\ \A b \in Accounts : /\ Storing(b)' = Storing(b)
                                  /\ Ids(queue'[b].events) \subseteq Ids(queue[b].events)
<1>1. \A b \in Accounts : Ids(queue'[b].events) \subseteq Ids(queue[b].events)
  BY WithinIds DEF Thins
<1>2. QueueInv'
  BY QueueStep
<1>3. LaneInv'
  BY <1>1, LaneSteady DEF Holds
<1>4. ASSUME NEW b \in Accounts, flight[b].step = "enqueuing"
      PROVE  CommitAt(b, 1) /\ CommitAt(b, 1)' /\ lane'[b][1] = lane[b][1]
  <2>1. CommitAt(b, 1)
    BY <1>4 DEF IInv, FlightInv
  <2> QED BY <2>1 DEF CommitAt, LaneGrows
<1>5. \A b \in Accounts : Continues(b)
  BY <1>4 DEF Holds, Continues
<1>6. FlightInv'
  BY <1>5, FlightStep
<1>7. \A b \in Accounts : Storing(b)' = Storing(b)
  BY <1>4 DEF Storing, Holds
<1> QED BY <1>1, <1>2, <1>3, <1>6, <1>7

\* Most of them leave the sessions that have ended as they are.
LEMMA SteadyStep ==
    ASSUME IInv, Types', Keeps, Ages, LaneGrows, UNCHANGED <<received, ended>>,
           \A b \in Accounts : Thins(queue[b], queue'[b]) /\ Holds(b),
           \A e \in Events :
              /\ receipt[e] \in {"waiting", "revoked"} => receipt'[e] \in {"waiting", "revoked"}
              /\ receipt'[e] = "unused" => receipt[e] = "unused"
              /\ receipt'[e] = "unused" <=> owner'[e] = None
              /\ receipt'[e] \in {"held", "waiting"} /\ receipt[e] \notin {"held", "waiting"}
                   => e \notin ended
              /\ owner'[e] = owner[e] \/ receipt[e] = "unused",
           discards \ calls \subseteq discards' \ calls' \/ \A e \in Events :
              receipt'[e] \notin {"held", "waiting"},
           discards \subseteq discards'
    PROVE  IInv'
<1>1. /\ QueueInv' /\ LaneInv' /\ FlightInv'
      /\ \A b \in Accounts : /\ Storing(b)' = Storing(b)
                             /\ Ids(queue'[b].events) \subseteq Ids(queue[b].events)
  BY Steady
<1>2. ReceiptInv'
  BY ReceiptStep DEF Ages
<1>3. \A e \in ended :
         /\ receipt'[e] = "unused" => receipt[e] = "unused"
         /\ receipt'[e] \in {"held", "waiting"} =>
               receipt[e] \in {"held", "waiting"} /\ owner'[e] = owner[e]
  BY DEF IInv, Types
<1>4. EndInv'
  BY <1>1, <1>3, EndStep
<1> QED BY <1>1, <1>2, <1>4 DEF IInv

\* The lanes, after a flush or a removal was asked for.
LEMMA FlushGrows ==
    ASSUME Types, NEW a \in Accounts, lane' = WithFlush(lane, a)
    PROVE  LaneGrows /\ lane' \in [Accounts -> Seq(JobRec)]
<1> DEFINE job == [kind |-> "flush", event |-> None]
<1>1. CASE lane' = lane
  BY <1>1 DEF LaneGrows, Types
<1>2. CASE lane' # lane
  <2>1. lane' = [lane EXCEPT ![a] = Append(lane[a], job)]
    BY <1>2 DEF WithFlush
  <2>2. lane[a] \in Seq(JobRec) /\ job \in JobRec /\ job.kind # "commit"
    BY DEF Types, JobRec
  <2> HIDE DEF job
  <2>3. /\ Append(lane[a], job) \in Seq(JobRec)
        /\ \A i \in DOMAIN Append(lane[a], job) :
              (i \in DOMAIN lane[a] /\ Append(lane[a], job)[i] = lane[a][i])
                 \/ Append(lane[a], job)[i] = job
        /\ \A i \in DOMAIN lane[a] : /\ i \in DOMAIN Append(lane[a], job)
                                     /\ Append(lane[a], job)[i] = lane[a][i]
    BY <2>2
  <2>4. lane'[a] = Append(lane[a], job) /\ \A b \in Accounts \ {a} : lane'[b] = lane[b]
    BY <2>1 DEF Types
  <2> QED BY <2>1, <2>2, <2>3, <2>4 DEF LaneGrows, Types
<1> QED BY <1>1, <1>2

\* The removal of an account is behind the jobs of its lane.
LEMMA RemoveGrows ==
    ASSUME Types, NEW a \in Accounts,
           lane' = [lane EXCEPT ![a] = Append(@, [kind |-> "remove", event |-> None])]
    PROVE  LaneGrows /\ lane' \in [Accounts -> Seq(JobRec)]
<1> DEFINE job == [kind |-> "remove", event |-> None]
<1>2. lane[a] \in Seq(JobRec) /\ job \in JobRec /\ job.kind # "commit"
  BY DEF Types, JobRec
<1>1. lane' = [lane EXCEPT ![a] = Append(lane[a], job)]
  OBVIOUS
<1> HIDE DEF job
<1>3. /\ Append(lane[a], job) \in Seq(JobRec)
      /\ \A i \in DOMAIN Append(lane[a], job) :
            (i \in DOMAIN lane[a] /\ Append(lane[a], job)[i] = lane[a][i])
               \/ Append(lane[a], job)[i] = job
      /\ \A i \in DOMAIN lane[a] : /\ i \in DOMAIN Append(lane[a], job)
                                   /\ Append(lane[a], job)[i] = lane[a][i]
  BY <1>2
<1>4. lane'[a] = Append(lane[a], job) /\ \A b \in Accounts \ {a} : lane'[b] = lane[b]
  BY <1>1 DEF Types
<1> QED BY <1>1, <1>2, <1>3, <1>4 DEF LaneGrows, Types

LEMMA LaneStays ==
    ASSUME UNCHANGED lane
    PROVE  LaneGrows
  BY DEF LaneGrows

LEMMA FlightStays ==
    ASSUME UNCHANGED flight
    PROVE  \A b \in Accounts : Holds(b)
  BY DEF Holds

\* An account transition ends the leases and nothing else of a flight.
LEMMA LeasesGo ==
    ASSUME Types, flight' = LeasesEnd
    PROVE  flight' \in [Accounts -> FlightRec] /\ \A b \in Accounts : Holds(b)
<1>1. ASSUME NEW b \in Accounts
      PROVE  /\ flight'[b] \in FlightRec /\ flight'[b] = [flight[b] EXCEPT !.lease = FALSE]
             /\ flight'[b].token = flight[b].token /\ flight'[b].ids = flight[b].ids
             /\ flight'[b].step = flight[b].step /\ flight'[b].outcome = flight[b].outcome
  <2>1. flight[b] \in FlightRec
    BY DEF Types
  <2>2. flight'[b] = [flight[b] EXCEPT !.lease = FALSE]
    BY DEF LeasesEnd
  <2> QED BY <2>1, <2>2 DEF FlightRec
<1>2. flight' = [b \in Accounts |-> flight'[b]]
  BY DEF LeasesEnd
<1> QED BY <1>1, <1>2 DEF Holds

LEMMA ReceiptsStay ==
    ASSUME IInv, UNCHANGED <<receipt, owner>>
    PROVE  /\ Ages
           /\ \A e \in Events : receipt'[e] = "unused" <=> owner'[e] = None
  BY DEF Ages, IInv, ReceiptInv

\* A new epoch ends held receipts and revokes waiting commits.
LEMMA Revoked ==
    ASSUME IInv, RevokeReceipts, UNCHANGED owner
    PROVE  /\ Ages
           /\ receipt' \in [Events -> {"unused", "held", "waiting", "revoked", "spent"}]
           /\ \A e \in Events :
                 /\ receipt'[e] \notin {"held", "waiting"}
                 /\ receipt[e] \in {"waiting", "revoked"} => receipt'[e] \in {"waiting", "revoked"}
                 /\ receipt'[e] = "unused" <=> receipt[e] = "unused"
                 /\ receipt'[e] = "unused" <=> owner'[e] = None
<1>1. receipt \in [Events -> {"unused", "held", "waiting", "revoked", "spent"}]
  BY DEF IInv, Types
<1>2. \A e \in Events : receipt'[e] = IF receipt[e] = "held" THEN "spent"
                                     ELSE IF receipt[e] = "waiting" THEN "revoked" ELSE receipt[e]
  BY DEF RevokeReceipts
<1>3. receipt' \in [Events -> {"unused", "held", "waiting", "revoked", "spent"}]
  BY <1>1 DEF RevokeReceipts
<1>4. \A e \in Events : receipt[e] = "unused" <=> owner[e] = None
  BY DEF IInv, ReceiptInv
<1> QED BY <1>1, <1>2, <1>3, <1>4 DEF Ages

-----------------------------------------------------------------------------
(* Receipts and commits.                                                   *)

\* A receipt is given out to the active account.
LEMMA PrepareSafe ==
    ASSUME IInv, NEW e \in Events, Prepare(e)
    PROVE  IInv'
<1>1. /\ active \in Accounts /\ receipt[e] = "unused"
      /\ receipt' = [receipt EXCEPT ![e] = "held"] /\ owner' = [owner EXCEPT ![e] = active]
      /\ UNCHANGED <<durable, lane, flight, calls, active, running, history>>
  BY DEF Prepare, IInv, Types
<1>2. Types'
  BY <1>1 DEF IInv, Types, durable, history
<1>3. Keeps /\ \A a \in Accounts : Thins(queue[a], queue'[a])
  BY <1>1, StillKeeps DEF IInv, durable, history
<1>4. LaneGrows /\ \A b \in Accounts : Holds(b)
  BY <1>1, LaneStays, FlightStays
<1>5. /\ receipt'[e] = "held" /\ owner'[e] # None /\ owner[e] = None /\ e \notin ended
      /\ \A d \in Events \ {e} : receipt'[d] = receipt[d] /\ owner'[d] = owner[d]
  BY <1>1, EventAssumption DEF IInv, Types, ReceiptInv, EndInv
<1>6. \A d \in Events : receipt[d] = "unused" <=> owner[d] = None
  BY DEF IInv, ReceiptInv
<1>7. Ages
  BY <1>1, <1>5 DEF Ages
<1>8. \A d \in Events :
         /\ receipt[d] \in {"waiting", "revoked"} => receipt'[d] \in {"waiting", "revoked"}
         /\ receipt'[d] = "unused" => receipt[d] = "unused"
         /\ receipt'[d] = "unused" <=> owner'[d] = None
         /\ receipt'[d] \in {"held", "waiting"} /\ receipt[d] \notin {"held", "waiting"}
              => d \notin ended
         /\ owner'[d] = owner[d] \/ receipt[d] = "unused"
  BY <1>1, <1>5, <1>6
<1>9. discards' = discards /\ calls' = calls /\ received' = received /\ ended' = ended
  BY <1>1 DEF durable, history
<1> QED BY <1>2, <1>3, <1>4, <1>7, <1>8, <1>9, SteadyStep

\* The receipt is consumed, and the commit is last in the lane of its owner.
LEMMA CommitSafe ==
    ASSUME IInv, NEW e \in Events, Commit(e)
    PROVE  IInv'
<1> DEFINE a == owner[e]
           job == [kind |-> "commit", event |-> e]
<1>1. /\ receipt[e] = "held" /\ receipt' = [receipt EXCEPT ![e] = "waiting"]
      /\ lane' = [lane EXCEPT ![a] = Append(lane[a], job)]
      /\ UNCHANGED <<queue, alarm, discards, owner, flight, calls, active, running>>
      /\ UNCHANGED <<received, gone, ended>>
  BY DEF Commit, durable, history
<1>2. /\ a \in Accounts /\ lane[a] \in Seq(JobRec) /\ job \in JobRec
      /\ gone[e] = "no" /\ \A b \in Accounts : e \notin Ids(queue[b].events)
  <2>1. a \in Accounts /\ gone[e] = "no"
    BY <1>1 DEF IInv, Types, ReceiptInv
  <2>2. \A b \in Accounts : e \notin Ids(queue[b].events)
    BY <1>1 DEF IInv, QueueInv, Stands
  <2> QED BY <2>1, <2>2 DEF IInv, Types, JobRec
<1>3. /\ receipt'[e] = "waiting"
      /\ receipt' \in [Events -> {"unused", "held", "waiting", "revoked", "spent"}]
      /\ \A d \in Events \ {e} : receipt'[d] = receipt[d]
  BY <1>1 DEF IInv, Types
<1>4. /\ lane'[a] = Append(lane[a], job) /\ \A b \in Accounts \ {a} : lane'[b] = lane[b]
      /\ lane' \in [Accounts -> Seq(JobRec)]
  BY <1>1, <1>2 DEF IInv, Types
<1> DEFINE n == Len(lane[a]) + 1
<1>5. /\ \A i \in DOMAIN lane'[a] :
            IF i = n THEN lane'[a][i] = job
                     ELSE i \in DOMAIN lane[a] /\ lane'[a][i] = lane[a][i]
      /\ \A i \in DOMAIN lane[a] : i # n /\ i \in DOMAIN lane'[a] /\ lane'[a][i] = lane[a][i]
  BY <1>2, <1>4
<1>6. job.kind = "commit" /\ job.event = e
  OBVIOUS
<1> HIDE DEF job, n, a
<1>7. Types'
  BY <1>1, <1>3, <1>4 DEF IInv, Types
<1>8. Keeps /\ \A b \in Accounts : Thins(queue[b], queue'[b])
  BY <1>1, StillKeeps DEF IInv
<1>9. Ages
  BY <1>1, <1>3 DEF Ages
<1>10. QueueInv'
  BY <1>8, <1>9, QueueStep
<1>11. \A b \in Accounts : \A i \in DOMAIN lane[b] :
          lane[b][i].kind = "commit" => lane[b][i].event # e
  BY <1>1 DEF IInv, LaneInv
<1>12. LaneInv'
  <2> SUFFICES ASSUME NEW b \in Accounts, NEW i \in DOMAIN lane'[b], lane'[b][i].kind = "commit"
               PROVE  LET d == lane'[b][i].event IN
                      /\ d \in Events /\ owner'[d] = b /\ gone'[d] = "no"
                      /\ d \notin Ids(queue'[b].events)
                      /\ \/ receipt'[d] \in {"waiting", "revoked"}
                         \/ i = 1 /\ receipt'[d] = "spent" /\ flight'[b].step = "enqueuing"
                      /\ \A j \in DOMAIN lane'[b] :
                            lane'[b][j].kind = "commit" /\ lane'[b][j].event = d => i = j
    BY DEF LaneInv
  <2> DEFINE d == lane'[b][i].event
  <2>1. CASE b = a /\ i = n
    <3>1. d = e
      BY <1>5, <1>6, <2>1
    <3>2. \A j \in DOMAIN lane'[b] : lane'[b][j].kind = "commit" /\ lane'[b][j].event = d => i = j
      BY <1>2, <1>5, <1>11, <2>1, <3>1
    <3> QED BY <1>1, <1>2, <1>3, <2>1, <3>1, <3>2 DEF a
  <2>2. CASE ~(b = a /\ i = n)
    <3>1. i \in DOMAIN lane[b] /\ lane'[b][i] = lane[b][i]
      BY <1>4, <1>5, <2>2
    <3>2. /\ d \in Events /\ owner[d] = b /\ gone[d] = "no" /\ d \notin Ids(queue[b].events)
          /\ \/ receipt[d] \in {"waiting", "revoked"}
             \/ i = 1 /\ receipt[d] = "spent" /\ flight[b].step = "enqueuing"
          /\ \A j \in DOMAIN lane[b] :
                lane[b][j].kind = "commit" /\ lane[b][j].event = d => i = j
      BY <3>1 DEF IInv, LaneInv
    <3>3. d # e
      BY <1>11, <3>1
    <3> HIDE DEF d
    <3>4. receipt'[d] = receipt[d]
      BY <1>3, <3>2, <3>3
    <3>5. \A j \in DOMAIN lane'[b] : lane'[b][j].kind = "commit" /\ lane'[b][j].event = d => i = j
      <4> SUFFICES ASSUME NEW j \in DOMAIN lane'[b], lane'[b][j].kind = "commit",
                          lane'[b][j].event = d
                   PROVE  i = j
        OBVIOUS
      <4>1. CASE b = a
        <5>1. j # n
          BY <1>5, <1>6, <3>3, <4>1
        <5>2. j \in DOMAIN lane[b] /\ lane'[b][j] = lane[b][j]
          BY <1>5, <4>1, <5>1
        <5> QED BY <3>2, <5>2
      <4>2. CASE b # a
        <5>1. lane'[b] = lane[b]
          BY <1>4, <4>2
        <5> QED BY <3>2, <5>1
      <4> QED BY <4>1, <4>2
    <3> QED BY <1>1, <3>2, <3>4, <3>5 DEF d
  <2> QED BY <2>1, <2>2
<1>13. FlightInv'
  <2> SUFFICES ASSUME NEW b \in Accounts PROVE Continues(b)
    BY <1>1, <1>9, FlightStep
  <2>1. flight[b].step = "enqueuing" => CommitAt(b, 1)
    BY DEF IInv, FlightInv
  <2>2. \A i \in DOMAIN lane[b] : i \in DOMAIN lane'[b] /\ lane'[b][i] = lane[b][i]
    BY <1>4, <1>5
  <2> QED BY <1>1, <1>8, <2>1, <2>2 DEF Continues, CommitAt
<1>14. \A d \in Events :
          /\ receipt'[d] = "unused" <=> owner'[d] = None
          /\ receipt'[d] = "unused" => receipt[d] = "unused"
          /\ receipt'[d] \in {"held", "waiting"} => receipt[d] \in {"held", "waiting"}
          /\ receipt[d] = "spent" => receipt'[d] = "spent"
  BY <1>1, <1>3 DEF IInv, ReceiptInv
<1>15. ReceiptInv'
  BY <1>1, <1>8, <1>14, ReceiptStep
<1>16. EndInv'
  <2>1. \A b \in Accounts : Storing(b)' = Storing(b)
    <3> SUFFICES ASSUME NEW b \in Accounts, flight[b].step = "enqueuing"
                 PROVE  lane'[b][1] = lane[b][1]
      BY <1>1 DEF Storing
    <3>1. 1 \in DOMAIN lane[b]
      BY DEF IInv, FlightInv, CommitAt
    <3> QED BY <1>4, <1>5, <3>1
  <2>2. \A d \in ended : d \in Events
    BY DEF IInv, Types
  <2> QED BY <1>1, <1>14, <2>1, <2>2, EndStep
<1> QED BY <1>7, <1>10, <1>12, <1>13, <1>15, <1>16 DEF IInv

\* The running commit stores its event, if its receipt has not been revoked
\* meanwhile.
LEMMA CommitBeginsSafe ==
    ASSUME IInv, NEW a \in Accounts, CommitBegins(a)
    PROVE  IInv'
<1> DEFINE e == lane[a][1].event
<1>1. /\ lane[a] # << >> /\ lane[a][1].kind = "commit" /\ flight[a].step = "idle"
      /\ receipt[e] \in {"revoked", "waiting"} /\ receipt' = [receipt EXCEPT ![e] = "spent"]
      /\ \/ receipt[e] = "revoked" /\ JobDone(a)
         \/ /\ receipt[e] = "waiting" /\ UNCHANGED lane
            /\ flight' = [flight EXCEPT ![a] = [flight[a] EXCEPT !.step = "enqueuing"]]
  BY DEF CommitBegins, Runs, IInv, Types
<1>2. /\ UNCHANGED <<queue, alarm, discards, owner, calls, active, running>>
      /\ UNCHANGED <<received, gone, ended>>
  BY DEF CommitBegins, durable, history
<1>3. CommitAt(a, 1)
  BY <1>1 DEF CommitAt, IInv, Types
<1>4. e \in Events /\ owner[e] = a /\ e \notin StoredIn(queue)
  BY <1>3, CommitFresh DEF CommitAt
<1>5. \A j \in DOMAIN lane[a] : lane[a][j].kind = "commit" /\ lane[a][j].event = e => j = 1
  BY <1>1, <1>3 DEF CommitAt, IInv, LaneInv
<1>6. /\ receipt'[e] = "spent"
      /\ receipt' \in [Events -> {"unused", "held", "waiting", "revoked", "spent"}]
      /\ \A d \in Events \ {e} : receipt'[d] = receipt[d]
  BY <1>1, <1>4 DEF IInv, Types
<1>7. Keeps /\ \A b \in Accounts : Thins(queue[b], queue'[b])
  BY <1>2, StillKeeps DEF IInv
<1>8. Ages
  BY <1>2, <1>6 DEF Ages
<1>9. QueueInv'
  BY <1>7, <1>8, QueueStep
<1>10. \A d \in Events :
          /\ receipt'[d] = "unused" <=> owner'[d] = None
          /\ receipt'[d] = "unused" => receipt[d] = "unused"
          /\ receipt'[d] \in {"held", "waiting"} => receipt[d] \in {"held", "waiting"}
          /\ receipt[d] = "spent" => receipt'[d] = "spent"
  BY <1>1, <1>2, <1>6 DEF IInv, ReceiptInv
<1>11. ReceiptInv'
  BY <1>2, <1>7, <1>10, ReceiptStep
<1>12. \A d \in ended : d \in Events
  BY DEF IInv, Types
<1>13. CASE receipt[e] = "revoked" /\ JobDone(a)
  <2>1. /\ lane' \in [Accounts -> Seq(JobRec)] /\ flight' \in [Accounts -> FlightRec]
        /\ \A b \in Accounts \ {a} : lane'[b] = lane[b] /\ flight'[b] = flight[b]
        /\ flight'[a] = NoFlight
    BY <1>1, <1>13, JobDoneFacts DEF IInv
  <2>2. Types'
    BY <1>2, <1>6, <2>1 DEF IInv, Types
  <2>3. \A b \in Accounts \ {a} : Ids(queue'[b].events) \subseteq Ids(queue[b].events)
    BY <1>7, WithinIds DEF Thins
  <2> HIDE DEF e
  <2>4. \A d \in Events : \/ receipt'[d] = receipt[d]
                          \/ CommitAt(a, 1) /\ d = lane[a][1].event
    BY <1>3, <1>6 DEF e
  <2>5. LaneInv'
    BY <1>1, <1>2, <1>7, <1>13, <2>3, <2>4, LanePops
  <2>6. FlightInv'
    <3> SUFFICES ASSUME NEW b \in Accounts \ {a} PROVE Continues(b)
      BY <1>2, <1>8, <2>1, FlightStep
    <3>1. flight[b].step = "enqueuing" => CommitAt(b, 1)
      BY DEF IInv, FlightInv
    <3> QED BY <1>2, <1>7, <2>1, <3>1 DEF Continues, CommitAt
  <2>7. \A b \in Accounts : Storing(b)' \subseteq Storing(b)
    <3> SUFFICES ASSUME NEW b \in Accounts PROVE Storing(b)' \subseteq Storing(b)
      OBVIOUS
    <3>1. CASE b = a
      BY <2>1, <3>1 DEF Storing, NoFlight
    <3>2. CASE b # a
      BY <2>1, <3>2 DEF Storing
    <3> QED BY <3>1, <3>2
  <2>8. EndInv'
    BY <1>2, <1>10, <1>12, <2>7, EndStep
  <2> QED BY <1>9, <1>11, <2>2, <2>5, <2>6, <2>8 DEF IInv
<1>14. CASE /\ receipt[e] = "waiting" /\ UNCHANGED lane
            /\ flight' = [flight EXCEPT ![a] = [flight[a] EXCEPT !.step = "enqueuing"]]
  <2>1. flight[a] \in FlightRec
    BY DEF IInv, Types
  <2>2. PICK r \in FlightRec : /\ flight' = [flight EXCEPT ![a] = r]
                               /\ r.step = "enqueuing" /\ r.token = flight[a].token
                               /\ r.ids = flight[a].ids /\ r.outcome = flight[a].outcome
    <3> DEFINE r == [flight[a] EXCEPT !.step = "enqueuing"]
    <3>1. r \in FlightRec /\ r.step = "enqueuing" /\ r.token = flight[a].token
          /\ r.ids = flight[a].ids /\ r.outcome = flight[a].outcome
      BY <2>1 DEF FlightRec
    <3>2. flight' = [flight EXCEPT ![a] = r]
      BY <1>14
    <3> HIDE DEF r
    <3> QED BY <3>1, <3>2
  <2>3. /\ flight' \in [Accounts -> FlightRec] /\ flight'[a] = r
        /\ \A b \in Accounts \ {a} : flight'[b] = flight[b]
    BY <2>2 DEF IInv, Types
  <2>4. Types'
    BY <1>2, <1>6, <1>14, <2>3 DEF IInv, Types
  <2>5. LaneInv'
    <3> SUFFICES ASSUME NEW b \in Accounts, NEW i \in DOMAIN lane[b], lane[b][i].kind = "commit"
                 PROVE  LET d == lane[b][i].event IN
                        /\ d \in Events /\ owner[d] = b /\ gone[d] = "no"
                        /\ d \notin Ids(queue[b].events)
                        /\ \/ receipt'[d] \in {"waiting", "revoked"}
                           \/ i = 1 /\ receipt'[d] = "spent" /\ flight'[b].step = "enqueuing"
                        /\ \A j \in DOMAIN lane[b] :
                              lane[b][j].kind = "commit" /\ lane[b][j].event = d => i = j
      BY <1>2, <1>14 DEF LaneInv
    <3> DEFINE d == lane[b][i].event
    <3>1. /\ d \in Events /\ owner[d] = b /\ gone[d] = "no" /\ d \notin Ids(queue[b].events)
          /\ \/ receipt[d] \in {"waiting", "revoked"}
             \/ i = 1 /\ receipt[d] = "spent" /\ flight[b].step = "enqueuing"
          /\ \A j \in DOMAIN lane[b] :
                lane[b][j].kind = "commit" /\ lane[b][j].event = d => i = j
      BY DEF IInv, LaneInv
    <3>2. CASE d = e
      <4>1. b = a
        BY <1>4, <3>1, <3>2
      <4>2. i = 1
        BY <1>5, <3>2, <4>1
      <4> QED BY <1>6, <2>2, <2>3, <3>1, <3>2, <4>1, <4>2
    <3>3. CASE d # e
      <4>1. receipt'[d] = receipt[d]
        BY <1>6, <3>1, <3>3
      <4>2. ~(b = a /\ receipt[d] = "spent")
        BY <1>1, <3>1
      <4>3. \/ receipt'[d] \in {"waiting", "revoked"}
            \/ i = 1 /\ receipt'[d] = "spent" /\ flight'[b].step = "enqueuing"
        <5> HIDE DEF d
        <5> QED BY <2>3, <3>1, <4>1, <4>2
      <4> QED BY <3>1, <4>3
    <3> QED BY <3>2, <3>3
  <2>6. FlightInv'
    <3> SUFFICES ASSUME NEW b \in Accounts
                 PROVE  /\ flight'[b].step \in {"claimed", "sent"} <=> flight'[b].token # 0
                        /\ flight'[b].outcome = "taken" => flight'[b].step \in {"claimed", "sent"}
                        /\ flight'[b].step = "enqueuing" =>
                              CommitAt(b, 1) /\ receipt'[lane[b][1].event] = "spent"
                        /\ \A d \in flight'[b].ids :
                              /\ owner[d] = b
                              /\ flight'[b].outcome = "taken" => received[d] # {}
                        /\ \A i \in DOMAIN queue[b].events :
                              queue[b].events[i].token \in {flight'[b].token} \ {0} =>
                                  queue[b].events[i].id \in flight'[b].ids
      BY <1>2, <1>14 DEF FlightInv, CommitAt
    <3>1. /\ flight[b].step \in {"claimed", "sent"} <=> flight[b].token # 0
          /\ flight[b].outcome = "taken" => flight[b].step \in {"claimed", "sent"}
          /\ flight[b].step = "enqueuing" =>
                CommitAt(b, 1) /\ receipt[lane[b][1].event] = "spent"
          /\ \A d \in flight[b].ids : /\ owner[d] = b
                                      /\ flight[b].outcome = "taken" => received[d] # {}
          /\ \A i \in DOMAIN queue[b].events :
                queue[b].events[i].token \in {flight[b].token} \ {0} =>
                    queue[b].events[i].id \in flight[b].ids
      BY DEF IInv, FlightInv
    <3>2. CASE b = a
      BY <1>1, <1>3, <1>6, <2>2, <2>3, <3>1, <3>2
    <3>3. CASE b # a
      <4>1. flight'[b] = flight[b]
        BY <2>3, <3>3
      <4>2. CommitAt(b, 1) => lane[b][1].event \in Events
        BY CommitFresh DEF CommitAt
      <4> QED BY <1>8, <3>1, <4>1, <4>2 DEF Ages
    <3> QED BY <3>2, <3>3
  <2>7. /\ Storing(a) = {} /\ Storing(a)' = {e}
        /\ \A b \in Accounts \ {a} : Storing(b)' = Storing(b)
    BY <1>1, <1>14, <2>2, <2>3 DEF Storing
  <2>8. EndInv'
    <3>1. e \in ended => a \in discards
      BY <1>4, <1>14 DEF IInv, EndInv
    <3>2. ASSUME NEW d \in ended
          PROVE  /\ receipt'[d] # "unused"
                 /\ receipt'[d] \in {"held", "waiting"} => owner[d] \in discards \ calls
      BY <1>10, <1>12 DEF IInv, EndInv
    <3>3. ASSUME NEW b \in Accounts \ discards, NEW f \in Late(b)', NEW g \in Late(b)'
          PROVE  f = g
      <4>1. Late(b)' \subseteq Late(b)
        <5>1. CASE b = a
          BY <1>2, <2>7, <3>1, <3>3, <5>1 DEF Late
        <5>2. CASE b # a
          BY <1>2, <2>7, <5>2 DEF Late
        <5> QED BY <5>1, <5>2
      <4> QED BY <3>3, <4>1 DEF IInv, EndInv
    <3> QED BY <1>2, <3>2, <3>3 DEF EndInv
  <2> QED BY <1>9, <1>11, <2>4, <2>5, <2>6, <2>8 DEF IInv
<1> QED BY <1>1, <1>13, <1>14

\* The event that is past its check is stored, or the write fails.
LEMMA EnqueueSafe ==
    ASSUME IInv, NEW a \in Accounts, Enqueue(a)
    PROVE  IInv'
<1>1. /\ lane[a] # << >> /\ JobDone(a) /\ flight[a].step = "enqueuing"
      /\ alarm' \in BOOLEAN
      /\ UNCHANGED <<receipt, owner, received, ended, discards, calls, active, running>>
  BY DEF Enqueue, Runs, Arm, IInv, Types
<1>2. \/ Store([Cleaned(queue) EXCEPT ![a].events =
                   Append(@, StoredEvent(lane[a][1].event))], "expired")
      \/ StorageFails
  BY DEF Enqueue
<1>3. Keeps /\ \A b \in Accounts \ {a} : Thins(queue[b], queue'[b])
  BY <1>1, <1>2, EnqueueKeeps, StillKeeps DEF IInv, StorageFails
<1> QED BY <1>1, <1>3, PopStep

-----------------------------------------------------------------------------
(* The flush of a scope.                                                   *)

\* A flush ends without a claim, or marks the oldest events as its batch.
LEMMA ClaimSafe ==
    ASSUME IInv, NEW a \in Accounts, Claim(a)
    PROVE  IInv'
<1>1. /\ lane[a] # << >> /\ flight[a].step = "idle" /\ lane[a][1].kind = "flush"
      /\ UNCHANGED <<discards, receipt, owner, calls, active, running, received, ended>>
      /\ ClaimRefused(a) \/ ClaimTaken(a) \/ (StorageFails /\ Arm(a) /\ FlushEnds(a, TRUE))
  BY DEF Claim, Runs
<1>2. CASE ClaimRefused(a)
  <2>1. Keeps /\ \A b \in Accounts : Thins(queue[b], queue'[b])
    BY <1>2, CleanedKeeps DEF ClaimRefused, IInv
  <2>2. JobDone(a) /\ alarm' \in BOOLEAN
    BY <1>2 DEF ClaimRefused, FlushEnds, Arm, Cancel, IInv, Types
  <2> QED BY <1>1, <2>1, <2>2, PopStep
<1>3. CASE StorageFails /\ Arm(a) /\ FlushEnds(a, TRUE)
  <2>1. Keeps /\ \A b \in Accounts : Thins(queue[b], queue'[b])
    BY <1>3, StillKeeps DEF StorageFails, IInv
  <2>2. JobDone(a) /\ alarm' \in BOOLEAN
    BY <1>3 DEF FlushEnds, Arm, IInv, Types
  <2> QED BY <1>1, <2>1, <2>2, PopStep
<1>4. CASE ClaimTaken(a)
  <2>1. /\ Keeps /\ \A b \in Accounts \ {a} : Thins(queue[b], queue'[b])
        /\ \E ids \in SUBSET Ids(queue[a].events) :
              /\ flight' = [flight EXCEPT ![a] =
                    [flight[a] EXCEPT !.step = "claimed", !.token = NewToken, !.ids = ids]]
              /\ \A i \in DOMAIN queue'[a].events :
                    queue'[a].events[i].token # 0 => queue'[a].events[i].id \in ids
    BY <1>4, ClaimTakenKeeps DEF IInv
  <2>2. PICK ids \in SUBSET Ids(queue[a].events) :
           /\ flight' = [flight EXCEPT ![a] =
                 [flight[a] EXCEPT !.step = "claimed", !.token = NewToken, !.ids = ids]]
           /\ \A i \in DOMAIN queue'[a].events :
                 queue'[a].events[i].token # 0 => queue'[a].events[i].id \in ids
    BY <2>1
  <2>3. alarm' = alarm /\ lane' = lane
    BY <1>4 DEF ClaimTaken
  <2>4. ids \subseteq Events /\ \A e \in ids : Stands(e, a)
    BY QueueTyped DEF IInv, QueueInv
  <2>5. PICK r \in FlightRec : /\ flight' = [flight EXCEPT ![a] = r] /\ r.step = "claimed"
                               /\ r.token # 0 /\ r.ids = ids /\ r.outcome = flight[a].outcome
    <3> DEFINE r == [flight[a] EXCEPT !.step = "claimed", !.token = NewToken, !.ids = ids]
    <3>1. NewToken \in Nat \ {0} /\ flight[a] \in FlightRec
      BY NewTokenFound DEF IInv, Types
    <3>2. r \in FlightRec /\ r.step = "claimed" /\ r.token = NewToken /\ r.ids = ids
          /\ r.outcome = flight[a].outcome
      BY <2>4, <3>1 DEF FlightRec
    <3>3. flight' = [flight EXCEPT ![a] = r]
      BY <2>2
    <3> HIDE DEF r
    <3> QED BY <3>1, <3>2, <3>3
  <2>6. /\ flight' \in [Accounts -> FlightRec] /\ flight'[a] = r
        /\ \A b \in Accounts \ {a} : flight'[b] = flight[b]
    BY <2>5 DEF IInv, Types
  <2>7. Types'
    BY <1>1, <2>1, <2>3, <2>6 DEF IInv, Types, Keeps, Reasons
  <2>8. Ages /\ \A e \in Events : receipt'[e] = "unused" <=> owner'[e] = None
    BY <1>1, ReceiptsStay
  <2>9. \A b \in Accounts : Storing(b) = {} \/ b # a
    BY <1>1 DEF Storing
  <2>10. \A b \in Accounts : Ids(queue'[b].events) \subseteq Ids(queue[b].events)
    <3>1. Ids(queue'[a].events) \subseteq Ids(queue[a].events)
      BY <2>1, <2>9 DEF Keeps
    <3> QED BY <2>1, <3>1, WithinIds DEF Thins
  <2>11. LaneGrows /\ QueueInv'
    BY <2>1, <2>3, <2>8, LaneStays, QueueStep
  <2>12. LaneInv'
    <3>1. \A b \in Accounts : flight[b].step = "enqueuing" => flight'[b].step = "enqueuing"
      BY <1>1, <2>6
    <3> QED BY <1>1, <2>1, <2>8, <2>10, <2>11, <3>1, LaneSteady
  <2>13. FlightInv'
    <3> SUFFICES ASSUME NEW b \in Accounts
                 PROVE  /\ flight'[b].step \in {"claimed", "sent"} <=> flight'[b].token # 0
                        /\ flight'[b].outcome = "taken" => flight'[b].step \in {"claimed", "sent"}
                        /\ flight'[b].step = "enqueuing" =>
                              CommitAt(b, 1) /\ receipt[lane[b][1].event] = "spent"
                        /\ \A e \in flight'[b].ids :
                              /\ owner[e] = b
                              /\ flight'[b].outcome = "taken" => received[e] # {}
                        /\ \A i \in DOMAIN queue'[b].events :
                              queue'[b].events[i].token \in {flight'[b].token} \ {0} =>
                                  queue'[b].events[i].id \in flight'[b].ids
      BY <1>1, <2>3 DEF FlightInv, CommitAt
    <3>1. CASE b = a
      <4>1. flight[a].outcome # "taken"
        BY <1>1 DEF IInv, FlightInv
      <4> QED BY <2>2, <2>4, <2>5, <2>6, <3>1, <4>1 DEF Stands
    <3>2. CASE b # a
      <4>1. /\ flight[b].step \in {"claimed", "sent"} <=> flight[b].token # 0
            /\ flight[b].outcome = "taken" => flight[b].step \in {"claimed", "sent"}
            /\ flight[b].step = "enqueuing" =>
                  CommitAt(b, 1) /\ receipt[lane[b][1].event] = "spent"
            /\ \A e \in flight[b].ids : /\ owner[e] = b
                                        /\ flight[b].outcome = "taken" => received[e] # {}
            /\ \A i \in DOMAIN queue[b].events :
                  queue[b].events[i].token \in {flight[b].token} \ {0} =>
                      queue[b].events[i].id \in flight[b].ids
        BY DEF IInv, FlightInv
      <4>2. flight'[b] = flight[b] /\ Within(queue[b].events, queue'[b].events)
        BY <2>1, <2>6, <3>2 DEF Thins
      <4> QED BY <4>1, <4>2 DEF Within
    <3> QED BY <3>1, <3>2
  <2>14. ReceiptInv'
    BY <1>1, <2>1, <2>8, ReceiptStep
  <2>15. EndInv'
    <3>1. \A b \in Accounts : Storing(b)' \subseteq Storing(b)
      <4> SUFFICES ASSUME NEW b \in Accounts PROVE Storing(b)' \subseteq Storing(b)
        OBVIOUS
      <4>1. CASE b = a
        BY <2>5, <2>6, <4>1 DEF Storing
      <4>2. CASE b # a
        BY <2>3, <2>6, <4>2 DEF Storing
      <4> QED BY <4>1, <4>2
    <3> QED BY <1>1, <2>10, <3>1, EndStep
  <2> QED BY <2>7, <2>11, <2>12, <2>13, <2>14, <2>15 DEF IInv
<1> QED BY <1>1, <1>2, <1>3, <1>4

\* The server has taken the batch: what still carries the claim leaves.
LEMMA AcknowledgeSafe ==
    ASSUME IInv, NEW a \in Accounts, Acknowledge(a)
    PROVE  IInv'
<1>1. /\ lane[a] # << >> /\ JobDone(a) /\ alarm' \in BOOLEAN /\ Answered(a) = "taken"
      /\ UNCHANGED <<receipt, owner, received, ended, discards, calls, active, running>>
  BY DEF Acknowledge, Runs, Arm, FlushEnds, IInv, Types
<1>2. Store(Acknowledged(Cleaned(queue), a), "sent") \/ StorageFails
  BY DEF Acknowledge
<1>3. Keeps /\ \A b \in Accounts \ {a} : Thins(queue[b], queue'[b])
  BY <1>1, <1>2, AcknowledgedKeeps, StillKeeps DEF IInv, StorageFails
<1> QED BY <1>1, <1>3, PopStep

LEMMA BatchFinite ==
    ASSUME Types, NEW a \in Accounts
    PROVE  IsFiniteSet(flight[a].ids)
<1>1. flight[a].ids \in SUBSET Events
  BY DEF Types, FlightRec
<1>2. IsFiniteSet(Events)
  BY EventAssumption, FS_Interval DEF Events
<1> QED BY <1>1, <1>2, FS_Subset

\* The batch is freed, if its claim is still there.
LEMMA ReleaseSafe ==
    ASSUME IInv, NEW a \in Accounts, Release(a)
    PROVE  IInv'
<1>1. /\ lane[a] # << >> /\ JobDone(a) /\ alarm' \in BOOLEAN /\ flight[a].step = "sent"
      /\ UNCHANGED <<receipt, owner, received, ended, discards, calls, active, running>>
  BY DEF Release, Runs, Arm, Cancel, FlushEnds, IInv, Types
<1>2. \/ /\ StillClaimed(Cleaned(queue), a) # {}
         /\ Store(Released(Cleaned(queue), a), "expired")
      \/ Store(Cleaned(queue), "expired")
      \/ StorageFails
  BY DEF Release
<1>3. IsFiniteSet(flight[a].ids)
  BY BatchFinite DEF IInv
<1>4. Keeps /\ \A b \in Accounts \ {a} : Thins(queue[b], queue'[b])
  BY <1>1, <1>2, <1>3, ReleasedKeeps, CleanedKeeps, StillKeeps DEF IInv, StorageFails
<1> QED BY <1>1, <1>4, PopStep

\* The scope of a removed account is dropped in its lane.
LEMMA RemoveScopeSafe ==
    ASSUME IInv, NEW a \in Accounts, RemoveScope(a)
    PROVE  IInv'
<1>1. /\ lane[a] # << >> /\ JobDone(a) /\ alarm' \in BOOLEAN
      /\ UNCHANGED <<receipt, owner, received, ended, discards, calls, active, running>>
  BY DEF RemoveScope, Runs, Cancel, IInv, Types
<1>2. DiscardScope(a) \/ StorageFails
  BY DEF RemoveScope
<1>3. Keeps /\ \A b \in Accounts : Thins(queue[b], queue'[b])
  BY <1>2, DiscardKeeps, StillKeeps DEF IInv, StorageFails
<1> QED BY <1>1, <1>3, PopStep

-----------------------------------------------------------------------------
(* Steps that leave the receipts as they are.                              *)

LEMMA QuietStep ==
    ASSUME IInv, Types', Keeps, LaneGrows,
           \A b \in Accounts : Thins(queue[b], queue'[b]) /\ Holds(b),
           UNCHANGED <<receipt, owner, received, ended, discards, calls>>
    PROVE  IInv'
<1>1. Ages /\ \A e \in Events : receipt'[e] = "unused" <=> owner'[e] = None
  BY ReceiptsStay
<1> QED BY <1>1, SteadyStep

\* The flight of a after its batch was sent, or its answer lost.
LEMMA FlightMoves ==
    ASSUME Types, NEW a \in Accounts, flight[a].step \in {"claimed", "sent"},
           NEW out \in {"failed", "taken", "too_large"}, NEW l \in BOOLEAN,
           flight' = [flight EXCEPT ![a] =
              [flight[a] EXCEPT !.step = "sent", !.outcome = out, !.lease = l]]
    PROVE  /\ flight' \in [Accounts -> FlightRec] /\ flight'[a].step = "sent"
           /\ flight'[a].token = flight[a].token /\ flight'[a].ids = flight[a].ids
           /\ flight'[a].outcome = out
           /\ \A b \in Accounts \ {a} : flight'[b] = flight[b]
<1> DEFINE r == [flight[a] EXCEPT !.step = "sent", !.outcome = out, !.lease = l]
<1>1. flight[a] \in FlightRec
  BY DEF Types
<1>2. r \in FlightRec /\ r.step = "sent" /\ r.token = flight[a].token
      /\ r.ids = flight[a].ids /\ r.outcome = out
  BY <1>1 DEF FlightRec
<1> HIDE DEF r
<1>3. flight' = [flight EXCEPT ![a] = r]
  BY DEF r
<1>4. flight'[a] = r /\ \A b \in Accounts \ {a} : flight'[b] = flight[b]
  BY <1>3 DEF Types
<1> QED BY <1>2, <1>3, <1>4 DEF Types

\* The batch does not reach the server, or its answer not the worker.
LEMMA SendLostSafe ==
    ASSUME IInv, NEW a \in Accounts, SendFails(a) \/ AnswerLost(a)
    PROVE  IInv'
<1>1. /\ flight[a].step \in {"claimed", "sent"}
      /\ UNCHANGED <<queue, alarm, discards, receipt, owner, lane, calls, active, running>>
      /\ UNCHANGED <<received, gone, ended>>
  BY DEF SendFails, AnswerLost, Runs, durable, history
<1>2. PICK l \in BOOLEAN : flight' = [flight EXCEPT ![a] =
              [flight[a] EXCEPT !.step = "sent", !.outcome = "failed", !.lease = l]]
  <2>1. flight[a] \in FlightRec /\ flight[a].lease \in BOOLEAN
    BY DEF IInv, Types, FlightRec
  <2>2. CASE SendFails(a)
    <3>1. [flight[a] EXCEPT !.step = "sent", !.outcome = "failed"]
          = [flight[a] EXCEPT !.step = "sent", !.outcome = "failed", !.lease = flight[a].lease]
      BY <2>1 DEF FlightRec
    <3>2. flight' = [flight EXCEPT ![a] = [flight[a] EXCEPT !.step = "sent", !.outcome = "failed"]]
      BY <2>2 DEF SendFails
    <3> QED BY <2>1, <3>1, <3>2
  <2>3. CASE AnswerLost(a)
    <3>1. flight[a].step = "sent"
      BY <2>3 DEF AnswerLost, Runs
    <3>2. [flight[a] EXCEPT !.outcome = "failed"]
          = [flight[a] EXCEPT !.step = "sent", !.outcome = "failed", !.lease = flight[a].lease]
      BY <2>1, <3>1 DEF FlightRec
    <3>3. flight' = [flight EXCEPT ![a] = [flight[a] EXCEPT !.outcome = "failed"]]
      BY <2>3 DEF AnswerLost
    <3> QED BY <2>1, <3>2, <3>3
  <2> QED BY <2>2, <2>3
<1>3. /\ flight' \in [Accounts -> FlightRec] /\ flight'[a].step = "sent"
      /\ flight'[a].token = flight[a].token /\ flight'[a].ids = flight[a].ids
      /\ flight'[a].outcome = "failed"
      /\ \A b \in Accounts \ {a} : flight'[b] = flight[b]
  BY <1>1, <1>2, FlightMoves DEF IInv
<1>4. Types'
  BY <1>1, <1>3 DEF IInv, Types
<1>5. \A b \in Accounts : Holds(b)
  BY <1>1, <1>3 DEF Holds
<1>6. Keeps /\ \A b \in Accounts : Thins(queue[b], queue'[b])
  BY <1>1, StillKeeps DEF IInv
<1> QED BY <1>1, <1>4, <1>5, <1>6, LaneStays, QuietStep

\* The server receives a batch under the account of its scope.
LEMMA SendReachesSafe ==
    ASSUME IInv, NEW a \in Accounts, SendReaches(a)
    PROVE  IInv'
<1> DEFINE sent == flight[a].ids
<1>1. PICK fits \in BOOLEAN :
         /\ received' = [e \in Events |-> IF fits /\ e \in sent THEN received[e] \cup {active}
                                                                ELSE received[e]]
         /\ flight' = [flight EXCEPT ![a].step = "sent", ![a].lease = TRUE,
                                     ![a].outcome = IF fits THEN "taken" ELSE "too_large"]
  BY DEF SendReaches
<1>2. /\ flight[a].step = "claimed" /\ active = a
      /\ UNCHANGED <<queue, alarm, discards, receipt, owner, lane, calls, active, running>>
      /\ UNCHANGED <<gone, ended>>
  BY DEF SendReaches, Runs, durable
<1>3. PICK out \in {"taken", "too_large"} : out = IF fits THEN "taken" ELSE "too_large"
  OBVIOUS
<1>4. flight' = [flight EXCEPT ![a] =
              [flight[a] EXCEPT !.step = "sent", !.outcome = out, !.lease = TRUE]]
  <2>1. flight[a] \in FlightRec
    BY DEF IInv, Types
  <2>2. [[flight[a] EXCEPT !.step = "sent"] EXCEPT !.lease = TRUE]
        = [flight[a] EXCEPT !.step = "sent", !.lease = TRUE]
    OBVIOUS
  <2>3. flight' = [flight EXCEPT ![a] =
              [flight[a] EXCEPT !.step = "sent", !.lease = TRUE, !.outcome = out]]
    BY <1>1, <1>3 DEF IInv, Types
  <2>4. [flight[a] EXCEPT !.step = "sent", !.lease = TRUE, !.outcome = out]
        = [flight[a] EXCEPT !.step = "sent", !.outcome = out, !.lease = TRUE]
    BY <2>1 DEF FlightRec
  <2> QED BY <2>3, <2>4
<1>5. /\ flight' \in [Accounts -> FlightRec] /\ flight'[a].step = "sent"
      /\ flight'[a].token = flight[a].token /\ flight'[a].ids = flight[a].ids
      /\ flight'[a].outcome = out
      /\ \A b \in Accounts \ {a} : flight'[b] = flight[b]
  BY <1>2, <1>4, FlightMoves DEF IInv
<1>6. sent \subseteq Events /\ \A e \in sent : owner[e] = a
  BY DEF IInv, Types, FlightRec, FlightInv
<1>7. /\ received' \in [Events -> SUBSET Accounts]
      /\ \A e \in Events : /\ \/ received'[e] = received[e]
                              \/ e \in sent /\ received'[e] = received[e] \cup {a}
                           /\ fits /\ e \in sent => a \in received'[e]
  BY <1>1, <1>2 DEF IInv, Types
<1>8. Types'
  BY <1>2, <1>5, <1>7 DEF IInv, Types
<1>9. \A b \in Accounts : Holds(b)
  <2> SUFFICES ASSUME NEW b \in Accounts PROVE Holds(b)
    OBVIOUS
  <2>1. CASE b = a
    <3>1. out = "taken" => \A e \in flight[a].ids : received'[e] # {}
      BY <1>3, <1>6, <1>7
    <3> QED BY <1>2, <1>5, <2>1, <3>1 DEF Holds
  <2>2. CASE b # a
    BY <1>5, <2>2 DEF Holds
  <2> QED BY <2>1, <2>2
<1>10. Keeps /\ \A b \in Accounts : Thins(queue[b], queue'[b])
  BY <1>2, StillKeeps DEF IInv
<1>11. Ages /\ \A e \in Events : receipt'[e] = "unused" <=> owner'[e] = None
  BY <1>2, ReceiptsStay
<1>12. \A e \in Events : received[e] # {} => received'[e] # {}
  BY <1>7
<1>13. /\ QueueInv' /\ LaneInv' /\ FlightInv'
       /\ \A b \in Accounts : /\ Storing(b)' = Storing(b)
                              /\ Ids(queue'[b].events) \subseteq Ids(queue[b].events)
  BY <1>2, <1>9, <1>10, <1>11, <1>12, LaneStays, Steady
<1>14. ReceiptInv'
  <2> SUFFICES ASSUME NEW e \in Events
               PROVE  /\ receipt[e] = "unused" <=> owner[e] = None
                      /\ receipt[e] = "unused" => received'[e] = {}
                      /\ receipt[e] # "spent" => gone[e] = "no"
                      /\ gone[e] = "sent" => received'[e] # {}
                      /\ received'[e] \subseteq {owner[e]}
    BY <1>2 DEF ReceiptInv
  <2>1. /\ receipt[e] = "unused" <=> owner[e] = None
        /\ receipt[e] = "unused" => received[e] = {}
        /\ receipt[e] # "spent" => gone[e] = "no"
        /\ gone[e] = "sent" => received[e] # {}
        /\ received[e] \subseteq {owner[e]}
    BY DEF IInv, ReceiptInv
  <2>2. CASE received'[e] = received[e]
    BY <2>1, <2>2
  <2>3. CASE e \in sent /\ received'[e] = received[e] \cup {a}
    BY <1>6, <2>1, <2>3, EventAssumption
  <2> QED BY <1>7, <2>2, <2>3
<1>15. EndInv'
  <2>1. \A e \in ended : e \in Events
    BY DEF IInv, Types
  <2> QED BY <1>2, <1>13, <2>1, EndStep
<1> QED BY <1>8, <1>13, <1>14, <1>15 DEF IInv

\* Another account becomes active and its scope is flushed.
LEMMA SwitchSafe ==
    ASSUME IInv, NEW a \in Accounts, SwitchTo(a)
    PROVE  IInv'
<1>1. /\ flight' = LeasesEnd /\ lane' = WithFlush(lane, a) /\ active' = a
      /\ UNCHANGED <<queue, alarm, discards, receipt, owner, calls, running>>
      /\ UNCHANGED <<received, gone, ended>>
  BY DEF SwitchTo, durable, history
<1>2. Keeps /\ \A b \in Accounts : Thins(queue[b], queue'[b])
  BY <1>1, StillKeeps DEF IInv
<1>3. LaneGrows /\ lane' \in [Accounts -> Seq(JobRec)]
  BY <1>1, FlushGrows DEF IInv
<1>4. flight' \in [Accounts -> FlightRec] /\ \A b \in Accounts : Holds(b)
  BY <1>1, LeasesGo DEF IInv
<1>5. Types'
  BY <1>1, <1>3, <1>4 DEF IInv, Types
<1> QED BY <1>1, <1>2, <1>3, <1>4, <1>5, QuietStep

\* The alarm, or a new worker, asks for a flush.
LEMMA WakeSafe ==
    ASSUME IInv, AlarmFires \/ Start
    PROVE  IInv'
<1>1. /\ lane' = lane \/ (active \in Accounts /\ lane' = WithFlush(lane, active))
      /\ alarm' \in BOOLEAN /\ running' \in BOOLEAN
      /\ UNCHANGED <<queue, discards, receipt, owner, flight, calls, active>>
      /\ UNCHANGED <<received, gone, ended>>
  BY DEF AlarmFires, Start, durable, history, IInv, Types
<1>2. Keeps /\ \A b \in Accounts : Thins(queue[b], queue'[b])
  BY <1>1, StillKeeps DEF IInv
<1>3. LaneGrows /\ lane' \in [Accounts -> Seq(JobRec)]
  BY <1>1, FlushGrows, LaneStays DEF IInv, Types
<1>4. \A b \in Accounts : Holds(b)
  BY <1>1, FlightStays
<1>5. Types'
  BY <1>1, <1>3 DEF IInv, Types
<1> QED BY <1>1, <1>2, <1>3, <1>4, <1>5, QuietStep

-----------------------------------------------------------------------------
(* Logout, discard and removal.                                            *)

\* The session of a ends; its receipts are now those of an ended session.
LEMMA LogOutSafe ==
    ASSUME IInv, NEW a \in Accounts, LogOut(a)
    PROVE  IInv'
<1>1. /\ a \notin discards /\ active' = None /\ flight' = LeasesEnd
      /\ discards' = discards \cup {a} /\ ended' = ended \cup {e \in Events : owner[e] = a}
      /\ UNCHANGED <<queue, alarm, receipt, owner, lane, calls, running, received, gone>>
  BY DEF LogOut
<1>2. Keeps /\ \A b \in Accounts : Thins(queue[b], queue'[b])
  BY <1>1, StillKeeps DEF IInv
<1>3. flight' \in [Accounts -> FlightRec] /\ \A b \in Accounts : Holds(b)
  BY <1>1, LeasesGo DEF IInv
<1>4. Ages /\ \A e \in Events : receipt'[e] = "unused" <=> owner'[e] = None
  BY <1>1, ReceiptsStay
<1>5. /\ QueueInv' /\ LaneInv' /\ FlightInv'
      /\ \A b \in Accounts : /\ Storing(b)' = Storing(b)
                             /\ Ids(queue'[b].events) \subseteq Ids(queue[b].events)
  BY <1>1, <1>2, <1>3, <1>4, LaneStays, Steady
<1>6. Types'
  BY <1>1, <1>3 DEF IInv, Types
<1>7. ReceiptInv'
  BY <1>1, <1>2, <1>4, ReceiptStep
<1>8. EndInv'
  <2>1. ASSUME NEW e \in ended'
        PROVE  /\ receipt[e] # "unused"
               /\ receipt[e] \in {"held", "waiting"} => owner[e] \in discards' \ calls
    <3>1. CASE e \in ended
      BY <1>1, <3>1 DEF IInv, EndInv
    <3>2. CASE e \in Events /\ owner[e] = a
      <4>1. owner[e] # None
        BY <3>2, EventAssumption
      <4>2. a \notin calls
        BY <1>1 DEF IInv, Types
      <4> QED BY <1>1, <3>2, <4>1, <4>2 DEF IInv, ReceiptInv
    <3> QED BY <1>1, <2>1, <3>1, <3>2
  <2>2. ASSUME NEW b \in Accounts \ discards', NEW e \in Late(b)', NEW f \in Late(b)'
        PROVE  e = f
    <3>1. b # a /\ b \in Accounts \ discards
      BY <1>1
    <3>2. ASSUME NEW d \in Late(b)'
          PROVE  d \in Late(b)
      <4>1. d \in Ids(queue[b].events) \cup Storing(b) /\ d \in ended'
        BY <1>1, <1>5 DEF Late
      <4>2. owner[d] = b
        BY <4>1, StoringIs DEF IInv, QueueInv, Stands
      <4> QED BY <1>1, <3>1, <4>1, <4>2 DEF Late
    <3> QED BY <2>2, <3>1, <3>2 DEF IInv, EndInv
  <2> QED BY <1>1, <2>1, <2>2 DEF EndInv
<1> QED BY <1>5, <1>6, <1>7, <1>8 DEF IInv

\* The epoch is renewed: no receipt of before can be committed any more.
LEMMA DiscardBeginsSafe ==
    ASSUME IInv, NEW a \in Accounts, DiscardBegins(a)
    PROVE  IInv'
<1>1. /\ calls' = calls \cup {a} /\ RevokeReceipts /\ a \in discards
      /\ UNCHANGED <<queue, alarm, discards, owner, lane, flight, active, running>>
      /\ UNCHANGED <<received, gone, ended>>
  BY DEF DiscardBegins, durable, history
<1>2. Keeps /\ \A b \in Accounts : Thins(queue[b], queue'[b])
  BY <1>1, StillKeeps DEF IInv
<1>3. LaneGrows /\ \A b \in Accounts : Holds(b)
  BY <1>1, LaneStays, FlightStays
<1>4. /\ Ages
      /\ receipt' \in [Events -> {"unused", "held", "waiting", "revoked", "spent"}]
      /\ \A e \in Events :
            /\ receipt'[e] \notin {"held", "waiting"}
            /\ receipt[e] \in {"waiting", "revoked"} => receipt'[e] \in {"waiting", "revoked"}
            /\ receipt'[e] = "unused" <=> receipt[e] = "unused"
            /\ receipt'[e] = "unused" <=> owner'[e] = None
  BY <1>1, Revoked
<1>5. Types'
  BY <1>1, <1>4 DEF IInv, Types
<1> QED BY <1>1, <1>2, <1>3, <1>4, <1>5, SteadyStep

\* The scope is emptied; what may still come is the commit past its check.
LEMMA DiscardSafe ==
    ASSUME IInv, NEW a \in Accounts, Discard(a)
    PROVE  IInv'
<1>1. /\ a \in calls /\ calls' = calls \ {a}
      /\ UNCHANGED <<receipt, owner, lane, flight, active, running, received, ended>>
      /\ \/ DiscardScope(a) /\ Cancel(a) /\ discards' = discards \ {a}
         \/ StorageFails /\ UNCHANGED <<alarm, discards>>
  BY DEF Discard
<1>2. Ages /\ \A e \in Events : receipt'[e] = "unused" <=> owner'[e] = None
  BY <1>1, ReceiptsStay
<1>3. LaneGrows /\ \A b \in Accounts : Holds(b)
  BY <1>1, LaneStays, FlightStays
<1>4. CASE DiscardScope(a) /\ Cancel(a) /\ discards' = discards \ {a}
  <2>1. /\ Keeps /\ \A b \in Accounts : Thins(queue[b], queue'[b])
        /\ Ids(queue'[a].events) = {}
    BY <1>4, DiscardKeeps DEF IInv
  <2>2. /\ QueueInv' /\ LaneInv' /\ FlightInv'
        /\ \A b \in Accounts : /\ Storing(b)' = Storing(b)
                               /\ Ids(queue'[b].events) \subseteq Ids(queue[b].events)
    BY <1>1, <1>2, <1>3, <2>1, Steady
  <2>3. Types'
    BY <1>1, <1>4, <2>1 DEF IInv, Types, Cancel, Keeps, Reasons
  <2>4. ReceiptInv'
    BY <1>1, <1>2, <2>1, ReceiptStep
  <2>5. EndInv'
    <3>1. discards' \ calls' = discards \ calls
      BY <1>1, <1>4
    <3>2. ASSUME NEW b \in Accounts \ discards', NEW e \in Late(b)', NEW f \in Late(b)'
          PROVE  e = f
      <4>1. CASE b = a
        <5>1. e \in Storing(a) /\ f \in Storing(a)
          BY <2>1, <2>2, <3>2, <4>1 DEF Late
        <5> QED BY <5>1 DEF Storing
      <4>2. CASE b # a
        <5>1. b \notin discards /\ e \in Late(b) /\ f \in Late(b)
          BY <1>1, <1>4, <2>2, <3>2, <4>2 DEF Late
        <5> QED BY <5>1 DEF IInv, EndInv
      <4> QED BY <4>1, <4>2
    <3> QED BY <1>1, <3>1, <3>2 DEF IInv, EndInv
  <2> QED BY <2>2, <2>3, <2>4, <2>5 DEF IInv
<1>5. CASE StorageFails /\ UNCHANGED <<alarm, discards>>
  <2>1. Keeps /\ \A b \in Accounts : Thins(queue[b], queue'[b])
    BY <1>5, StillKeeps DEF StorageFails, IInv
  <2>2. Types'
    BY <1>1, <1>5, <2>1 DEF IInv, Types, Keeps, Reasons
  <2> QED BY <1>1, <1>2, <1>3, <1>5, <2>1, <2>2, SteadyStep
<1> QED BY <1>1, <1>4, <1>5

\* The epoch is renewed and the removal queued.
LEMMA RemoveAccountSafe ==
    ASSUME IInv, NEW a \in Accounts, RemoveAccount(a)
    PROVE  IInv'
<1>1. /\ flight' = LeasesEnd \/ flight' = flight
      /\ active' \in {None, active} /\ RevokeReceipts
      /\ lane' = [lane EXCEPT ![a] = Append(@, [kind |-> "remove", event |-> None])]
      /\ UNCHANGED <<queue, alarm, discards, owner, calls, running>>
      /\ UNCHANGED <<received, gone, ended>>
  BY DEF RemoveAccount, durable, history
<1>2. Keeps /\ \A b \in Accounts : Thins(queue[b], queue'[b])
  BY <1>1, StillKeeps DEF IInv
<1>3. LaneGrows /\ lane' \in [Accounts -> Seq(JobRec)]
  BY <1>1, RemoveGrows DEF IInv
<1>4. flight' \in [Accounts -> FlightRec] /\ \A b \in Accounts : Holds(b)
  BY <1>1, LeasesGo, FlightStays DEF IInv, Types
<1>5. /\ Ages
      /\ receipt' \in [Events -> {"unused", "held", "waiting", "revoked", "spent"}]
      /\ \A e \in Events :
            /\ receipt'[e] \notin {"held", "waiting"}
            /\ receipt[e] \in {"waiting", "revoked"} => receipt'[e] \in {"waiting", "revoked"}
            /\ receipt'[e] = "unused" <=> receipt[e] = "unused"
            /\ receipt'[e] = "unused" <=> owner'[e] = None
  BY <1>1, Revoked
<1>6. Types'
  BY <1>1, <1>3, <1>4, <1>5 DEF IInv, Types
<1> QED BY <1>1, <1>2, <1>3, <1>4, <1>5, <1>6, SteadyStep

-----------------------------------------------------------------------------
(* Time and the worker.                                                    *)

\* A claim lapses, a retry comes due, or the clock is set back.
LEMMA TimeSafe ==
    ASSUME IInv, (\E a \in Accounts : ClaimLapses(a) \/ RetryComesDue(a)) \/ ClockSetBack
    PROVE  IInv'
<1>1. /\ UNCHANGED <<alarm, discards, receipt, owner, lane, flight, calls, active, running>>
      /\ UNCHANGED <<received, gone, ended>>
  BY DEF ClaimLapses, RetryComesDue, ClockSetBack, memory, history
<1>2. Keeps /\ \A b \in Accounts : Thins(queue[b], queue'[b])
  BY <1>1, TimeKeeps, SetBackKeeps DEF IInv
<1>3. Types'
  BY <1>1, <1>2 DEF IInv, Types, Keeps, Reasons
<1> QED BY <1>1, <1>2, <1>3, LaneStays, FlightStays, QuietStep

\* An event ages, the clock catches up, or nothing happens.
LEMMA StillSafe ==
    ASSUME IInv, (\E e \in Events : Age(e) \/ CatchesUp(e)) \/ UNCHANGED vars
    PROVE  IInv'
<1>1. /\ UNCHANGED <<queue, alarm, discards, receipt, owner, lane, flight, calls, active, running>>
      /\ UNCHANGED <<received, gone, ended>>
  BY DEF Age, CatchesUp, memory, history, vars
<1>2. Keeps /\ \A b \in Accounts : Thins(queue[b], queue'[b])
  BY <1>1, StillKeeps DEF IInv
<1>3. Types'
  BY <1>1 DEF IInv, Types
<1> QED BY <1>1, <1>2, <1>3, LaneStays, FlightStays, QuietStep

\* What the memory of the worker held is gone.
LEMMA StopSafe ==
    ASSUME IInv, Stop
    PROVE  IInv'
<1>1. /\ running' = FALSE /\ calls' = {}
      /\ lane' = [a \in Accounts |-> << >>] /\ flight' = [a \in Accounts |-> NoFlight]
      /\ receipt' = [e \in Events |-> IF receipt[e] = "unused" THEN "unused" ELSE "spent"]
      /\ UNCHANGED <<queue, alarm, discards, owner, active, received, gone, ended>>
  BY DEF Stop, durable
<1>2. NoFlight \in FlightRec /\ NoFlight.step = "idle" /\ NoFlight.token = 0
      /\ NoFlight.ids = {} /\ NoFlight.outcome = "none"
  BY DEF NoFlight, FlightRec
<1>3. \A a \in Accounts : flight'[a] = NoFlight /\ lane'[a] = << >>
  BY <1>1
<1>4. \A e \in Events : /\ receipt'[e] \in {"unused", "spent"}
                        /\ receipt'[e] = "unused" <=> receipt[e] = "unused"
  BY <1>1 DEF IInv, Types
<1>5. Types'
  <2>1. lane' \in [Accounts -> Seq(JobRec)] /\ flight' \in [Accounts -> FlightRec]
    BY <1>1, <1>2
  <2>2. receipt' \in [Events -> {"unused", "held", "waiting", "revoked", "spent"}]
    BY <1>1
  <2> QED BY <1>1, <2>1, <2>2 DEF IInv, Types
<1>6. QueueInv'
  <2>1. Keeps
    BY <1>1, StillKeeps DEF IInv
  <2>2. Ages
    BY <1>1, <1>4 DEF Ages
  <2> QED BY <2>1, <2>2, QueueStep
<1>7. LaneInv'
  BY <1>3 DEF LaneInv
<1>8. FlightInv'
  BY <1>2, <1>3 DEF FlightInv
<1>9. ReceiptInv'
  BY <1>1, <1>4 DEF IInv, ReceiptInv
<1>10. EndInv'
  <2>1. \A a \in Accounts : Late(a)' \subseteq Late(a)
    BY <1>1, <1>2, <1>3 DEF Late, Storing
  <2>2. \A e \in ended : e \in Events /\ receipt[e] # "unused"
    BY DEF IInv, Types, EndInv
  <2> QED BY <1>1, <1>4, <2>1, <2>2 DEF IInv, EndInv
<1> QED BY <1>5, <1>6, <1>7, <1>8, <1>9, <1>10 DEF IInv

-----------------------------------------------------------------------------
(* The theorems.                                                           *)

LEMMA InitSafe == Init => IInv
<1> SUFFICES ASSUME Init PROVE IInv
  OBVIOUS
<1>1. NoFlight \in FlightRec /\ NoFlight.step = "idle" /\ NoFlight.token = 0
      /\ NoFlight.ids = {} /\ NoFlight.outcome = "none"
  BY DEF NoFlight, FlightRec
<1>2. NoScope \in ScopeRec /\ ScopeInv(NoScope) /\ Ids(NoScope.events) = {}
      /\ NoScope.events = << >>
  BY NoScopeThins DEF ScopeInv, NoScope
<1>3. \A a \in Accounts : queue[a] = NoScope /\ flight[a] = NoFlight /\ lane[a] = << >>
  BY DEF Init
<1>4. Types
  <2>1. /\ queue \in [Accounts -> ScopeRec] /\ flight \in [Accounts -> FlightRec]
        /\ lane \in [Accounts -> Seq(JobRec)]
    BY <1>1, <1>2 DEF Init
  <2>2. /\ owner \in [Events -> Accounts \cup {None}]
        /\ gone \in [Events -> {"no", "sent", "expired", "discarded"}]
        /\ receipt \in [Events -> {"unused", "held", "waiting", "revoked", "spent"}]
        /\ received \in [Events -> SUBSET Accounts]
    BY DEF Init
  <2>3. active \in Accounts \cup {None} /\ alarm \in BOOLEAN /\ running \in BOOLEAN
    BY EventAssumption DEF Init
  <2> QED BY <2>1, <2>2, <2>3 DEF Init, Types
<1>5. QueueInv
  BY <1>2, <1>3 DEF QueueInv
<1>6. LaneInv
  BY <1>3 DEF LaneInv
<1>7. FlightInv
  BY <1>1, <1>2, <1>3 DEF FlightInv
<1>8. ReceiptInv
  BY DEF Init, ReceiptInv
<1>9. EndInv
  BY DEF Init, EndInv, Late
<1> QED BY <1>4, <1>5, <1>6, <1>7, <1>8, <1>9 DEF IInv

LEMMA NextSafe == IInv /\ [Next]_vars => IInv'
<1> SUFFICES ASSUME IInv, [Next]_vars PROVE IInv'
  OBVIOUS
<1>1. ASSUME NEW e \in Events, Prepare(e) \/ Commit(e)
      PROVE  IInv'
  BY <1>1, PrepareSafe, CommitSafe
<1>2. ASSUME NEW a \in Accounts, LaneStep(a)
      PROVE  IInv'
  BY <1>2, CommitBeginsSafe, EnqueueSafe, ClaimSafe, SendLostSafe, SendReachesSafe,
     AcknowledgeSafe, ReleaseSafe, RemoveScopeSafe DEF LaneStep
<1>3. ASSUME NEW a \in Accounts, SwitchTo(a) \/ LogOut(a) \/ RemoveAccount(a)
      PROVE  IInv'
  BY <1>3, SwitchSafe, LogOutSafe, RemoveAccountSafe
<1>4. ASSUME NEW a \in Accounts, DiscardBegins(a) \/ Discard(a)
      PROVE  IInv'
  BY <1>4, DiscardBeginsSafe, DiscardSafe
<1>5. CASE (\E a \in Accounts : ClaimLapses(a) \/ RetryComesDue(a)) \/ ClockSetBack
  BY <1>5, TimeSafe
<1>6. CASE AlarmFires \/ Stop \/ Start
  BY <1>6, WakeSafe, StopSafe
<1>7. CASE (\E e \in Events : Age(e) \/ CatchesUp(e)) \/ UNCHANGED vars
  BY <1>7, StillSafe
<1> QED BY <1>1, <1>2, <1>3, <1>4, <1>5, <1>6, <1>7 DEF Next

\* In every reachable state an event has one place and one owner: held, in a
\* lane, being stored or stored (see the header).
THEOREM EventInvariant == Spec => []IInv
<1>1. Init => IInv
  BY InitSafe
<1>2. IInv /\ [Next]_vars => IInv'
  BY NextSafe
<1> QED BY <1>1, <1>2, PTL DEF Spec

\* The other steps of a lane leave the envelope alone.
LEMMA EnvelopeStays ==
    ASSUME NEW a \in Accounts, CommitBegins(a) \/ SendFails(a) \/ SendReaches(a) \/ AnswerLost(a)
    PROVE  UNCHANGED <<queue, ahead>>
  BY DEF CommitBegins, SendFails, SendReaches, AnswerLost, durable, clock

\* Only a claim dates anything back, and only over an event that is ahead.
LEMMA StaysOnTime ==
    ASSUME IInv, [Next]_vars, ahead = {}
    PROVE  \A b \in Accounts : OnTime(queue[b].events) => OnTime(queue'[b].events)
<1> DEFINE Goal == \A b \in Accounts : OnTime(queue[b].events) => OnTime(queue'[b].events)
<1>1. ASSUME \A b \in Accounts : Thins(queue[b], queue'[b]) PROVE Goal
  BY <1>1, ThinOnTime
<1>2. ASSUME UNCHANGED queue PROVE Goal
  BY <1>2
<1>3. ASSUME StorageFails PROVE Goal
  BY <1>2, <1>3 DEF StorageFails
<1>4. ASSUME NEW a \in Accounts, Enqueue(a) PROVE Goal
  <2>1. \/ Store([Cleaned(queue) EXCEPT ![a].events =
                     Append(@, StoredEvent(lane[a][1].event))], "expired")
        \/ StorageFails
    BY <1>4 DEF Enqueue
  <2>2. flight[a].step = "enqueuing"
    BY <1>4 DEF Enqueue, Runs
  <2> QED BY <1>3, <2>1, <2>2, EnqueueKeeps, ThinOnTime DEF IInv
<1>5. ASSUME NEW a \in Accounts, Claim(a) PROVE Goal
  <2>1. CASE ClaimRefused(a)
    BY <1>1, <2>1, CleanedKeeps DEF ClaimRefused, IInv
  <2>2. CASE ClaimTaken(a)
    BY <2>2, ClaimTakenKeeps, ThinOnTime DEF IInv
  <2> QED BY <1>3, <1>5, <2>1, <2>2 DEF Claim
<1>6. ASSUME NEW a \in Accounts, Acknowledge(a) PROVE Goal
  BY <1>1, <1>3, <1>6, AcknowledgedKeeps DEF Acknowledge, IInv
<1>7. ASSUME NEW a \in Accounts, Release(a) PROVE Goal
  <2>1. IsFiniteSet(flight[a].ids)
    BY BatchFinite DEF IInv
  <2>2. flight[a].step = "sent"
    BY <1>7 DEF Release, Runs
  <2>3. \/ /\ StillClaimed(Cleaned(queue), a) # {}
           /\ Store(Released(Cleaned(queue), a), "expired")
        \/ Store(Cleaned(queue), "expired")
        \/ StorageFails
    BY <1>7 DEF Release
  <2> QED BY <1>1, <1>3, <2>1, <2>2, <2>3, ReleasedKeeps, CleanedKeeps DEF IInv
<1>8. ASSUME NEW a \in Accounts, RemoveScope(a) \/ Discard(a) PROVE Goal
  <2>1. DiscardScope(a) \/ StorageFails
    BY <1>8 DEF RemoveScope, Discard
  <2> QED BY <1>1, <1>3, <2>1, DiscardKeeps DEF IInv
<1>9. ASSUME NEW a \in Accounts, LaneStep(a) PROVE Goal
  BY <1>2, <1>4, <1>5, <1>6, <1>7, <1>8, <1>9, EnvelopeStays DEF LaneStep
<1>10. CASE (\E a \in Accounts : ClaimLapses(a) \/ RetryComesDue(a)) \/ ClockSetBack
  <2>1. UNCHANGED gone
    BY <1>10 DEF ClaimLapses, RetryComesDue, ClockSetBack, history
  <2> QED BY <1>1, <1>10, <2>1, TimeKeeps, SetBackKeeps DEF IInv
<1>11. ASSUME NEW e \in Events, Prepare(e) \/ Commit(e) \/ Age(e) \/ CatchesUp(e) PROVE Goal
  BY <1>2, <1>11 DEF Prepare, Commit, Age, CatchesUp, durable
<1>12. ASSUME NEW a \in Accounts, SwitchTo(a) \/ LogOut(a) \/ RemoveAccount(a) \/ DiscardBegins(a)
       PROVE  Goal
  BY <1>2, <1>12 DEF SwitchTo, LogOut, RemoveAccount, DiscardBegins, durable
<1>13. CASE AlarmFires \/ Stop \/ Start \/ UNCHANGED vars
  BY <1>2, <1>13 DEF AlarmFires, Stop, Start, durable, vars
<1> QED BY <1>8, <1>9, <1>10, <1>11, <1>12, <1>13 DEF Next

\* What is ahead of the clock are events.
LEMMA AheadSafe ==
    ASSUME IInv, [Next]_vars, ahead \subseteq Events
    PROVE  ahead' \subseteq Events
<1>1. CASE ClockSetBack
  <2>1. StoredIn(queue) \subseteq Events
    BY QueueTyped DEF IInv, StoredIn
  <2> QED BY <1>1, <2>1 DEF ClockSetBack
<1>2. ASSUME NEW e \in Events, CatchesUp(e) PROVE ahead' \subseteq Events
  BY <1>2 DEF CatchesUp
<1>3. ASSUME NEW a \in Accounts, LaneStep(a) PROVE UNCHANGED ahead
  BY <1>3, EnvelopeStays
     DEF LaneStep, Enqueue, Claim, Acknowledge, Release, RemoveScope, clock
<1>4. ASSUME NEW e \in Events, Prepare(e) \/ Commit(e) \/ Age(e) PROVE UNCHANGED ahead
  BY <1>4 DEF Prepare, Commit, Age, durable, clock
<1>5. ASSUME NEW a \in Accounts, \/ SwitchTo(a) \/ LogOut(a) \/ RemoveAccount(a)
                                \/ DiscardBegins(a) \/ Discard(a)
                                \/ ClaimLapses(a) \/ RetryComesDue(a)
      PROVE  UNCHANGED ahead
  BY <1>5 DEF SwitchTo, LogOut, RemoveAccount, DiscardBegins, Discard, ClaimLapses,
              RetryComesDue, durable, clock
<1>6. CASE AlarmFires \/ Stop \/ Start \/ UNCHANGED vars
  BY <1>6 DEF AlarmFires, Stop, Start, durable, clock, vars
<1> QED BY <1>1, <1>2, <1>3, <1>4, <1>5, <1>6 DEF Next

LEMMA QueueWellFormed ==
    ASSUME IInv
    PROVE  WellFormed(queue)
<1>1. \A a \in Accounts : OneClaim(queue[a])
  BY DEF IInv, QueueInv, ScopeInv
<1>2. \A a, b \in Accounts : a # b => Ids(queue[a].events) \cap Ids(queue[b].events) = {}
  BY DEF IInv, QueueInv, Stands
<1> QED BY <1>1, <1>2 DEF WellFormed

\* ReaderAcceptsWriter: parseEnvelope (client-event-queue.ts:610-742) finds one
\* claim in a scope, within its limit, and no event twice, whatever has run; it
\* accepts the envelope as long as no operation runs while the clock is behind
\* an event that it was set back over.
THEOREM EnvelopeStaysReadable == Spec => ReaderAcceptsWriter
<1> DEFINE Inv == IInv /\ ahead \subseteq Events
           Forward == ahead = {} /\ Readable(queue) => Readable(queue')
<1>1. Inv => TypeOK /\ WellFormed(queue)
  <2> SUFFICES ASSUME Inv PROVE TypeOK /\ WellFormed(queue)
    OBVIOUS
  <2>3. ASSUME NEW a \in Accounts
        PROVE  /\ queue[a].retry \in {"none", "waits", "due"} /\ queue[a].limit \in 1 .. MaxBatch
               /\ Ids(queue[a].events) \subseteq Events
               /\ flight[a].step \in {"idle", "enqueuing", "claimed", "sent"}
               /\ flight[a].step \in {"claimed", "sent"} <=> flight[a].token # 0
    <3>1. flight[a] \in FlightRec
      BY DEF IInv, Types
    <3>2. flight[a].step \in {"idle", "enqueuing", "claimed", "sent"}
      BY <3>1 DEF FlightRec
    <3>3. flight[a].step \in {"claimed", "sent"} <=> flight[a].token # 0
      BY DEF IInv, FlightInv
    <3> QED BY <3>2, <3>3, QueueTyped DEF IInv, Retries
  <2>4. TypeOK
    BY <2>3 DEF IInv, Types, TypeOK
  <2> QED BY <2>4, QueueWellFormed
<1>2. Init => Inv
  BY InitSafe DEF Init
<1>3. Inv /\ [Next]_vars => Inv'
  BY NextSafe, AheadSafe
<1>4. Inv /\ WellFormed(queue)' /\ [Next]_vars => [Forward]_vars
  <2> SUFFICES ASSUME Inv, WellFormed(queue)', [Next]_vars, ahead = {}, Readable(queue)
               PROVE  Readable(queue')
    OBVIOUS
  <2>1. \A b \in Accounts : OnTime(queue'[b].events)
    BY StaysOnTime DEF Readable
  <2> QED BY <2>1 DEF Readable, WellFormed
<1> HIDE DEF Inv, Forward
<1> QED BY <1>1, <1>2, <1>3, <1>4, PTL DEF Spec, ReaderAcceptsWriter, Forward

\* EventsAccountedFor: an event leaves as sent only if the server has taken
\* it, reaches the server under its own account alone, is never stored again,
\* and of an ended session at most one is stored after the discard.
THEOREM EventsStayAccounted == Spec => []EventsAccountedFor
<1>1. IInv => EventsAccountedFor
  <2> SUFFICES ASSUME IInv PROVE EventsAccountedFor
    OBVIOUS
  <2>1. \A e \in Events : (gone[e] = "sent" => received[e] # {}) /\ received[e] \subseteq {owner[e]}
    BY DEF IInv, ReceiptInv
  <2>2. \A e \in StoredIn(queue) : gone[e] = "no"
    BY DEF IInv, QueueInv, Stands, StoredIn
  <2>3. ASSUME NEW a \in Accounts \ discards
        PROVE  Cardinality(Ids(queue[a].events) \cap ended) <= 1
    <3> DEFINE left == Ids(queue[a].events) \cap ended
    <3>1. \A e, f \in left : e = f
      BY DEF IInv, EndInv, Late
    <3>2. CASE left = {}
      BY <3>2, FS_EmptySet
    <3>3. CASE left # {}
      <4>1. PICK e : left = {e}
        BY <3>1, <3>3
      <4> HIDE DEF left
      <4>2. Cardinality(left) = 1
        BY <4>1, FS_Singleton
      <4> QED BY <4>2 DEF left
    <3> QED BY <3>2, <3>3
  <2> QED BY <2>1, <2>2, <2>3 DEF EventsAccountedFor
<1> QED BY <1>1, EventInvariant, PTL
=============================================================================
