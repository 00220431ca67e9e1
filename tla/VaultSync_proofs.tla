--------------------------- MODULE VaultSync_proofs ---------------------------
(***************************************************************************)
(* The safety of synchronisation, for any accounts, activities, markers    *)
(* and changes of the server, and any number of disturbances.              *)
(*                                                                         *)
(* The argument.  A lane runs one entry at a time (LaneInv), so that a     *)
(* write knows what its lane has shown: the marker is set before the       *)
(* request goes out, and only a turn that has published a copy sent after  *)
(* it, or knows that it failed, may clear it (MarkInv).  Making room takes *)
(* a clean entry, so no other account can lose its marker.  What a turn    *)
(* has published stays in the cache while its account is active (CopyInv); *)
(* an activity waits for one entry of one lane (WaitInv) and, when it      *)
(* asked by force, not for one whose response is on its way (FreshInv).    *)
(*                                                                         *)
(* Types, bounds and counts are a second invariant (TInv) on top of the    *)
(* first.  A count of the changes bounds every version, one of the tracked *)
(* accounts the marker store; whoever waits is in an entry, and by WaitInv *)
(* in no other.  A lane that refuses work has one turn under way and no    *)
(* more: only so does leaving an account keep what it suspends.            *)
(***************************************************************************)
EXTENDS VaultSync, SequenceTheorems, FiniteSetTheorems, TLAPS

-----------------------------------------------------------------------------
(* The inductive invariant.                                                *)

JobRec ==
    [kind : {"sync", "write"}, policy : {"force", "coalesce"},
     step : {"queued", "asked", "marked", "sent", "applied", "answered", "published"},
     ok : BOOLEAN, keys : BOOLEAN, seen : Nat, by : SUBSET Slots]

\* The types of what the other parts speak of.
Types ==
    /\ account \in Accounts \cup {None}
    /\ unlocked \in BOOLEAN /\ (unlocked => account # None)
    /\ server \in [Accounts -> Nat] /\ own \in [Accounts -> Nat]
    /\ unseen \subseteq Accounts
    /\ cache \in [owner : Accounts \cup {None}, version : Nat]
    /\ markers \in [Accounts -> {"absent", "clean", "dirty"}]
    /\ lanes \in [Accounts -> Seq(JobRec)]
    /\ flows = [s \in Slots |-> flows[s]]

Places(a) == 1 .. Len(lanes[a])

\* Only the head of a lane has begun, a write answers no activity, and who
\* still finds its account unchanged is in the lane of the active account.
LaneInv ==
    \A a \in Accounts : \A k \in Places(a) :
      LET j == lanes[a][k] IN
      /\ k > 1 => j.step = "queued"
      /\ j.kind = "write" => j.step # "asked" /\ j.by = {}
      /\ j.kind = "sync" => j.step \in {"queued", "asked", "answered", "published"}
      /\ j.ok => a = account

\* The marker goes first and stays until a copy sent after the change is out.
MarkInv ==
    /\ UnseenIsMarked
    /\ \A a \in Accounts :
         /\ own[a] <= server[a]
         /\ lanes[a] # <<>> =>
              LET h == lanes[a][1] IN
              /\ h.kind = "write" /\ h.step # "queued" => markers[a] = "dirty"
              /\ h.step \in {"marked", "published"} => a \notin unseen
              /\ h.step = "answered" => own[a] <= h.seen

\* A published copy stays in the cache for as long as its account is active.
CopyInv ==
    /\ CacheIsTheAccounts
    /\ \A a \in Accounts :
         lanes[a] # <<>> /\ lanes[a][1].step = "published" /\ lanes[a][1].ok
           => cache.owner = a /\ cache.version = lanes[a][1].seen

\* An activity waits for one entry, of the lane it has asked.
WaitInv ==
    \A a \in Accounts : \A k \in Places(a) : \A s \in lanes[a][k].by :
      /\ flows[s].at = "waiting" /\ flows[s].on = a
      /\ flows[s].asked \in Nat /\ flows[s].asked <= server[a]
      /\ \A l \in Places(a) : s \in lanes[a][l].by => l = k

\* A response is no older than the forced requests that wait for it.
FreshInv ==
    \A a \in Accounts :
      lanes[a] # <<>> /\ lanes[a][1].step \in {"answered", "published"} =>
        \A s \in lanes[a][1].by :
          flows[s].entry = "force" => flows[s].asked <= lanes[a][1].seen

IInv == Types /\ LaneInv /\ MarkInv /\ CopyInv /\ WaitInv /\ FreshInv

-----------------------------------------------------------------------------
(* Activities.                                                             *)

\* An activity that does not wait is in no entry.
LEMMA NotWaiting ==
    ASSUME WaitInv, NEW s \in Slots, flows[s].at # "waiting"
    PROVE  \A a \in Accounts : \A k \in Places(a) : s \notin lanes[a][k].by
BY DEF WaitInv

\* One activity moves on, the others stay where they are.
Only(s) ==
    /\ flows' = [t \in Slots |-> flows'[t]]
    /\ \A t \in Slots \ {s} : flows'[t] = flows[t]

LEMMA FlowSet ==
    ASSUME Types, NEW s \in Slots, NEW g, flows' = [flows EXCEPT ![s] = g]
    PROVE  Only(s) /\ flows'[s] = g
<1>1. flows = [t \in Slots |-> flows[t]]
  BY DEF Types
<1>2. DOMAIN flows = Slots
  BY <1>1
<1>3. flows' = [t \in Slots |-> IF t = s THEN g ELSE flows[t]]
  BY <1>1, <1>2
<1> QED BY <1>3 DEF Only

\* Places of the lanes hold jobs.
LEMMA JobAt ==
    ASSUME Types, NEW a \in Accounts, NEW k \in Places(a)
    PROVE  lanes[a][k] \in JobRec
<1>1. lanes[a] \in Seq(JobRec)
  BY DEF Types
<1> QED BY <1>1, ElementOfSeq DEF Places

\* The head of a lane is its first place.
LEMMA HeadIsFirst ==
    ASSUME Types, NEW a \in Accounts, lanes[a] # <<>>
    PROVE  /\ Head(lanes[a]) = lanes[a][1] /\ 1 \in Places(a) /\ lanes[a][1] \in JobRec
           /\ DOMAIN lanes[a] = Places(a) /\ Len(lanes[a]) \in Nat \ {0}
<1>1. lanes[a] \in Seq(JobRec)
  BY DEF Types
<1>2. Len(lanes[a]) \in Nat \ {0}
  BY <1>1, EmptySeq
<1>3. DOMAIN lanes[a] = Places(a)
  BY <1>1, LenProperties DEF Places
<1>4. 1 \in Places(a)
  BY <1>2 DEF Places
<1> QED BY <1>1, <1>2, <1>3, <1>4, JobAt

LEMMA WaitersAreSlots ==
    ASSUME Types, NEW a \in Accounts, NEW k \in Places(a), NEW s \in lanes[a][k].by
    PROVE  s \in Slots
BY JobAt DEF JobRec

\* The invariant sees only these variables.
LEMMA Unseen ==
    ASSUME IInv, UNCHANGED <<session, server, own, unseen, cache, markers, lanes, flows>>
    PROVE  IInv'
<1> USE DEF session
<1>1. Types'
  BY DEF IInv, Types
<1>2. LaneInv'
  BY DEF IInv, LaneInv, Places
<1>3. MarkInv'
  BY DEF IInv, MarkInv, UnseenIsMarked
<1>4. CopyInv'
  BY DEF IInv, CopyInv, CacheIsTheAccounts
<1>5. WaitInv'
  BY DEF IInv, WaitInv, Places
<1>6. FreshInv'
  BY DEF IInv, FreshInv
<1> QED BY <1>1, <1>2, <1>3, <1>4, <1>5, <1>6 DEF IInv

\* Moving on disturbs nobody who waits.
LEMMA OthersWait ==
    ASSUME IInv, NEW s \in Slots, flows[s].at # "waiting", Only(s), UNCHANGED <<server, lanes>>
    PROVE  WaitInv' /\ FreshInv'
<1>1. \A t \in Slots \ {s} : flows'[t] = flows[t]
  BY DEF Only
<1>2. \A a \in Accounts : \A k \in Places(a) : s \notin lanes[a][k].by
  BY NotWaiting DEF IInv
<1>3. \A a \in Accounts : \A k \in Places(a) : \A t \in lanes[a][k].by : flows'[t] = flows[t]
  BY <1>1, <1>2, WaitersAreSlots DEF IInv
<1>4. WaitInv'
  BY <1>3 DEF IInv, WaitInv, Places
<1>5. FreshInv'
  <2>1. SUFFICES ASSUME NEW a \in Accounts, lanes[a] # <<>>,
                        lanes[a][1].step \in {"answered", "published"},
                        NEW t \in lanes[a][1].by, flows'[t].entry = "force"
                 PROVE  flows'[t].asked <= lanes[a][1].seen
    BY DEF FreshInv
  <2>2. flows'[t] = flows[t]
    BY <2>1, <1>3, HeadIsFirst DEF IInv
  <2> QED BY <2>1, <2>2 DEF IInv, FreshInv
<1> QED BY <1>4, <1>5

\* Moving on without a request disturbs nothing.
LEMMA FlowKeeps ==
    ASSUME IInv, NEW s \in Slots, flows[s].at # "waiting", Only(s),
           UNCHANGED <<session, server, own, unseen, cache, markers, lanes>>
    PROVE  IInv'
<1> USE DEF session
<1>1. WaitInv' /\ FreshInv'
  BY OthersWait
<1>2. Types'
  BY DEF IInv, Types, Only
<1>3. LaneInv'
  BY DEF IInv, LaneInv, Places
<1>4. MarkInv'
  BY DEF IInv, MarkInv, UnseenIsMarked
<1>5. CopyInv'
  BY DEF IInv, CopyInv, CacheIsTheAccounts
<1> QED BY <1>1, <1>2, <1>3, <1>4, <1>5 DEF IInv

-----------------------------------------------------------------------------
(* Lanes.                                                                  *)

\* A new job at the head: the places behind it are as they were.
LEMMA HeadSet ==
    ASSUME Types, NEW a \in Accounts, lanes[a] # <<>>, NEW r \in JobRec,
           lanes' = [lanes EXCEPT ![a] = [@ EXCEPT ![1] = r]]
    PROVE  /\ lanes' \in [Accounts -> Seq(JobRec)]
           /\ lanes'[a] # <<>> /\ lanes'[a][1] = r
           /\ \A b \in Accounts : Places(b)' = Places(b)
           /\ \A b \in Accounts \ {a} : lanes'[b] = lanes[b]
           /\ \A k \in Places(a) \ {1} : lanes'[a][k] = lanes[a][k]
<1>1. lanes \in [Accounts -> Seq(JobRec)]
  BY DEF Types
<1>2. 1 \in 1 .. Len(lanes[a]) /\ Len(lanes[a]) \in Nat \ {0}
  BY HeadIsFirst DEF Places
<1> DEFINE q == [lanes[a] EXCEPT ![1] = r]
<1>3. lanes[a] \in Seq(JobRec)
  BY <1>1
<1>4. /\ q \in Seq(JobRec) /\ Len(q) = Len(lanes[a])
      /\ \A j \in 1 .. Len(lanes[a]) : q[j] = IF j = 1 THEN r ELSE lanes[a][j]
  BY <1>2, <1>3, ExceptSeq
<1>5. lanes' = [lanes EXCEPT ![a] = q]
  OBVIOUS
<1> HIDE DEF q
<1>6. lanes'[a] = q /\ (\A b \in Accounts \ {a} : lanes'[b] = lanes[b])
      /\ lanes' \in [Accounts -> Seq(JobRec)]
  BY <1>1, <1>4, <1>5
<1>7. q # <<>>
  BY <1>2, <1>4, EmptySeq
<1>8. \A b \in Accounts : Places(b)' = Places(b)
  BY <1>4, <1>6 DEF Places
<1> QED BY <1>2, <1>4, <1>6, <1>7, <1>8 DEF Places

\* A step of the turn: only the step and the version seen change.
HeadBecomes(a, step, seen) ==
    lanes' = [lanes EXCEPT ![a] =
        [@ EXCEPT ![1] = [lanes[a][1] EXCEPT !.step = step, !.seen = seen]]]

LEMMA Goes ==
    ASSUME Types, NEW a \in Accounts, lanes[a] # <<>>, NEW step, TurnGoes(a, step)
    PROVE  HeadBecomes(a, step, lanes[a][1].seen) /\ UNCHANGED <<flows, suspended>>
<1>1. lanes \in [Accounts -> Seq(JobRec)] /\ lanes[a] \in Seq(JobRec)
  BY DEF Types
<1>2. 1 \in DOMAIN lanes[a] /\ lanes[a][1] \in JobRec
  BY HeadIsFirst
<1>3. [lanes[a][1] EXCEPT !.step = step, !.seen = lanes[a][1].seen]
        = [lanes[a][1] EXCEPT !.step = step]
  BY <1>2 DEF JobRec
<1>4. lanes' = [lanes EXCEPT ![a] = [@ EXCEPT ![1] = [lanes[a][1] EXCEPT !.step = step]]]
  BY <1>1, <1>2 DEF TurnGoes
<1> QED BY <1>3, <1>4 DEF TurnGoes, HeadBecomes

LEMMA Sees ==
    ASSUME Types, NEW a \in Accounts, lanes[a] # <<>>, NEW step, TurnSees(a, step)
    PROVE  HeadBecomes(a, step, server[a]) /\ UNCHANGED <<flows, suspended>>
<1>1. lanes \in [Accounts -> Seq(JobRec)] /\ lanes[a] \in Seq(JobRec)
  BY DEF Types
<1>2. 1 \in DOMAIN lanes[a] /\ lanes[a][1] \in JobRec
  BY HeadIsFirst
<1>3. lanes' = [lanes EXCEPT ![a] = [@ EXCEPT ![1] =
                  [lanes[a][1] EXCEPT !.step = step, !.seen = server[a]]]]
  BY <1>1, <1>2 DEF TurnSees
<1> QED BY <1>3 DEF TurnSees, HeadBecomes

Steps == {"queued", "asked", "marked", "sent", "applied", "answered", "published"}

\* What a step of the turn leaves of the lanes, and what it keeps in any case.
LEMMA HeadMoves ==
    ASSUME IInv, NEW a \in Accounts, lanes[a] # <<>>,
           NEW step \in Steps, NEW seen \in Nat, HeadBecomes(a, step, seen),
           lanes[a][1].kind = "write" => step # "asked",
           lanes[a][1].kind = "sync" => step \in {"queued", "asked", "answered", "published"},
           UNCHANGED <<account, flows>>,
           \A b \in Accounts : server'[b] \in Nat /\ server'[b] >= server[b]
    PROVE  /\ lanes' \in [Accounts -> Seq(JobRec)]
           /\ lanes'[a] # <<>> /\ lanes'[a][1].step = step /\ lanes'[a][1].seen = seen
           /\ lanes'[a][1].kind = lanes[a][1].kind /\ lanes'[a][1].by = lanes[a][1].by
           /\ lanes'[a][1].ok = lanes[a][1].ok
           /\ \A b \in Accounts \ {a} : lanes'[b] = lanes[b]
           /\ LaneInv' /\ WaitInv'
<1> DEFINE r == [lanes[a][1] EXCEPT !.step = step, !.seen = seen]
<1>1. lanes[a][1] \in JobRec /\ 1 \in Places(a)
  BY HeadIsFirst DEF IInv
<1>2. r \in JobRec /\ r.kind = lanes[a][1].kind /\ r.by = lanes[a][1].by /\ r.ok = lanes[a][1].ok
      /\ r.step = step /\ r.seen = seen
  BY <1>1 DEF JobRec, Steps
<1>3. lanes' = [lanes EXCEPT ![a] = [@ EXCEPT ![1] = r]]
  BY DEF HeadBecomes
<1> HIDE DEF r
<1>4. /\ lanes' \in [Accounts -> Seq(JobRec)]
      /\ lanes'[a] # <<>> /\ lanes'[a][1] = r
      /\ \A b \in Accounts : Places(b)' = Places(b)
      /\ \A b \in Accounts \ {a} : lanes'[b] = lanes[b]
      /\ \A k \in Places(a) \ {1} : lanes'[a][k] = lanes[a][k]
  BY <1>2, <1>3, HeadSet DEF IInv
<1>5. \A b \in Accounts : \A k \in Places(b) :
        /\ lanes'[b][k].by = lanes[b][k].by /\ lanes'[b][k].ok = lanes[b][k].ok
        /\ lanes'[b][k].kind = lanes[b][k].kind
        /\ b # a \/ k # 1 => lanes'[b][k].step = lanes[b][k].step
  BY <1>2, <1>4
<1>6. LaneInv'
  <2>1. SUFFICES ASSUME NEW b \in Accounts, NEW k \in Places(b)
                 PROVE  LET j == lanes'[b][k] IN
                        /\ k > 1 => j.step = "queued"
                        /\ j.kind = "write" => j.step # "asked" /\ j.by = {}
                        /\ j.kind = "sync" =>
                             j.step \in {"queued", "asked", "answered", "published"}
                        /\ j.ok => b = account
    BY <1>4 DEF LaneInv
  <2>2. CASE b = a /\ k = 1
    BY <2>2, <1>2, <1>4, <1>5, <1>1 DEF IInv, LaneInv
  <2>3. CASE b # a \/ k # 1
    BY <2>3, <1>5 DEF IInv, LaneInv
  <2> QED BY <2>2, <2>3
<1>7. WaitInv'
  <2>1. SUFFICES ASSUME NEW b \in Accounts, NEW k \in Places(b), NEW s \in lanes[b][k].by
                 PROVE  /\ flows[s].at = "waiting" /\ flows[s].on = b
                        /\ flows[s].asked \in Nat /\ flows[s].asked <= server'[b]
                        /\ \A l \in Places(b) : s \in lanes[b][l].by => l = k
    BY <1>4, <1>5 DEF WaitInv
  <2>2. /\ flows[s].at = "waiting" /\ flows[s].on = b
        /\ flows[s].asked \in Nat /\ flows[s].asked <= server[b]
        /\ \A l \in Places(b) : s \in lanes[b][l].by => l = k
    BY DEF IInv, WaitInv
  <2>3. server[b] \in Nat
    BY DEF IInv, Types
  <2> QED BY <2>2, <2>3
<1> QED BY <1>2, <1>4, <1>6, <1>7

\* A turn that ends leaves a lane whose new head has not begun.
LEMMA Ended ==
    ASSUME IInv, NEW a \in Accounts, lanes[a] # <<>>, TurnEnds(a), UNCHANGED <<account, server>>
    PROVE  /\ lanes' \in [Accounts -> Seq(JobRec)]
           /\ lanes'[a] # <<>> => lanes'[a][1].step = "queued"
           /\ \A b \in Accounts \ {a} : lanes'[b] = lanes[b]
           /\ flows' = [s \in Slots |-> flows'[s]]
           /\ LaneInv' /\ WaitInv' /\ FreshInv'
<1> USE DEF IInv
<1>1. lanes \in [Accounts -> Seq(JobRec)] /\ lanes[a] \in Seq(JobRec)
  BY DEF Types
<1>2. 1 \in Places(a) /\ Head(lanes[a]) = lanes[a][1] /\ Len(lanes[a]) \in Nat \ {0}
  BY HeadIsFirst
<1>3. /\ Tail(lanes[a]) \in Seq(JobRec) /\ Len(Tail(lanes[a])) = Len(lanes[a]) - 1
      /\ \A i \in 1 .. Len(Tail(lanes[a])) : Tail(lanes[a])[i] = lanes[a][i + 1]
  BY <1>1, HeadTailProperties
<1>4. lanes' = [lanes EXCEPT ![a] = Tail(lanes[a])]
  BY DEF TurnEnds
<1>5. lanes' \in [Accounts -> Seq(JobRec)] /\ lanes'[a] = Tail(lanes[a])
      /\ \A b \in Accounts \ {a} : lanes'[b] = lanes[b]
  BY <1>1, <1>3, <1>4
<1>6. \A k \in Places(a)' : k + 1 \in Places(a) /\ lanes'[a][k] = lanes[a][k + 1]
  BY <1>2, <1>3, <1>5 DEF Places
<1>7. \A b \in Accounts \ {a} : Places(b)' = Places(b)
  BY <1>5 DEF Places
<1>8. \A k \in Places(a)' : lanes'[a][k].step = "queued"
  BY <1>6 DEF LaneInv, Places
<1>9. lanes'[a] # <<>> => 1 \in Places(a)'
  BY <1>3, <1>5, EmptySeq DEF Places
<1>10. flows' = [s \in Slots |-> IF s \in lanes[a][1].by THEN Idle ELSE flows[s]]
  BY <1>2 DEF TurnEnds, Answered
<1>11. LaneInv'
  <2>1. SUFFICES ASSUME NEW b \in Accounts, NEW k \in Places(b)'
                 PROVE  LET j == lanes'[b][k] IN
                        /\ k > 1 => j.step = "queued"
                        /\ j.kind = "write" => j.step # "asked" /\ j.by = {}
                        /\ j.kind = "sync" =>
                             j.step \in {"queued", "asked", "answered", "published"}
                        /\ j.ok => b = account
    BY DEF LaneInv
  <2>2. CASE b = a
    BY <2>2, <1>6, <1>8 DEF LaneInv
  <2>3. CASE b # a
    BY <2>3, <1>5, <1>7 DEF LaneInv
  <2> QED BY <2>2, <2>3
<1>12. \A b \in Accounts : \A k \in Places(b)' : \A s \in lanes'[b][k].by :
          s \in Slots /\ flows'[s] = flows[s]
  <2>1. SUFFICES ASSUME NEW b \in Accounts, NEW k \in Places(b)', NEW s \in lanes'[b][k].by
                 PROVE  s \in Slots /\ s \notin lanes[a][1].by
    BY <1>10
  <2>2. CASE b = a
    <3>1. k + 1 \in Places(a) /\ s \in lanes[a][k + 1].by
      BY <2>2, <1>6
    <3>2. k + 1 # 1
      BY <2>2 DEF Places
    <3> QED BY <3>1, <3>2, <1>2, WaitersAreSlots DEF WaitInv
  <2>3. CASE b # a
    <3>1. k \in Places(b) /\ s \in lanes[b][k].by
      BY <2>3, <1>5, <1>7
    <3> QED BY <2>3, <3>1, <1>2, WaitersAreSlots DEF WaitInv
  <2> QED BY <2>2, <2>3
<1>13. WaitInv'
  <2>1. SUFFICES ASSUME NEW b \in Accounts, NEW k \in Places(b)', NEW s \in lanes'[b][k].by
                 PROVE  /\ flows[s].at = "waiting" /\ flows[s].on = b
                        /\ flows[s].asked \in Nat /\ flows[s].asked <= server[b]
                        /\ \A l \in Places(b)' : s \in lanes'[b][l].by => l = k
    BY <1>12 DEF WaitInv
  <2>2. CASE b = a
    <3>1. k + 1 \in Places(a) /\ s \in lanes[a][k + 1].by
      BY <2>2, <1>6
    <3>2. ASSUME NEW l \in Places(a)', s \in lanes'[a][l].by PROVE l = k
      <4>1. l + 1 \in Places(a) /\ s \in lanes[a][l + 1].by
        BY <3>2, <1>6
      <4>2. l + 1 = k + 1
        BY <4>1, <3>1 DEF WaitInv
      <4> QED BY <4>2, <2>2 DEF Places
    <3> QED BY <2>2, <3>1, <3>2 DEF WaitInv
  <2>3. CASE b # a
    BY <2>3, <1>5, <1>7 DEF WaitInv
  <2> QED BY <2>2, <2>3
<1>14. FreshInv'
  <2>1. SUFFICES ASSUME NEW b \in Accounts, lanes'[b] # <<>>,
                        lanes'[b][1].step \in {"answered", "published"},
                        NEW s \in lanes'[b][1].by, flows'[s].entry = "force"
                 PROVE  flows'[s].asked <= lanes'[b][1].seen
    BY DEF FreshInv
  <2>2. b # a
    BY <2>1, <1>8, <1>9
  <2>3. 1 \in Places(b) /\ Places(b)' = Places(b)
    BY <2>1, <2>2, <1>5, <1>7, HeadIsFirst
  <2>4. flows'[s] = flows[s]
    BY <2>3, <1>12
  <2> QED BY <2>1, <2>2, <2>4, <1>5 DEF FreshInv
<1> QED BY <1>5, <1>8, <1>9, <1>10, <1>11, <1>13, <1>14

-----------------------------------------------------------------------------
(* Requests.                                                               *)

Request(s, policy) ==
    [entry |-> policy, at |-> "waiting", id |-> flows[s].ctx, ctx |-> None,
     dirty |-> TRUE, on |-> account, asked |-> server[account]]

\* A job is appended to a lane.
LEMMA Appended ==
    ASSUME Types, NEW a \in Accounts, NEW r \in JobRec,
           lanes' = [lanes EXCEPT ![a] = Append(@, r)]
    PROVE  LET n == Len(lanes[a]) + 1 IN
           /\ lanes' \in [Accounts -> Seq(JobRec)]
           /\ lanes'[a] # <<>> /\ lanes'[a][n] = r /\ Len(lanes[a]) \in Nat
           /\ Places(a)' = Places(a) \cup {n} /\ n \notin Places(a)
           /\ \A k \in Places(a) : lanes'[a][k] = lanes[a][k]
           /\ \A b \in Accounts \ {a} : lanes'[b] = lanes[b] /\ Places(b)' = Places(b)
<1>1. lanes \in [Accounts -> Seq(JobRec)] /\ lanes[a] \in Seq(JobRec)
  BY DEF Types
<1> DEFINE q == Append(lanes[a], r)
<1>2. /\ q \in Seq(JobRec) /\ q # <<>> /\ Len(q) = Len(lanes[a]) + 1
      /\ \A k \in 1 .. Len(lanes[a]) : q[k] = lanes[a][k]
      /\ q[Len(lanes[a]) + 1] = r
  BY <1>1, AppendProperties
<1>3. lanes' = [lanes EXCEPT ![a] = q]
  OBVIOUS
<1> HIDE DEF q
<1>4. lanes'[a] = q /\ (\A b \in Accounts \ {a} : lanes'[b] = lanes[b])
      /\ lanes' \in [Accounts -> Seq(JobRec)]
  BY <1>1, <1>2, <1>3
<1>5. Len(lanes[a]) \in Nat
  BY <1>1, LenProperties
<1>6. Places(a)' = Places(a) \cup {Len(lanes[a]) + 1} /\ Len(lanes[a]) + 1 \notin Places(a)
  BY <1>2, <1>4, <1>5 DEF Places
<1> QED BY <1>2, <1>4, <1>5, <1>6 DEF Places

\* Place n takes the activity in; it may have begun only for a coalescing request.
Enters(a, s, policy, n) ==
    /\ \A k \in Places(a)' \ {n} : k \in Places(a) /\ lanes'[a][k] = lanes[a][k]
    /\ n \notin Places(a) => lanes'[a][n] = SyncJob(policy, s)
    /\ n \in Places(a) =>
         /\ lanes'[a][n].by = lanes[a][n].by \cup {s}
         /\ lanes[a][n].kind = "sync"
         /\ lanes[a][n].step # "queued" => policy = "coalesce"

\* A request that is not refused waits for one entry at the end of the lane.
\* A job that has begun answers it only if it would do with what is under way.
LEMMA Asks ==
    ASSUME IInv, NEW s \in Slots, NEW policy \in {"force", "coalesce"},
           NEW a, a = account,
           Requested(s, policy), a # None, a \notin suspended
    PROVE  /\ flows' = [flows EXCEPT ![s] = Request(s, policy)]
           /\ a \in Accounts
           /\ lanes' \in [Accounts -> Seq(JobRec)]
           /\ \A b \in Accounts \ {a} : lanes'[b] = lanes[b] /\ Places(b)' = Places(b)
           /\ \A k \in Places(a) :
                /\ k \in Places(a)'
                /\ lanes'[a][k].kind = lanes[a][k].kind
                /\ lanes'[a][k].step = lanes[a][k].step
                /\ lanes'[a][k].seen = lanes[a][k].seen
                /\ lanes'[a][k].ok = lanes[a][k].ok
           /\ \E n \in Places(a)' : Enters(a, s, policy, n)
<1> USE DEF IInv
<1>1. a \in Accounts
  BY DEF Types
<1>2. lanes \in [Accounts -> Seq(JobRec)] /\ lanes[a] \in Seq(JobRec)
  BY <1>1 DEF Types
<1>3. flows' = [flows EXCEPT ![s] = Request(s, policy)]
  BY DEF Requested, Request
<1> DEFINE end == Len(lanes[a])
           j == lanes[a][end]
           joined == Joined(lanes[a], s)
           queue == IF Joins(a, policy) = {}
                    THEN Append(lanes[a], SyncJob(policy, s)) ELSE joined
<1>4. lanes' = [lanes EXCEPT ![a] = queue]
  BY DEF Requested
<1>5. CASE Joins(a, policy) = {}
  <2>1. SyncJob(policy, s) \in JobRec
    BY DEF SyncJob, JobRec
  <2>2. lanes' = [lanes EXCEPT ![a] = Append(@, SyncJob(policy, s))]
    <3>1. queue = Append(lanes[a], SyncJob(policy, s))
      BY <1>5
    <3> HIDE DEF queue
    <3> QED BY <3>1, <1>4
  <2>3. LET n == Len(lanes[a]) + 1 IN
        /\ lanes' \in [Accounts -> Seq(JobRec)]
        /\ lanes'[a] # <<>> /\ lanes'[a][n] = SyncJob(policy, s)
        /\ Len(lanes[a]) \in Nat
        /\ Places(a)' = Places(a) \cup {n} /\ n \notin Places(a)
        /\ \A l \in Places(a) : lanes'[a][l] = lanes[a][l]
        /\ \A b \in Accounts \ {a} : lanes'[b] = lanes[b] /\ Places(b)' = Places(b)
    BY <1>1, <2>1, <2>2, Appended
  <2>4. Enters(a, s, policy, Len(lanes[a]) + 1)
    BY <2>3 DEF Enters
  <2> HIDE DEF IInv
  <2> QED BY <1>1, <1>3, <2>3, <2>4
<1>6. CASE Joins(a, policy) # {}
  <2> DEFINE r == [j EXCEPT !.by = j.by \cup {s}]
             q == [lanes[a] EXCEPT ![end] = r]
  <2>1. lanes[a] # <<>>
    BY <1>6 DEF Joins
  <2>2. end \in Nat \ {0} /\ end \in Places(a)
    BY <1>1, <2>1, HeadIsFirst DEF Places
  <2>3. Last(lanes[a]) = j
    BY DEF Last
  <2>4. /\ j.kind = "sync"
        /\ j.step # "queued" => policy = "coalesce"
    <3>1. CurrentSlot(j) /\ (\/ j.step = "queued"
                             \/ Len(lanes[a]) = 1 /\ policy = "coalesce")
      BY <1>6, <2>3 DEF Joins
    <3> QED BY <3>1 DEF CurrentSlot
  <2>5. j \in JobRec
    BY <1>1, <2>2, JobAt
  <2>6. lanes' = [lanes EXCEPT ![a] = joined]
    <3>1. queue = joined
      BY <1>6
    <3> HIDE DEF queue
    <3> QED BY <3>1, <1>4
  <2>7. /\ r \in JobRec /\ r.kind = j.kind /\ r.step = j.step /\ r.seen = j.seen
        /\ r.ok = j.ok /\ r.by = j.by \cup {s}
    BY <2>5 DEF JobRec
  <2>8. lanes' = [lanes EXCEPT ![a] = q]
    <3>1. joined = q
      BY <1>2, <2>2, <2>3, LenProperties DEF Places, Joined
    <3> HIDE DEF joined, q
    <3> QED BY <3>1, <2>6
  <2> HIDE DEF r
  <2>9. /\ q \in Seq(JobRec) /\ Len(q) = Len(lanes[a])
        /\ \A l \in 1 .. Len(lanes[a]) : q[l] = IF l = end THEN r ELSE lanes[a][l]
    BY <1>2, <2>2, <2>7, ExceptSeq DEF Places
  <2> HIDE DEF q
  <2>10. /\ lanes' \in [Accounts -> Seq(JobRec)] /\ lanes'[a] = q
         /\ \A b \in Accounts \ {a} : lanes'[b] = lanes[b] /\ Places(b)' = Places(b)
         /\ Places(a)' = Places(a)
    <3>1. lanes' \in [Accounts -> Seq(JobRec)] /\ lanes'[a] = q
          /\ \A b \in Accounts \ {a} : lanes'[b] = lanes[b]
      BY <1>1, <1>2, <2>8, <2>9
    <3> QED BY <3>1, <2>9 DEF Places
  <2>11. \A l \in Places(a) : lanes'[a][l] = IF l = end THEN r ELSE lanes[a][l]
    BY <2>9, <2>10 DEF Places
  <2> HIDE DEF end
  <2>12. \A l \in Places(a) :
            /\ lanes'[a][l].kind = lanes[a][l].kind
            /\ lanes'[a][l].step = lanes[a][l].step
            /\ lanes'[a][l].seen = lanes[a][l].seen
            /\ lanes'[a][l].ok = lanes[a][l].ok
    BY <2>7, <2>11
  <2>13. /\ \A l \in Places(a)' \ {end} :
              l \in Places(a) /\ lanes'[a][l] = lanes[a][l]
         /\ lanes'[a][end].by = lanes[a][end].by \cup {s}
    BY <2>2, <2>7, <2>10, <2>11
  <2>14. Enters(a, s, policy, end)
    BY <2>2, <2>4, <2>13 DEF Enters
  <2> QED BY <1>1, <1>3, <2>2, <2>10, <2>12, <2>14
<1> QED BY <1>5, <1>6

LEMMA RequestKeeps ==
    ASSUME IInv, NEW s \in Slots, flows[s].at # "waiting", NEW policy \in {"force", "coalesce"},
           Requested(s, policy), UNCHANGED <<session, server, own, unseen, cache, markers>>
    PROVE  IInv'
<1> USE DEF session
<1>1. CASE account = None \/ account \in suspended
  <2>1. lanes' = lanes /\ flows' = [flows EXCEPT ![s] = Idle]
    BY <1>1 DEF Requested, Ends
  <2> QED BY <2>1, FlowSet, FlowKeeps DEF IInv
<1>2. CASE account # None /\ account \notin suspended
  <2> PICK a : a = account
    OBVIOUS
  <2>1. /\ flows' = [flows EXCEPT ![s] = Request(s, policy)]
        /\ a \in Accounts
        /\ lanes' \in [Accounts -> Seq(JobRec)]
        /\ \A b \in Accounts \ {a} : lanes'[b] = lanes[b] /\ Places(b)' = Places(b)
        /\ \A k \in Places(a) :
             /\ k \in Places(a)'
             /\ lanes'[a][k].kind = lanes[a][k].kind
             /\ lanes'[a][k].step = lanes[a][k].step
             /\ lanes'[a][k].seen = lanes[a][k].seen
             /\ lanes'[a][k].ok = lanes[a][k].ok
    BY <1>2, Asks
  <2>2. PICK n \in Places(a)' : Enters(a, s, policy, n)
    BY <1>2, Asks
  <2>3. /\ \A k \in Places(a)' \ {n} : k \in Places(a) /\ lanes'[a][k] = lanes[a][k]
        /\ n \notin Places(a) => lanes'[a][n] = SyncJob(policy, s)
        /\ n \in Places(a) =>
             /\ lanes'[a][n].by = lanes[a][n].by \cup {s}
             /\ lanes[a][n].kind = "sync"
             /\ lanes[a][n].step # "queued" => policy = "coalesce"
    BY <2>2 DEF Enters
  <2>4. /\ flows' = [t \in Slots |-> flows'[t]] /\ flows'[s] = Request(s, policy)
        /\ \A t \in Slots \ {s} : flows'[t] = flows[t]
    BY <2>1, FlowSet DEF IInv, Only
  <2>5. /\ flows'[s].entry = policy /\ flows'[s].at = "waiting"
        /\ flows'[s].on = a /\ flows'[s].asked = server[a]
    BY <2>4 DEF Request
  <2>6. \A b \in Accounts : \A k \in Places(b) : s \notin lanes[b][k].by
    BY NotWaiting DEF IInv
  <2>7. \A b \in Accounts : \A k \in Places(b) : \A t \in lanes[b][k].by :
           t # s /\ flows'[t] = flows[t]
    BY <2>4, <2>6, WaitersAreSlots DEF IInv
  <2>8. n \notin Places(a) =>
          /\ lanes'[a][n].kind = "sync" /\ lanes'[a][n].step = "queued"
          /\ lanes'[a][n].by = {s}
    BY <2>3 DEF SyncJob
  <2>9. server \in [Accounts -> Nat]
    BY DEF IInv, Types
  <2>10. \A b \in Accounts : b # a \/ lanes[b] # <<>> =>
          (lanes'[b] # <<>> => /\ lanes[b] # <<>> /\ 1 \in Places(b)
                               /\ lanes'[b][1].kind = lanes[b][1].kind
                               /\ lanes'[b][1].step = lanes[b][1].step
                               /\ lanes'[b][1].seen = lanes[b][1].seen
                               /\ lanes'[b][1].ok = lanes[b][1].ok)
    BY <2>1, HeadIsFirst DEF IInv
  <2>11. lanes[a] = <<>> => lanes'[a][1].step = "queued"
    <3>1. SUFFICES ASSUME lanes[a] = <<>>
                   PROVE  lanes'[a][1].step = "queued"
      OBVIOUS
    <3>2. Places(a) = {}
      BY <3>1, EmptySeq DEF Places
    <3>3. Places(a)' = {n}
      BY <2>3, <3>2
    <3>4. 1 \in Places(a)'
      <4>1. Len(lanes'[a]) \in Nat
        BY <2>1, LenProperties
      <4> QED BY <4>1, <2>3 DEF Places
    <3> QED BY <2>8, <3>2, <3>3, <3>4
  <2>12. Types'
    BY <2>1, <2>4 DEF IInv, Types
  <2>13. LaneInv'
    <3>1. SUFFICES ASSUME NEW b \in Accounts, NEW k \in Places(b)'
                   PROVE  LET j == lanes'[b][k] IN
                          /\ k > 1 => j.step = "queued"
                          /\ j.kind = "write" => j.step # "asked" /\ j.by = {}
                          /\ j.kind = "sync" =>
                               j.step \in {"queued", "asked", "answered", "published"}
                          /\ j.ok => b = a
      BY DEF LaneInv
    <3>2. CASE b # a
      BY <3>2, <2>1 DEF IInv, LaneInv
    <3>3. CASE b = a /\ k # n
      <4>1. k \in Places(b) /\ lanes'[b][k] = lanes[b][k]
        BY <3>3, <2>3
      <4> QED BY <4>1 DEF IInv, LaneInv
    <3>4. CASE b = a /\ k = n /\ n \notin Places(a)
      BY <3>4, <2>8
    <3>5. CASE b = a /\ k = n /\ n \in Places(a)
      BY <3>5, <2>1, <2>3 DEF IInv, LaneInv
    <3> QED BY <3>2, <3>4, <3>5, <3>3
  <2>14. MarkInv'
    <3>1. SUFFICES ASSUME NEW b \in Accounts, lanes'[b] # <<>>
                   PROVE  LET h == lanes'[b][1] IN
                          /\ h.kind = "write" /\ h.step # "queued" => markers[b] = "dirty"
                          /\ h.step \in {"marked", "published"} => b \notin unseen
                          /\ h.step = "answered" => own[b] <= h.seen
      BY DEF IInv, MarkInv, UnseenIsMarked
    <3>2. CASE b # a \/ lanes[b] # <<>>
      BY <3>1, <3>2, <2>10 DEF IInv, MarkInv
    <3>3. CASE b = a /\ lanes[b] = <<>>
      BY <3>3, <2>11
    <3> QED BY <3>2, <3>3
  <2>15. CopyInv'
    <3>1. SUFFICES ASSUME NEW b \in Accounts, lanes'[b] # <<>>, lanes'[b][1].step = "published",
                          lanes'[b][1].ok
                   PROVE  cache.owner = b /\ cache.version = lanes'[b][1].seen
      BY DEF IInv, CopyInv, CacheIsTheAccounts
    <3>2. lanes[b] # <<>> /\ lanes'[b][1].seen = lanes[b][1].seen
          /\ lanes[b][1].step = "published" /\ lanes[b][1].ok
      BY <3>1, <2>10, <2>11
    <3> QED BY <3>2 DEF IInv, CopyInv
  <2>16. WaitInv'
    <3>1. SUFFICES ASSUME NEW b \in Accounts, NEW k \in Places(b)', NEW t \in lanes'[b][k].by
                   PROVE  /\ flows'[t].at = "waiting" /\ flows'[t].on = b
                          /\ flows'[t].asked \in Nat /\ flows'[t].asked <= server[b]
                          /\ \A l \in Places(b)' : t \in lanes'[b][l].by => l = k
      BY DEF WaitInv
    <3>2. CASE b # a
      BY <3>2, <2>1, <2>7 DEF IInv, WaitInv
    <3>3. CASE b = a /\ t = s
      <4>1. \A l \in Places(a)' \ {n} : s \notin lanes'[a][l].by
        BY <2>1, <2>3, <2>6
      <4>2. \A l \in Places(b)' : t \in lanes'[b][l].by => l = n
        BY <3>3, <4>1
      <4>3. k = n
        BY <4>2
      <4>4. server[a] \in Nat
        BY <2>1, <2>9
      <4>5. /\ flows'[t].at = "waiting" /\ flows'[t].on = b
            /\ flows'[t].asked = server[b] /\ server[b] \in Nat
        BY <3>3, <4>4, <2>5
      <4> QED BY <4>2, <4>3, <4>5
    <3>4. CASE b = a /\ t # s
      <4>1. \A l \in Places(a)' : t \in lanes'[a][l].by =>
              l \in Places(a) /\ t \in lanes[a][l].by
        BY <3>4, <2>3, <2>8
      <4>2. k \in Places(a) /\ t \in lanes[a][k].by
        BY <3>4, <4>1
      <4> QED BY <3>4, <4>1, <4>2, <2>7 DEF IInv, WaitInv
    <3> QED BY <3>2, <3>3, <3>4
  <2>17. FreshInv'
    <3>1. SUFFICES ASSUME NEW b \in Accounts, lanes'[b] # <<>>,
                          lanes'[b][1].step \in {"answered", "published"},
                          NEW t \in lanes'[b][1].by, flows'[t].entry = "force"
                   PROVE  flows'[t].asked <= lanes'[b][1].seen
      BY DEF FreshInv
    <3>2. /\ lanes[b] # <<>> /\ 1 \in Places(b)
          /\ lanes'[b][1].step = lanes[b][1].step /\ lanes'[b][1].seen = lanes[b][1].seen
      BY <3>1, <2>10, <2>11
    <3>3. CASE t \in lanes[b][1].by
      BY <3>1, <3>2, <3>3, <2>7 DEF IInv, FreshInv
    <3>4. CASE t \notin lanes[b][1].by
      <4>1. b = a /\ n = 1 /\ n \in Places(a)
        BY <3>1, <3>2, <3>4, <2>1, <2>3
      <4>2. t = s /\ policy = "coalesce"
        BY <3>1, <3>2, <3>4, <4>1, <2>3
      <4> QED BY <3>1, <4>2, <2>5
    <3> QED BY <3>3, <3>4
  <2> QED BY <2>12, <2>13, <2>14, <2>15, <2>16, <2>17 DEF IInv
<1> QED BY <1>1, <1>2

-----------------------------------------------------------------------------
(* Turns.                                                                  *)

\* What a step of a turn may do: one line of each for the lane it is in and
\* for the others.
LEMMA MoveKeeps ==
    ASSUME IInv, NEW a \in Accounts, lanes[a] # <<>>,
           NEW step \in Steps, NEW seen \in Nat, HeadBecomes(a, step, seen),
           lanes[a][1].kind = "write" => step # "asked",
           lanes[a][1].kind = "sync" => step \in {"queued", "asked", "answered", "published"},
           UNCHANGED <<session, flows>>,
           server' \in [Accounts -> Nat], own' \in [Accounts -> Nat], unseen' \subseteq Accounts,
           markers' \in [Accounts -> {"absent", "clean", "dirty"}],
           \A b \in Accounts \ {a} : /\ own'[b] = own[b] /\ server'[b] >= server[b]
                                     /\ b \in unseen' => b \in unseen
                                     /\ markers[b] = "dirty" => markers'[b] = "dirty",
           server'[a] >= server[a], own'[a] <= server'[a],
           a \in unseen' => markers'[a] = "dirty",
           lanes[a][1].kind = "write" /\ step # "queued" => markers'[a] = "dirty",
           step \in {"marked", "published"} => a \notin unseen',
           step = "answered" => own'[a] <= seen,
           step \in {"answered", "published"} =>
             \A s \in lanes[a][1].by : flows[s].entry = "force" => flows[s].asked <= seen,
           \/ cache' = cache /\ step # "published"
           \/ cache' = [owner |-> a, version |-> seen] /\ a = account
    PROVE  IInv'
<1> USE DEF session
<1>1. \A b \in Accounts : server'[b] \in Nat /\ server'[b] >= server[b]
  OBVIOUS
<1>2. /\ lanes' \in [Accounts -> Seq(JobRec)]
      /\ lanes'[a] # <<>>
      /\ \A b \in Accounts \ {a} : lanes'[b] = lanes[b]
      /\ LaneInv' /\ WaitInv'
  BY <1>1, HeadMoves
<1>3. /\ lanes'[a][1].kind = lanes[a][1].kind /\ lanes'[a][1].by = lanes[a][1].by
      /\ lanes'[a][1].ok = lanes[a][1].ok
      /\ lanes'[a][1].step = step /\ lanes'[a][1].seen = seen
  BY <1>1, HeadMoves
<1>4. Types'
  <2>1. cache' \in [owner : Accounts \cup {None}, version : Nat]
    BY DEF IInv, Types
  <2> QED BY <1>2, <2>1 DEF IInv, Types
<1>5. MarkInv'
  <2>1. UnseenIsMarked'
    BY DEF IInv, Types, MarkInv, UnseenIsMarked
  <2>2. ASSUME NEW b \in Accounts PROVE own'[b] <= server'[b]
    <3>1. own[b] \in Nat /\ server[b] \in Nat /\ own[b] <= server[b]
      BY DEF IInv, Types, MarkInv
    <3>2. CASE b = a
      BY <3>2
    <3>3. CASE b # a
      BY <3>1, <3>3, <1>1
    <3> QED BY <3>2, <3>3
  <2>3. ASSUME NEW b \in Accounts, lanes'[b] # <<>>
        PROVE  LET h == lanes'[b][1] IN
               /\ h.kind = "write" /\ h.step # "queued" => markers'[b] = "dirty"
               /\ h.step \in {"marked", "published"} => b \notin unseen'
               /\ h.step = "answered" => own'[b] <= h.seen
    <3>1. CASE b = a
      BY <3>1, <1>3
    <3>2. CASE b # a
      BY <2>3, <3>2, <1>2 DEF IInv, MarkInv
    <3> QED BY <3>1, <3>2
  <2> QED BY <2>1, <2>2, <2>3 DEF MarkInv
<1>6. CopyInv'
  <2>1. CacheIsTheAccounts'
    BY DEF IInv, CopyInv, CacheIsTheAccounts
  <2>2. ASSUME NEW b \in Accounts, lanes'[b] # <<>>, lanes'[b][1].step = "published",
               lanes'[b][1].ok
        PROVE  cache'.owner = b /\ cache'.version = lanes'[b][1].seen
    <3>1. CASE b = a
      BY <2>2, <3>1, <1>3
    <3>2. CASE b # a
      <4>1. lanes[b] # <<>> /\ lanes'[b] = lanes[b] /\ 1 \in Places(b)
        BY <2>2, <3>2, <1>2, HeadIsFirst DEF IInv
      <4>2. b = account
        BY <2>2, <4>1 DEF IInv, LaneInv
      <4>3. cache' = cache
        BY <3>2, <4>2
      <4> QED BY <2>2, <4>1, <4>3 DEF IInv, CopyInv
    <3> QED BY <3>1, <3>2
  <2> QED BY <2>1, <2>2 DEF CopyInv
<1>7. FreshInv'
  <2>1. SUFFICES ASSUME NEW b \in Accounts, lanes'[b] # <<>>,
                        lanes'[b][1].step \in {"answered", "published"},
                        NEW t \in lanes'[b][1].by, flows[t].entry = "force"
                 PROVE  flows[t].asked <= lanes'[b][1].seen
    BY DEF FreshInv
  <2>2. CASE b = a
    BY <2>1, <2>2, <1>3
  <2>3. CASE b # a
    BY <2>1, <2>3, <1>2 DEF IInv, FreshInv
  <2> QED BY <2>2, <2>3
<1> QED BY <1>2, <1>4, <1>5, <1>6, <1>7 DEF IInv

\* A turn may end at any time; the marker goes only once no change is unseen.
LEMMA EndKeeps ==
    ASSUME IInv, NEW a \in Accounts, lanes[a] # <<>>, TurnEnds(a),
           UNCHANGED <<session, server, own, cache>>,
           unseen' = unseen \/ unseen' = unseen \ {a},
           markers' = markers \/ (markers' = ClearedMarkers(a) /\ a \notin unseen')
    PROVE  IInv'
<1> USE DEF session
<1>1. /\ lanes' \in [Accounts -> Seq(JobRec)]
      /\ lanes'[a] # <<>> => lanes'[a][1].step = "queued"
      /\ \A b \in Accounts \ {a} : lanes'[b] = lanes[b]
      /\ flows' = [s \in Slots |-> flows'[s]]
      /\ LaneInv' /\ WaitInv' /\ FreshInv'
  BY Ended
<1>2. /\ markers' \in [Accounts -> {"absent", "clean", "dirty"}]
      /\ \A b \in Accounts \ {a} : markers'[b] = markers[b]
      /\ a \in unseen' => markers' = markers
      /\ unseen' \subseteq unseen
  BY DEF IInv, Types, ClearedMarkers
<1>3. Types'
  BY <1>1, <1>2 DEF IInv, Types
<1>4. MarkInv'
  <2>1. UnseenIsMarked'
    BY <1>2 DEF IInv, Types, MarkInv, UnseenIsMarked
  <2>2. ASSUME NEW b \in Accounts, lanes'[b] # <<>>
        PROVE  LET h == lanes'[b][1] IN
               /\ h.kind = "write" /\ h.step # "queued" => markers'[b] = "dirty"
               /\ h.step \in {"marked", "published"} => b \notin unseen'
               /\ h.step = "answered" => own[b] <= h.seen
    <3>1. CASE b = a
      BY <2>2, <3>1, <1>1
    <3>2. CASE b # a
      BY <2>2, <3>2, <1>1, <1>2 DEF IInv, MarkInv
    <3> QED BY <3>1, <3>2
  <2> QED BY <2>1, <2>2 DEF IInv, MarkInv
<1>5. CopyInv'
  <2>1. ASSUME NEW b \in Accounts, lanes'[b] # <<>>, lanes'[b][1].step = "published",
               lanes'[b][1].ok
        PROVE  cache.owner = b /\ cache.version = lanes'[b][1].seen
    <3>1. b # a /\ lanes'[b] = lanes[b]
      BY <2>1, <1>1
    <3> QED BY <2>1, <3>1 DEF IInv, CopyInv
  <2> QED BY <2>1 DEF IInv, CopyInv, CacheIsTheAccounts
<1> QED BY <1>1, <1>3, <1>4, <1>5 DEF IInv

\* What a turn at a step says of its lane.
LEMMA AtHead ==
    ASSUME IInv, NEW a \in Accounts, NEW kind, NEW step, At(a, kind, step)
    PROVE  /\ lanes[a] # <<>> /\ Head(lanes[a]) = lanes[a][1] /\ lanes[a][1] \in JobRec
           /\ lanes[a][1].kind = kind /\ lanes[a][1].step = step
           /\ lanes[a][1].seen \in Nat
           /\ kind = "write" => lanes[a][1].by = {}
           /\ kind = "write" /\ step # "queued" => markers[a] = "dirty"
           /\ step \in {"marked", "published"} => a \notin unseen
           /\ step = "answered" => own[a] <= lanes[a][1].seen
           /\ lanes[a][1].ok => a = account
           /\ \A s \in lanes[a][1].by : flows[s].asked \in Nat /\ flows[s].asked <= server[a]
           /\ step \in {"answered", "published"} =>
                \A s \in lanes[a][1].by :
                  flows[s].entry = "force" => flows[s].asked <= lanes[a][1].seen
<1>1. /\ lanes[a] # <<>> /\ Head(lanes[a]) = lanes[a][1]
      /\ lanes[a][1] \in JobRec /\ 1 \in Places(a)
  BY HeadIsFirst DEF IInv, At
<1>2. lanes[a][1].kind = kind /\ lanes[a][1].step = step /\ lanes[a][1].seen \in Nat
  BY <1>1 DEF At, JobRec
<1>3. (kind = "write" => lanes[a][1].by = {}) /\ (lanes[a][1].ok => a = account)
  BY <1>1, <1>2 DEF IInv, LaneInv
<1>4. /\ kind = "write" /\ step # "queued" => markers[a] = "dirty"
      /\ step \in {"marked", "published"} => a \notin unseen
      /\ step = "answered" => own[a] <= lanes[a][1].seen
  BY <1>1, <1>2 DEF IInv, MarkInv
<1>5. \A s \in lanes[a][1].by : flows[s].asked \in Nat /\ flows[s].asked <= server[a]
  BY <1>1 DEF IInv, WaitInv
<1>6. step \in {"answered", "published"} =>
        \A s \in lanes[a][1].by :
          flows[s].entry = "force" => flows[s].asked <= lanes[a][1].seen
  BY <1>1, <1>2 DEF IInv, FreshInv
<1> QED BY <1>1, <1>2, <1>3, <1>4, <1>5, <1>6

-----------------------------------------------------------------------------
(* The scheduler.                                                          *)

LEMMA BeginKeeps ==
    ASSUME IInv, NEW s \in Slots, NEW entry, Begin(s, entry),
           UNCHANGED <<session, server, own, unseen, cache, markers, lanes>>
    PROVE  IInv'
<1>1. flows[s].at # "waiting"
  BY DEF Begin, Idle
<1>2. Only(s)
  BY FlowSet DEF Begin, IInv
<1> QED BY <1>1, <1>2, FlowKeeps

\* A step of an activity requests a sync or moves the activity on.
LEMMA FlowStepKeeps ==
    ASSUME IInv, NEW s \in Slots, FlowStep(s)
    PROVE  IInv'
<1> DEFINE Asked == Requested(s, "force") \/ Requested(s, "coalesce")
           Moved == Only(s) /\ UNCHANGED lanes
           Kept == UNCHANGED <<session, server, own, unseen, cache, markers>>
<1>1. SUFFICES flows[s].at # "waiting" /\ Kept /\ (Asked \/ Moved)
  BY RequestKeeps, FlowKeeps
<1>2. Types
  BY DEF IInv
<1>3. Ends(s) /\ UNCHANGED lanes => Moved
  BY <1>2, FlowSet DEF Ends
<1>4. CASE Identified(s)
  <2>1. CASE UNCHANGED lanes /\ ~Ends(s)
    BY <1>2, <1>4, <2>1, FlowSet DEF Identified, network, Requested
  <2>2. CASE ~UNCHANGED lanes \/ Ends(s)
    BY <1>3, <1>4, <2>2 DEF Identified, network, Requested
  <2> QED BY <2>1, <2>2
<1>5. CASE Rebuilds(s)
  BY <1>2, <1>5, FlowSet DEF Rebuilds, network
<1>6. CASE Rebuilt(s)
  BY <1>2, <1>3, <1>6, FlowSet DEF Rebuilt, network
<1>7. CASE ReadsMarker(s)
  BY <1>2, <1>7, FlowSet DEF ReadsMarker, network
<1>8. CASE Settles(s)
  BY <1>2, <1>3, <1>8, FlowSet DEF Settles, network
<1>9. CASE ReadsAge(s)
  BY <1>2, <1>3, <1>9, FlowSet DEF ReadsAge, network
<1>10. CASE Confirms(s)
  BY <1>3, <1>10 DEF Confirms, network
<1> QED BY <1>4, <1>5, <1>6, <1>7, <1>8, <1>9, <1>10 DEF FlowStep

-----------------------------------------------------------------------------
(* The steps of a sync and of a write.                                     *)

\* A step that changes nothing but the step.
LEMMA PassKeeps ==
    ASSUME IInv, NEW a \in Accounts, lanes[a] # <<>>,
           NEW step \in Steps \ {"answered", "published"}, TurnGoes(a, step),
           lanes[a][1].kind = "write" => step # "asked",
           lanes[a][1].kind = "sync" => step \in {"queued", "asked"},
           UNCHANGED <<session, server, own, unseen, cache>>,
           markers' \in [Accounts -> {"absent", "clean", "dirty"}],
           \A b \in Accounts : markers[b] = "dirty" => markers'[b] = "dirty",
           lanes[a][1].kind = "write" => markers'[a] = "dirty",
           step = "marked" => a \notin unseen
    PROVE  IInv'
<1> USE DEF IInv
<1>1. HeadBecomes(a, step, lanes[a][1].seen) /\ UNCHANGED flows
  BY Goes DEF Steps
<1>2. lanes[a][1].seen \in Nat
  BY HeadIsFirst DEF JobRec
<1>3. /\ server' \in [Accounts -> Nat] /\ own' \in [Accounts -> Nat]
      /\ unseen' \subseteq Accounts
      /\ \A b \in Accounts : own'[b] = own[b] /\ server'[b] >= server[b] /\ own'[b] <= server'[b]
      /\ \A b \in unseen' : b \in unseen /\ markers[b] = "dirty"
  BY DEF Types, MarkInv, UnseenIsMarked
<1>4. a \in unseen' => markers'[a] = "dirty"
  BY <1>3
<1> HIDE DEF IInv
<1> QED BY <1>1, <1>2, <1>3, <1>4, MoveKeeps

LEMMA SyncStepsKeep ==
    ASSUME IInv, NEW a \in Accounts,
           SyncStarts(a) \/ SyncAnswers(a) \/ SyncPublishes(a) \/ SyncClears(a) \/ SyncFails(a)
    PROVE  IInv'
<1> USE DEF network, session
<1>1. CASE SyncStarts(a)
  <2>1. /\ lanes[a] # <<>> /\ lanes[a][1].kind = "sync"
    BY <1>1, AtHead DEF SyncStarts
  <2>2. CASE Holds(a)
    <3>1. TurnGoes(a, "asked") /\ UNCHANGED <<server, own, unseen, cache, markers, session>>
      BY <1>1, <2>2 DEF SyncStarts
    <3>2. markers' \in [Accounts -> {"absent", "clean", "dirty"}]
      BY <3>1 DEF IInv, Types
    <3> QED BY <2>1, <3>1, <3>2, PassKeeps DEF Steps
  <2>3. CASE ~Holds(a)
    BY <1>1, <2>1, <2>3, EndKeeps DEF SyncStarts
  <2> QED BY <2>2, <2>3
<1>2. CASE SyncAnswers(a)
  <2>1. /\ lanes[a] # <<>> /\ lanes[a][1].kind = "sync"
        /\ \A s \in lanes[a][1].by : flows[s].asked <= server[a]
    BY <1>2, AtHead DEF SyncAnswers
  <2>2. HeadBecomes(a, "answered", server[a]) /\ UNCHANGED flows
    BY <1>2, <2>1, Sees DEF SyncAnswers, IInv
  <2>3. /\ UNCHANGED <<server, own, unseen, cache, markers, session>>
        /\ server[a] \in Nat /\ own[a] <= server[a]
        /\ server' \in [Accounts -> Nat] /\ own' \in [Accounts -> Nat]
        /\ unseen' \subseteq Accounts
        /\ markers' \in [Accounts -> {"absent", "clean", "dirty"}]
        /\ \A b \in Accounts : server'[b] >= server[b]
        /\ \A b \in unseen' : markers'[b] = "dirty"
    BY <1>2 DEF SyncAnswers, IInv, Types, MarkInv, UnseenIsMarked
  <2> QED BY <2>1, <2>2, <2>3, MoveKeeps DEF Steps
<1>3. CASE SyncPublishes(a)
  <2>1. /\ lanes[a] # <<>> /\ lanes[a][1].kind = "sync" /\ Head(lanes[a]) = lanes[a][1]
        /\ lanes[a][1].seen \in Nat /\ own[a] <= lanes[a][1].seen
        /\ lanes[a][1].ok => a = account
        /\ \A s \in lanes[a][1].by : flows[s].entry = "force" => flows[s].asked <= lanes[a][1].seen
    BY <1>3, AtHead DEF SyncPublishes
  <2>2. CASE Holds(a)
    <3>1. HeadBecomes(a, "published", lanes[a][1].seen) /\ UNCHANGED flows
      BY <1>3, <2>1, <2>2, Goes DEF SyncPublishes, IInv
    <3>2. a = account /\ cache' = [owner |-> a, version |-> lanes[a][1].seen]
          /\ unseen' = unseen \ {a}
      BY <1>3, <2>1, <2>2 DEF SyncPublishes, Published, Holds, IInv, Types
    <3>3. /\ UNCHANGED <<server, own, markers, session>>
          /\ own[a] <= server[a]
          /\ server' \in [Accounts -> Nat] /\ own' \in [Accounts -> Nat]
          /\ unseen' \subseteq Accounts
          /\ markers' \in [Accounts -> {"absent", "clean", "dirty"}]
          /\ \A b \in Accounts : server'[b] >= server[b]
      BY <1>3, <3>2 DEF SyncPublishes, IInv, Types, MarkInv
    <3> QED BY <2>1, <3>1, <3>2, <3>3, MoveKeeps DEF Steps
  <2>3. CASE ~Holds(a)
    BY <1>3, <2>1, <2>3, EndKeeps DEF SyncPublishes
  <2> QED BY <2>2, <2>3
<1>4. CASE SyncClears(a)
  <2>1. lanes[a] # <<>> /\ a \notin unseen
    BY <1>4, AtHead DEF SyncClears
  <2> QED BY <1>4, <2>1, EndKeeps DEF SyncClears
<1>5. CASE SyncFails(a)
  <2>1. lanes[a] # <<>>
    BY <1>5 DEF SyncFails, At
  <2> QED BY <1>5, <2>1, EndKeeps DEF SyncFails
<1> QED BY <1>1, <1>2, <1>3, <1>4, <1>5

\* Making room takes a clean entry, never one that says something is missing.
LEMMA MarkedKeeps ==
    ASSUME Types, NEW a \in Accounts, NEW m \in MarkedStores(a)
    PROVE  /\ m \in [Accounts -> {"absent", "clean", "dirty"}]
           /\ m[a] = "dirty"
           /\ \A b \in Accounts : markers[b] = "dirty" => m[b] = "dirty"
BY DEF Types, MarkedStores, HasRoom, Evictable, Tracked

LEMMA WriteGoesKeeps ==
    ASSUME IInv, NEW a \in Accounts, WriteStarts(a) \/ WriteSends(a) \/ WriteApplies(a)
    PROVE  IInv'
<1> USE DEF network, session
<1>1. CASE WriteStarts(a)
  <2>1. lanes[a] # <<>> /\ lanes[a][1].kind = "write"
    BY <1>1, AtHead DEF WriteStarts
  <2>2. CASE TurnEnds(a) /\ UNCHANGED markers
    BY <1>1, <2>1, <2>2, EndKeeps DEF WriteStarts
  <2>3. CASE ~(TurnEnds(a) /\ UNCHANGED markers)
    <3>1. /\ TurnGoes(a, "marked") /\ markers' \in MarkedStores(a) /\ markers[a] # "dirty"
          /\ UNCHANGED <<server, own, unseen, cache, session>>
      BY <1>1, <2>3 DEF WriteStarts
    <3>2. a \notin unseen
      BY <3>1 DEF IInv, MarkInv, UnseenIsMarked
    <3>3. /\ markers' \in [Accounts -> {"absent", "clean", "dirty"}]
          /\ markers'[a] = "dirty"
          /\ \A b \in Accounts : markers[b] = "dirty" => markers'[b] = "dirty"
      BY <3>1, MarkedKeeps DEF IInv
    <3> QED BY <2>1, <3>1, <3>2, <3>3, PassKeeps DEF Steps
  <2> QED BY <2>2, <2>3
<1>2. CASE WriteSends(a)
  <2>1. /\ lanes[a] # <<>> /\ lanes[a][1].kind = "write"
        /\ markers[a] = "dirty" /\ a \notin unseen /\ lanes[a][1].seen \in Nat
        /\ lanes[a][1].by = {}
    BY <1>2, AtHead DEF WriteSends
  <2>2. CASE MayWrite(a)
    <3>1. /\ TurnGoes(a, "sent") /\ UNCHANGED <<server, cache, markers, session>>
          /\ own' = [own EXCEPT ![a] = server[a]] /\ unseen' = unseen \cup {a}
      BY <1>2, <2>2 DEF WriteSends
    <3>2. HeadBecomes(a, "sent", lanes[a][1].seen) /\ UNCHANGED flows
      BY <2>1, <3>1, Goes DEF IInv
    <3>3. /\ server \in [Accounts -> Nat] /\ own \in [Accounts -> Nat]
          /\ unseen' \subseteq Accounts
          /\ markers \in [Accounts -> {"absent", "clean", "dirty"}]
          /\ lanes[a][1].seen \in Nat
      BY <3>1, <2>1 DEF IInv, Types
    <3>4. /\ server' \in [Accounts -> Nat] /\ own' \in [Accounts -> Nat]
          /\ markers' \in [Accounts -> {"absent", "clean", "dirty"}]
          /\ server'[a] >= server[a] /\ own'[a] <= server'[a]
          /\ \A b \in Accounts \ {a} : own'[b] = own[b] /\ server'[b] >= server[b]
      BY <3>1, <3>3
    <3> QED BY <2>1, <3>1, <3>2, <3>3, <3>4, MoveKeeps DEF Steps
  <2>3. CASE ~MayWrite(a)
    BY <1>2, <2>1, <2>3, EndKeeps DEF WriteSends
  <2> QED BY <2>2, <2>3
<1>3. CASE WriteApplies(a)
  <2>1. /\ lanes[a] # <<>> /\ lanes[a][1].kind = "write" /\ lanes[a][1].seen \in Nat
        /\ lanes[a][1].by = {} /\ markers[a] = "dirty"
    BY <1>3, AtHead DEF WriteApplies
  <2>2. HeadBecomes(a, "applied", lanes[a][1].seen) /\ UNCHANGED flows
    BY <1>3, <2>1, Goes DEF WriteApplies, IInv
  <2>3. /\ server' = [server EXCEPT ![a] = @ + 1] /\ own' = [own EXCEPT ![a] = server'[a]]
        /\ UNCHANGED <<unseen, cache, markers, session>>
    BY <1>3 DEF WriteApplies, Applied
  <2>4. server \in [Accounts -> Nat] /\ own \in [Accounts -> Nat] /\ unseen \subseteq Accounts
        /\ markers \in [Accounts -> {"absent", "clean", "dirty"}]
    BY DEF IInv, Types
  <2>5. server[a] + 1 \in Nat
    BY <2>4
  <2>6. /\ server' \in [Accounts -> Nat] /\ own' \in [Accounts -> Nat]
        /\ server'[a] = server[a] + 1 /\ own'[a] = server'[a]
        /\ \A b \in Accounts \ {a} : server'[b] = server[b] /\ own'[b] = own[b]
    BY <2>3, <2>4, <2>5
  <2>7. /\ server'[a] >= server[a] /\ own'[a] <= server'[a]
        /\ \A b \in Accounts \ {a} : server'[b] >= server[b]
    BY <2>4, <2>6
  <2> QED BY <2>1, <2>2, <2>3, <2>4, <2>6, <2>7, MoveKeeps DEF Steps
<1> QED BY <1>1, <1>2, <1>3

LEMMA WriteReconcilesKeeps ==
    ASSUME IInv, NEW a \in Accounts,
           WriteReconciles(a) \/ WritePublishes(a) \/ WriteClears(a)
    PROVE  IInv'
<1> USE DEF network, session
<1>1. CASE WriteReconciles(a)
  <2>1. /\ lanes[a] # <<>> /\ lanes[a][1].kind = "write"
        /\ lanes[a][1].by = {} /\ markers[a] = "dirty"
    BY <1>1, AtHead DEF WriteReconciles
  <2>2. CASE MayWrite(a)
    <3>1. TurnSees(a, "answered") /\ UNCHANGED <<server, own, unseen, cache, markers, session>>
      BY <1>1, <2>2 DEF WriteReconciles
    <3>2. HeadBecomes(a, "answered", server[a]) /\ UNCHANGED flows
      BY <2>1, <3>1, Sees DEF IInv
    <3>3. /\ server[a] \in Nat /\ own[a] <= server[a]
          /\ server' \in [Accounts -> Nat] /\ own' \in [Accounts -> Nat]
          /\ unseen' \subseteq Accounts
          /\ markers' \in [Accounts -> {"absent", "clean", "dirty"}]
          /\ \A b \in Accounts : server'[b] >= server[b]
      BY <3>1 DEF IInv, Types, MarkInv
    <3> QED BY <2>1, <3>1, <3>2, <3>3, MoveKeeps DEF Steps
  <2>3. CASE ~MayWrite(a)
    BY <1>1, <2>1, <2>3, EndKeeps DEF WriteReconciles, Unsynced
  <2> QED BY <2>2, <2>3
<1>2. CASE WritePublishes(a)
  <2>1. /\ lanes[a] # <<>> /\ lanes[a][1].kind = "write" /\ Head(lanes[a]) = lanes[a][1]
        /\ lanes[a][1].by = {} /\ markers[a] = "dirty"
        /\ lanes[a][1].seen \in Nat /\ own[a] <= lanes[a][1].seen
        /\ lanes[a][1].ok => a = account
    BY <1>2, AtHead DEF WritePublishes
  <2>2. CASE MayWrite(a)
    <3>1. HeadBecomes(a, "published", lanes[a][1].seen) /\ UNCHANGED flows
      BY <1>2, <2>1, <2>2, Goes DEF WritePublishes, IInv
    <3>2. a = account /\ cache' = [owner |-> a, version |-> lanes[a][1].seen]
          /\ unseen' = unseen \ {a}
      BY <1>2, <2>1, <2>2 DEF WritePublishes, Published, MayWrite, IInv, Types
    <3>3. /\ UNCHANGED <<server, own, markers, session>>
          /\ own[a] <= server[a]
          /\ server' \in [Accounts -> Nat] /\ own' \in [Accounts -> Nat]
          /\ unseen' \subseteq Accounts
          /\ markers' \in [Accounts -> {"absent", "clean", "dirty"}]
          /\ \A b \in Accounts : server'[b] >= server[b]
      BY <1>2, <3>2 DEF WritePublishes, IInv, Types, MarkInv
    <3> QED BY <2>1, <3>1, <3>2, <3>3, MoveKeeps DEF Steps
  <2>3. CASE ~MayWrite(a)
    BY <1>2, <2>1, <2>3, EndKeeps DEF WritePublishes, Unsynced
  <2> QED BY <2>2, <2>3
<1>3. CASE WriteClears(a)
  <2>1. lanes[a] # <<>> /\ a \notin unseen
    BY <1>3, AtHead DEF WriteClears
  <2> QED BY <1>3, <2>1, EndKeeps DEF WriteClears, Unsynced
<1> QED BY <1>1, <1>2, <1>3

LEMMA WriteEndsKeeps ==
    ASSUME IInv, NEW a \in Accounts, WriteRefused(a) \/ WriteUnknown(a) \/ ReconcileFails(a)
    PROVE  IInv'
<1> USE DEF network, session
<1>1. lanes[a] # <<>>
  BY DEF WriteRefused, WriteUnknown, ReconcileFails, At
<1>2. CASE WriteRefused(a)
  BY <1>1, <1>2, EndKeeps DEF WriteRefused
<1>3. CASE WriteUnknown(a)
  BY <1>1, <1>3, EndKeeps DEF WriteUnknown
<1>4. CASE ReconcileFails(a)
  BY <1>1, <1>4, EndKeeps DEF ReconcileFails, Unsynced
<1> QED BY <1>2, <1>3, <1>4

\* A write that enters the lane waits for its turn.
LEMMA WriteKeeps ==
    ASSUME IInv, NEW a \in Accounts, Write(a)
    PROVE  IInv'
<1> DEFINE n == Len(lanes[a]) + 1
<1> USE DEF network, session
<1>1. WriteJob \in JobRec
  BY DEF WriteJob, JobRec
<1>2. a = account /\ UNCHANGED <<session, server, own, unseen, cache, markers, flows>>
  BY DEF Write
<1>3. /\ lanes' \in [Accounts -> Seq(JobRec)]
      /\ lanes'[a] # <<>> /\ lanes'[a][n] = WriteJob /\ Len(lanes[a]) \in Nat
      /\ Places(a)' = Places(a) \cup {n} /\ n \notin Places(a)
      /\ \A k \in Places(a) : lanes'[a][k] = lanes[a][k]
      /\ \A b \in Accounts \ {a} : lanes'[b] = lanes[b] /\ Places(b)' = Places(b)
  <2>1. LET m == Len(lanes[a]) + 1 IN
        /\ lanes' \in [Accounts -> Seq(JobRec)]
        /\ lanes'[a] # <<>> /\ lanes'[a][m] = WriteJob /\ Len(lanes[a]) \in Nat
        /\ Places(a)' = Places(a) \cup {m} /\ m \notin Places(a)
        /\ \A k \in Places(a) : lanes'[a][k] = lanes[a][k]
        /\ \A b \in Accounts \ {a} : lanes'[b] = lanes[b] /\ Places(b)' = Places(b)
    <3>1. lanes' = [lanes EXCEPT ![a] = Append(@, WriteJob)]
      BY DEF Write
    <3> QED BY <1>1, <3>1, Appended DEF IInv
  <2> QED BY <2>1
<1>4. lanes'[a][n].kind = "write" /\ lanes'[a][n].step = "queued" /\ lanes'[a][n].by = {}
  BY <1>3 DEF WriteJob
<1>5. \A b \in Accounts : lanes'[b] # <<>> =>
        lanes'[b][1].step = "queued" \/ (lanes[b] # <<>> /\ lanes'[b][1] = lanes[b][1])
  <2>1. SUFFICES ASSUME lanes'[a][1].step # "queued"
                 PROVE  lanes[a] # <<>> /\ lanes'[a][1] = lanes[a][1]
    BY <1>3
  <2>2. lanes[a] # <<>>
    <3>1. SUFFICES ASSUME lanes[a] = <<>> PROVE FALSE
      OBVIOUS
    <3>2. n = 1
      BY <3>1, EmptySeq
    <3> QED BY <3>2, <2>1, <1>4
  <2>3. 1 \in Places(a)
    BY <2>2, HeadIsFirst DEF IInv
  <2> QED BY <2>2, <2>3, <1>3
<1> HIDE DEF n
<1>6. Types'
  BY <1>2, <1>3 DEF IInv, Types
<1>7. LaneInv'
  BY <1>2, <1>3, <1>4 DEF IInv, LaneInv
<1>8. MarkInv'
  BY <1>2, <1>5 DEF IInv, MarkInv, UnseenIsMarked
<1>9. CopyInv'
  <2>1. ASSUME NEW b \in Accounts, lanes'[b] # <<>>, lanes'[b][1].step = "published"
        PROVE  lanes[b] # <<>> /\ lanes'[b][1] = lanes[b][1]
    BY <2>1, <1>5
  <2> QED BY <1>2, <2>1 DEF IInv, CopyInv, CacheIsTheAccounts
<1>10. WaitInv'
  <2>1. \A b \in Accounts : \A k \in Places(b)' : \A s \in lanes'[b][k].by :
           k \in Places(b) /\ s \in lanes[b][k].by
    BY <1>3, <1>4
  <2>2. SUFFICES ASSUME NEW b \in Accounts, NEW k \in Places(b)', NEW s \in lanes'[b][k].by
                 PROVE  /\ flows[s].at = "waiting" /\ flows[s].on = b
                        /\ flows[s].asked \in Nat /\ flows[s].asked <= server[b]
                        /\ \A l \in Places(b)' : s \in lanes'[b][l].by => l = k
    BY <1>2 DEF WaitInv
  <2>3. k \in Places(b) /\ s \in lanes[b][k].by
    BY <2>1
  <2> QED BY <2>1, <2>3 DEF IInv, WaitInv
<1>11. FreshInv'
  BY <1>2, <1>5 DEF IInv, FreshInv
<1> QED BY <1>6, <1>7, <1>8, <1>9, <1>10, <1>11 DEF IInv

-----------------------------------------------------------------------------
(* The world.                                                              *)

\* The server only gets newer.
LEMMA ServerKeeps ==
    ASSUME IInv, NEW a \in Accounts, Applied(a),
           UNCHANGED <<session, own, unseen, cache, markers, flows, lanes>>
    PROVE  IInv'
<1> USE DEF session
<1>1. server \in [Accounts -> Nat]
  BY DEF IInv, Types
<1>2. server[a] + 1 \in Nat
  BY <1>1
<1>3. server' = [server EXCEPT ![a] = @ + 1]
  BY DEF Applied
<1>4. server' \in [Accounts -> Nat] /\ \A b \in Accounts : server'[b] \in Nat /\ server[b] <= server'[b]
  BY <1>1, <1>2, <1>3
<1>5. Types'
  BY <1>4 DEF IInv, Types
<1>6. LaneInv'
  BY DEF IInv, LaneInv, Places
<1>7. MarkInv'
  <2>1. \A b \in Accounts : own'[b] <= server'[b]
    BY <1>1, <1>4 DEF IInv, Types, MarkInv
  <2> QED BY <2>1 DEF IInv, MarkInv, UnseenIsMarked
<1>8. CopyInv'
  BY DEF IInv, CopyInv, CacheIsTheAccounts
<1>9. WaitInv'
  <2>1. SUFFICES ASSUME NEW b \in Accounts, NEW k \in Places(b), NEW s \in lanes[b][k].by
                 PROVE  /\ flows[s].at = "waiting" /\ flows[s].on = b
                        /\ flows[s].asked \in Nat /\ flows[s].asked <= server'[b]
                        /\ \A l \in Places(b) : s \in lanes[b][l].by => l = k
    BY DEF WaitInv, Places
  <2>2. /\ flows[s].at = "waiting" /\ flows[s].on = b
        /\ flows[s].asked \in Nat /\ flows[s].asked <= server[b]
        /\ \A l \in Places(b) : s \in lanes[b][l].by => l = k
    BY DEF IInv, WaitInv
  <2> QED BY <2>2, <1>1, <1>4
<1>10. FreshInv'
  BY DEF IInv, FreshInv
<1> QED BY <1>5, <1>6, <1>7, <1>8, <1>9, <1>10 DEF IInv

\* Nothing in a lane is for nobody: an account is entered with the lanes that
\* the one before it has left, and none of them may publish.
LEMMA EntryKeeps ==
    ASSUME IInv, NEW a \in Accounts, account = None, account' = a, unlocked' \in BOOLEAN,
           UNCHANGED <<server, own, unseen, cache, markers, lanes>>,
           flows' = flows \/ \E s \in Slots : flows[s].at # "waiting" /\ Only(s)
    PROVE  IInv'
<1>1. a # None
  BY SyncAssumption
<1>2. \A b \in Accounts : \A k \in Places(b) : ~lanes[b][k].ok
  <2>1. SUFFICES ASSUME NEW b \in Accounts, NEW k \in Places(b), lanes[b][k].ok PROVE FALSE
    BY JobAt DEF IInv, JobRec
  <2>2. b = account
    BY <2>1 DEF IInv, LaneInv
  <2> QED BY <2>2, SyncAssumption
<1>3. WaitInv' /\ FreshInv'
  <2>1. CASE flows' = flows
    BY <2>1 DEF IInv, WaitInv, FreshInv, Places
  <2>2. CASE \E s \in Slots : flows[s].at # "waiting" /\ Only(s)
    BY <2>2, OthersWait
  <2> QED BY <2>1, <2>2
<1>4. Types'
  BY <1>1 DEF IInv, Types, Only
<1>5. LaneInv'
  BY <1>2 DEF IInv, LaneInv, Places
<1>6. MarkInv'
  BY DEF IInv, MarkInv, UnseenIsMarked
<1>7. CopyInv'
  <2>1. \A b \in Accounts : lanes[b] # <<>> => ~lanes[b][1].ok
    BY <1>2, HeadIsFirst DEF IInv
  <2> QED BY <2>1 DEF IInv, CopyInv, CacheIsTheAccounts
<1> QED BY <1>3, <1>4, <1>5, <1>6, <1>7 DEF IInv

LEMMA UnlockKeeps ==
    ASSUME IInv, NEW s \in Slots, Unlock(s)
    PROVE  IInv'
<1> USE DEF network
<1>1. flows[s].at # "waiting" /\ Only(s)
  <2>1. flows[s] = Idle /\ flows' = [flows EXCEPT ![s] = Flow("unlock", account)]
    BY DEF Unlock
  <2>2. flows[s].at # "waiting"
    BY <2>1 DEF Idle
  <2> QED BY <2>1, <2>2, FlowSet DEF IInv
<1>2. account # None /\ unlocked' = TRUE
      /\ UNCHANGED <<account, server, own, unseen, cache, markers, lanes>>
  BY DEF Unlock
<1>3. WaitInv' /\ FreshInv'
  BY <1>1, <1>2, OthersWait
<1>4. Types'
  BY <1>1, <1>2 DEF IInv, Types, Only
<1>5. LaneInv'
  BY <1>2 DEF IInv, LaneInv, Places
<1>6. MarkInv'
  BY <1>2 DEF IInv, MarkInv, UnseenIsMarked
<1>7. CopyInv'
  BY <1>2 DEF IInv, CopyInv, CacheIsTheAccounts
<1> QED BY <1>3, <1>4, <1>5, <1>6, <1>7 DEF IInv

LEMMA RestartKeeps ==
    ASSUME IInv, Restart
    PROVE  IInv'
<1>1. /\ \A a \in Accounts : lanes'[a] = <<>>
      /\ lanes' = [a \in Accounts |-> <<>>]
      /\ flows' = [s \in Slots |-> flows'[s]]
      /\ UNCHANGED <<account, unlocked, server, own, unseen, cache, markers>>
  BY DEF Restart, session
<1>2. \A a \in Accounts : Places(a)' = {}
  BY <1>1, EmptySeq DEF Places
<1>3. Types'
  <2>1. lanes' \in [Accounts -> Seq(JobRec)]
    BY <1>1, EmptySeq
  <2> QED BY <1>1, <2>1 DEF IInv, Types
<1>4. LaneInv' /\ WaitInv'
  BY <1>2 DEF LaneInv, WaitInv
<1>5. MarkInv'
  BY <1>1 DEF IInv, MarkInv, UnseenIsMarked
<1>6. CopyInv' /\ FreshInv'
  BY <1>1 DEF IInv, CopyInv, CacheIsTheAccounts, FreshInv
<1> QED BY <1>3, <1>4, <1>5, <1>6 DEF IInv

LEMMA InitInv == Init => IInv
<1> SUFFICES ASSUME Init PROVE IInv
  OBVIOUS
<1>1. /\ \A a \in Accounts : lanes[a] = <<>>
      /\ lanes = [a \in Accounts |-> <<>>]
      /\ flows = [s \in Slots |-> flows[s]]
      /\ account \in Accounts /\ account # None
      /\ unlocked = TRUE /\ unseen = {}
      /\ cache = NoCache
  BY SyncAssumption DEF Init
<1>2. \A a \in Accounts : Places(a) = {}
  BY <1>1, EmptySeq DEF Places
<1>3. Types
  <2>1. lanes \in [Accounts -> Seq(JobRec)]
    BY <1>1, EmptySeq
  <2> QED BY <1>1, <2>1 DEF Init, Types, NoCache
<1>4. LaneInv /\ WaitInv
  BY <1>2 DEF LaneInv, WaitInv
<1>5. MarkInv
  BY <1>1 DEF Init, MarkInv, UnseenIsMarked
<1>6. CopyInv /\ FreshInv
  BY <1>1 DEF CopyInv, CacheIsTheAccounts, FreshInv, NoCache
<1> QED BY <1>3, <1>4, <1>5, <1>6 DEF IInv

\* A lock takes the keys of what is queued, and nothing else.
LEMMA LockKeeps ==
    ASSUME IInv, Lock
    PROVE  IInv'
<1> USE DEF network
<1>1. PICK a : a = account
  OBVIOUS
<1> DEFINE keyless(k) == [lanes[a][k] EXCEPT !.keys = FALSE]
           q == [k \in Places(a) |-> keyless(k)]
<1>2. a \in Accounts /\ unlocked' = FALSE
      /\ UNCHANGED <<account, server, own, unseen, cache, markers, flows>>
  BY <1>1 DEF Lock, IInv, Types
<1>3. lanes \in [Accounts -> Seq(JobRec)] /\ lanes[a] \in Seq(JobRec)
  BY <1>2 DEF IInv, Types
<1>4. Len(lanes[a]) \in Nat /\ DOMAIN lanes[a] = Places(a)
  BY <1>3, LenProperties DEF Places
<1>5. \A k \in Places(a) :
         /\ keyless(k) \in JobRec /\ keyless(k).kind = lanes[a][k].kind
         /\ keyless(k).step = lanes[a][k].step /\ keyless(k).ok = lanes[a][k].ok
         /\ keyless(k).seen = lanes[a][k].seen /\ keyless(k).by = lanes[a][k].by
  <2>1. \A k \in Places(a) : lanes[a][k] \in JobRec
    BY <1>2, JobAt DEF IInv
  <2> QED BY <2>1 DEF JobRec
<1>6. lanes' = [lanes EXCEPT ![a] = q]
  BY <1>1, <1>4 DEF Lock
<1> HIDE DEF keyless
<1>7. q \in Seq(JobRec) /\ Len(q) = Len(lanes[a])
  <2>1. q \in [1 .. Len(lanes[a]) -> JobRec]
    BY <1>5 DEF Places
  <2>2. q \in Seq(JobRec)
    BY <1>4, <2>1, SeqDef
  <2>3. DOMAIN q = 1 .. Len(q) /\ Len(q) \in Nat
    BY <2>2, LenProperties
  <2>4. DOMAIN q = 1 .. Len(lanes[a])
    BY <2>1
  <2> QED BY <2>2, <2>3, <2>4, <1>4
<1>8. \A k \in Places(a) : q[k] = keyless(k)
  OBVIOUS
<1> HIDE DEF q
<1>9. lanes' \in [Accounts -> Seq(JobRec)] /\ lanes'[a] = q
      /\ \A b \in Accounts \ {a} : lanes'[b] = lanes[b]
  BY <1>2, <1>3, <1>6, <1>7
<1>10. \A b \in Accounts : Places(b)' = Places(b)
  BY <1>7, <1>9 DEF Places
<1>11. \A b \in Accounts : \A k \in Places(b) :
         /\ lanes'[b][k].kind = lanes[b][k].kind /\ lanes'[b][k].step = lanes[b][k].step
         /\ lanes'[b][k].ok = lanes[b][k].ok /\ lanes'[b][k].seen = lanes[b][k].seen
         /\ lanes'[b][k].by = lanes[b][k].by
  BY <1>5, <1>8, <1>9
<1>12. \A b \in Accounts : lanes'[b] # <<>> => lanes[b] # <<>> /\ 1 \in Places(b)
  <2>1. SUFFICES ASSUME NEW b \in Accounts, lanes'[b] # <<>> PROVE 1 \in Places(b)
    BY EmptySeq DEF Places
  <2>2. lanes'[b] \in Seq(JobRec) /\ Places(b)' = 1 .. Len(lanes'[b])
    BY <1>9 DEF Places
  <2>3. Len(lanes'[b]) \in Nat \ {0}
    BY <2>1, <2>2, EmptySeq
  <2> QED BY <2>2, <2>3, <1>10
<1>13. Types'
  BY <1>2, <1>9 DEF IInv, Types
<1>14. LaneInv'
  BY <1>2, <1>10, <1>11 DEF IInv, LaneInv
<1>15. MarkInv'
  BY <1>2, <1>11, <1>12 DEF IInv, MarkInv, UnseenIsMarked
<1>16. CopyInv'
  BY <1>2, <1>11, <1>12 DEF IInv, CopyInv, CacheIsTheAccounts
<1>17. WaitInv'
  BY <1>2, <1>10, <1>11 DEF IInv, WaitInv
<1>18. FreshInv'
  BY <1>2, <1>11, <1>12 DEF IInv, FreshInv
<1> QED BY <1>13, <1>14, <1>15, <1>16, <1>17, <1>18 DEF IInv

\* What is left of a lane: its turn if one is under way, which may not publish.
LEMMA LeftLane ==
    ASSUME IInv, NEW a \in Accounts
    PROVE  /\ Left(a) \in Seq(JobRec)
           /\ Left(a) # <<>> =>
                /\ lanes[a] # <<>> /\ lanes[a][1].step # "queued" /\ Len(Left(a)) = 1
                /\ Left(a)[1].kind = lanes[a][1].kind /\ Left(a)[1].step = lanes[a][1].step
                /\ Left(a)[1].seen = lanes[a][1].seen /\ Left(a)[1].by = lanes[a][1].by
                /\ ~Left(a)[1].ok
<1>1. CASE lanes[a] = <<>> \/ Head(lanes[a]).step = "queued"
  <2>1. Left(a) = <<>>
    BY <1>1 DEF Left
  <2> QED BY <2>1, EmptySeq
<1>2. CASE ~(lanes[a] = <<>> \/ Head(lanes[a]).step = "queued")
  <2> DEFINE r == [lanes[a][1] EXCEPT !.ok = FALSE, !.keys = FALSE]
  <2>1. Head(lanes[a]) = lanes[a][1] /\ lanes[a][1] \in JobRec
    BY <1>2, HeadIsFirst DEF IInv
  <2>2. Left(a) = <<r>>
    BY <1>2, <2>1 DEF Left
  <2>3. /\ r \in JobRec /\ r.kind = lanes[a][1].kind /\ r.step = lanes[a][1].step
        /\ r.seen = lanes[a][1].seen /\ r.by = lanes[a][1].by /\ ~r.ok
    BY <2>1 DEF JobRec
  <2> HIDE DEF r
  <2> QED BY <1>2, <2>1, <2>2, <2>3
<1> QED BY <1>1, <1>2

LEMMA LeaveKeeps ==
    ASSUME IInv, Leave
    PROVE  IInv'
<1> USE DEF network
<1>1. PICK a : a = account
  OBVIOUS
<1>2. a \in Accounts /\ account' = None /\ unlocked' = FALSE /\ cache' = NoCache
      /\ UNCHANGED <<server, own, unseen, markers>>
  BY <1>1 DEF Leave, IInv, Types
<1>3. lanes \in [Accounts -> Seq(JobRec)] /\ lanes' = [lanes EXCEPT ![a] = Left(a)]
  BY <1>1 DEF Leave, IInv, Types
<1>4. /\ Left(a) \in Seq(JobRec)
      /\ Left(a) # <<>> =>
           /\ lanes[a] # <<>> /\ lanes[a][1].step # "queued" /\ Len(Left(a)) = 1
           /\ Left(a)[1].kind = lanes[a][1].kind /\ Left(a)[1].step = lanes[a][1].step
           /\ Left(a)[1].seen = lanes[a][1].seen /\ Left(a)[1].by = lanes[a][1].by
           /\ ~Left(a)[1].ok
  BY <1>2, LeftLane
<1>5. lanes' \in [Accounts -> Seq(JobRec)] /\ lanes'[a] = Left(a)
      /\ \A b \in Accounts \ {a} : lanes'[b] = lanes[b] /\ Places(b)' = Places(b)
  BY <1>2, <1>3, <1>4 DEF Places
<1>6. \A k \in Places(a)' : k = 1 /\ lanes'[a] # <<>> /\ 1 \in Places(a)
  <2>1. SUFFICES ASSUME NEW k \in Places(a)' PROVE k = 1 /\ lanes'[a] # <<>> /\ 1 \in Places(a)
    OBVIOUS
  <2>2. k \in 1 .. Len(Left(a))
    BY <1>5 DEF Places
  <2>3. Left(a) # <<>>
    BY <2>2, EmptySeq
  <2>4. k = 1
    <3>1. Len(Left(a)) = 1
      BY <1>4, <2>3
    <3>2. k \in 1 .. 1
      BY <3>1, <2>2
    <3> QED BY <3>2
  <2>5. lanes[a] # <<>>
    BY <1>4, <2>3
  <2>6. 1 \in Places(a)
    BY <1>2, <2>5, HeadIsFirst DEF IInv
  <2> QED BY <1>5, <2>3, <2>4, <2>6
<1>7. \A b \in Accounts : lanes'[b] # <<>> =>
        /\ lanes[b] # <<>> /\ 1 \in Places(b)
        /\ lanes'[b][1].kind = lanes[b][1].kind /\ lanes'[b][1].step = lanes[b][1].step
        /\ lanes'[b][1].seen = lanes[b][1].seen /\ lanes'[b][1].by = lanes[b][1].by
        /\ ~lanes'[b][1].ok
  <2>1. SUFFICES ASSUME NEW b \in Accounts, lanes'[b] # <<>>
                 PROVE  /\ lanes[b] # <<>> /\ 1 \in Places(b)
                        /\ lanes'[b][1].kind = lanes[b][1].kind
                        /\ lanes'[b][1].step = lanes[b][1].step
                        /\ lanes'[b][1].seen = lanes[b][1].seen
                        /\ lanes'[b][1].by = lanes[b][1].by
                        /\ ~lanes'[b][1].ok
    OBVIOUS
  <2>2. CASE b = a
    <3>1. Left(a) # <<>> /\ lanes'[b] = Left(a)
      BY <2>1, <2>2, <1>5
    <3> QED BY <2>2, <3>1, <1>2, <1>4, HeadIsFirst DEF IInv
  <2>3. CASE b # a
    <3>1. lanes'[b] = lanes[b] /\ 1 \in Places(b) /\ lanes[b][1] \in JobRec
      BY <2>1, <2>3, <1>5, HeadIsFirst DEF IInv
    <3>2. lanes[b][1].ok => b = a
      BY <1>1, <3>1 DEF IInv, LaneInv
    <3>3. lanes[b][1].ok \in BOOLEAN
      BY <3>1 DEF JobRec
    <3> QED BY <2>1, <2>3, <3>1, <3>2, <3>3
  <2> QED BY <2>2, <2>3
<1>8. flows' = [s \in Slots |-> flows'[s]]
      /\ \A s \in Slots : s \notin Cancelled(a) => flows'[s] = flows[s]
  BY <1>1 DEF Leave, Answered
<1>9. \A b \in Accounts : \A k \in Places(b)' : \A s \in lanes'[b][k].by :
        k \in Places(b) /\ s \in lanes[b][k].by /\ s \in Slots /\ flows'[s] = flows[s]
  <2>1. SUFFICES ASSUME NEW b \in Accounts, NEW k \in Places(b)', NEW s \in lanes'[b][k].by
                 PROVE  k \in Places(b) /\ s \in lanes[b][k].by /\ s \in Slots
                        /\ s \notin Cancelled(a)
    BY <1>8
  <2>2. k \in Places(b) /\ s \in lanes[b][k].by
    <3>1. CASE b = a
      BY <3>1, <1>6, <1>7
    <3>2. CASE b # a
      BY <3>2, <1>5
    <3> QED BY <3>1, <3>2
  <2>3. b = a => k = 1 /\ lanes[a][1].step # "queued"
    BY <1>4, <1>5, <1>6
  <2>4. s \in Slots
    BY <2>2, WaitersAreSlots DEF IInv
  <2>5. DOMAIN lanes[a] = Places(a)
    BY <1>2, <1>3, LenProperties DEF Places
  <2>6. ASSUME s \in Cancelled(a) PROVE FALSE
    <3>1. PICK n \in Places(a) : (n > 1 \/ lanes[a][n].step = "queued") /\ s \in lanes[a][n].by
      BY <2>5, <2>6 DEF Cancelled
    <3>2. b = a /\ n = k
      BY <1>2, <2>2, <3>1 DEF IInv, WaitInv
    <3> QED BY <2>3, <3>1, <3>2
  <2> QED BY <2>2, <2>4, <2>6
<1>10. Types'
  BY <1>2, <1>5, <1>8 DEF IInv, Types, NoCache
<1>11. LaneInv'
  <2>1. SUFFICES ASSUME NEW b \in Accounts, NEW k \in Places(b)'
                 PROVE  LET j == lanes'[b][k] IN
                        /\ k > 1 => j.step = "queued"
                        /\ j.kind = "write" => j.step # "asked" /\ j.by = {}
                        /\ j.kind = "sync" =>
                             j.step \in {"queued", "asked", "answered", "published"}
                        /\ ~j.ok
    BY DEF LaneInv
  <2>2. CASE b = a
    <3>1. k = 1 /\ lanes'[b] # <<>> /\ 1 \in Places(b)
      BY <2>2, <1>6
    <3> QED BY <3>1, <1>7 DEF IInv, LaneInv
  <2>3. CASE b # a
    <3>1. k \in Places(b) /\ lanes'[b] = lanes[b]
      BY <2>3, <1>5
    <3>2. lanes[b][k].ok \in BOOLEAN
      BY <3>1, JobAt DEF IInv, JobRec
    <3>3. lanes[b][k].ok => b = a
      BY <1>1, <3>1 DEF IInv, LaneInv
    <3> QED BY <2>3, <3>1, <3>2, <3>3 DEF IInv, LaneInv
  <2> QED BY <2>2, <2>3
<1>12. MarkInv'
  BY <1>2, <1>7 DEF IInv, MarkInv, UnseenIsMarked
<1>13. CopyInv'
  BY <1>2, <1>7 DEF CopyInv, CacheIsTheAccounts, NoCache
<1>14. WaitInv'
  BY <1>2, <1>9 DEF IInv, WaitInv
<1>15. FreshInv'
  <2>1. SUFFICES ASSUME NEW b \in Accounts, lanes'[b] # <<>>,
                        lanes'[b][1].step \in {"answered", "published"},
                        NEW s \in lanes'[b][1].by, flows'[s].entry = "force"
                 PROVE  flows'[s].asked <= lanes'[b][1].seen
    BY DEF FreshInv
  <2>2. 1 \in Places(b)'
    <3>1. lanes'[b] \in Seq(JobRec)
      BY <1>5
    <3>2. Len(lanes'[b]) \in Nat \ {0}
      BY <2>1, <3>1, EmptySeq
    <3> QED BY <3>2 DEF Places
  <2>3. s \in lanes[b][1].by /\ flows'[s] = flows[s]
    BY <2>2, <1>9
  <2> QED BY <2>1, <2>3, <1>7 DEF IInv, FreshInv
<1> QED BY <1>10, <1>11, <1>12, <1>13, <1>14, <1>15 DEF IInv

-----------------------------------------------------------------------------
(* Every step.                                                             *)

LEMMA StepInv == IInv /\ [Next]_vars => IInv'
<1> SUFFICES ASSUME IInv, [Next]_vars PROVE IInv'
  OBVIOUS
<1> USE DEF network
<1>1. CASE UNCHANGED vars
  BY <1>1, Unseen DEF vars, session
<1>2. CASE AlarmFires
  <2>1. Timed \in Slots
    BY SyncAssumption
  <2> QED BY <1>2, <2>1, BeginKeeps DEF AlarmFires
<1>3. ASSUME NEW s \in Slots, UserAsks(s) PROVE IInv'
  BY <1>3, BeginKeeps DEF UserAsks
<1>4. ASSUME NEW s \in Slots, MutationAsks(s) PROVE IInv'
  BY <1>4, BeginKeeps DEF MutationAsks
<1>5. ASSUME NEW s \in Slots, FlowStep(s) PROVE IInv'
  BY <1>5, FlowStepKeeps
<1>6. ASSUME NEW a \in Accounts, Write(a) PROVE IInv'
  BY <1>6, WriteKeeps
<1>7. ASSUME NEW a \in Accounts, TurnStep(a) \/ TurnFails(a) PROVE IInv'
  <2>1. CASE \/ SyncStarts(a) \/ SyncAnswers(a) \/ SyncPublishes(a) \/ SyncClears(a)
             \/ SyncFails(a)
    BY <2>1, SyncStepsKeep
  <2>2. CASE WriteStarts(a) \/ WriteSends(a) \/ WriteApplies(a)
    BY <2>2, WriteGoesKeeps
  <2>3. CASE WriteReconciles(a) \/ WritePublishes(a) \/ WriteClears(a)
    BY <2>3, WriteReconcilesKeeps
  <2>4. CASE WriteRefused(a) \/ WriteUnknown(a) \/ ReconcileFails(a)
    BY <2>4, WriteEndsKeeps
  <2> QED BY <1>7, <2>1, <2>2, <2>3, <2>4 DEF TurnStep, TurnFails
<1>8. ASSUME NEW a \in Accounts, ChangedElsewhere(a) \/ LandsLate(a) PROVE IInv'
  BY <1>8, ServerKeeps DEF ChangedElsewhere, LandsLate
<1>9. ASSUME NEW a \in Accounts, SwitchedTo(a) PROVE IInv'
  <2>1. unlocked' \in BOOLEAN
    BY <1>9 DEF SwitchedTo, IInv, Types
  <2> QED BY <1>9, <2>1, EntryKeeps DEF SwitchedTo
<1>10. ASSUME NEW s \in Slots, NEW a \in Accounts, Login(s, a) PROVE IInv'
  <2>1. flows[s] = Idle /\ flows' = [flows EXCEPT ![s] = Flow("login", a)]
    BY <1>10 DEF Login
  <2>2. flows[s].at # "waiting"
    BY <2>1 DEF Idle
  <2>3. Only(s)
    BY <2>1, FlowSet DEF IInv
  <2>4. /\ account = None /\ account' = a /\ unlocked' \in BOOLEAN
        /\ UNCHANGED <<server, own, unseen, cache, markers, lanes>>
    BY <1>10 DEF Login
  <2>5. \E t \in Slots : flows[t].at # "waiting" /\ Only(t)
    BY <2>2, <2>3
  <2> QED BY <2>4, <2>5, EntryKeeps
<1>11. ASSUME NEW s \in Slots, Unlock(s) PROVE IInv'
  BY <1>11, UnlockKeeps
<1>12. CASE TimePasses \/ ClockSetBack
  BY <1>12, Unseen DEF TimePasses, ClockSetBack
<1>13. CASE Lock \/ Leave \/ Restart
  BY <1>13, LockKeeps, LeaveKeeps, RestartKeeps
<1> QED BY <1>1, <1>2, <1>3, <1>4, <1>5, <1>6, <1>7, <1>8, <1>9, <1>10, <1>11, <1>12, <1>13
        DEF Next

-----------------------------------------------------------------------------
(* The types and counts of TypeOK.  They are inductive once the invariant  *)
(* above holds, which says that nobody waits for two entries.              *)

ServerFits == \A a \in Accounts : server[a] <= MaxVersion
CacheFits == cache.version <= MaxVersion
Room == Cardinality(Tracked) <= MaxMarkers

Records ==
    /\ late \subseteq Accounts /\ age \in [Accounts -> Ages]
    /\ nudged \in BOOLEAN /\ disturbed \in 0 .. MaxDisturbances

SeenFits == \A a \in Accounts : \A k \in Places(a) : lanes[a][k].seen <= MaxVersion
FlowTypes == \A s \in Slots : flows[s] \in FlowType

\* Whoever waits is in the entry that will answer.
Answerable ==
    \A s \in Slots : flows[s].at = "waiting" =>
        \E a \in Accounts : \E k \in Places(a) : s \in lanes[a][k].by

\* Only a lane whose last turn is still under way refuses more.
Refusing ==
    \A a \in suspended :
      a \in Accounts /\ lanes[a] # <<>> /\ Len(lanes[a]) = 1 /\ lanes[a][1].step # "queued"

LaneTypes == SeenFits /\ FlowTypes /\ Answerable /\ Refusing

TInv == ServerFits /\ CacheFits /\ Room /\ Records /\ LaneTypes

-----------------------------------------------------------------------------
(* Counting.                                                               *)

LEMMA TrackedFinite ==
    IsFiniteSet(Tracked) /\ Cardinality(Tracked) \in Nat
<1>1. IsFiniteSet(Accounts) /\ Tracked \in SUBSET Accounts
  BY SyncAssumption DEF Tracked
<1>2. IsFiniteSet(Tracked)
  BY <1>1, FS_Subset
<1> QED BY <1>2, FS_CardinalityType

\* A server that has applied all the changes there can be applies no more.
LEMMA AppliedFits ==
    ASSUME IInv, ServerFits, NEW a \in Accounts, Applied(a)
    PROVE  ServerFits'
<1>1. MaxVersion \in Nat \ {0} /\ IsFiniteSet(Accounts)
  BY SyncAssumption
<1>2. server \in [Accounts -> Nat]
  BY DEF IInv, Types
<1>3. IsFiniteSet(1 .. MaxVersion) /\ Cardinality(1 .. MaxVersion) = MaxVersion
  BY <1>1, FS_Interval
<1>4. IsFiniteSet(Changes)
  <2>1. IsFiniteSet(Accounts \X (1 .. MaxVersion))
    BY <1>1, <1>3, FS_Product
  <2>2. Changes \in SUBSET (Accounts \X (1 .. MaxVersion))
    BY DEF Changes
  <2> QED BY <2>1, <2>2, FS_Subset
<1>5. server[a] < MaxVersion
  <2>1. SUFFICES ASSUME ~(server[a] < MaxVersion) PROVE FALSE
    OBVIOUS
  <2> DEFINE C == {a} \X (1 .. MaxVersion)
  <2>2. C \in SUBSET Changes
    BY <1>1, <1>2, <2>1 DEF Changes
  <2>3. Cardinality(C) = MaxVersion
    <3>1. IsFiniteSet({a}) /\ Cardinality({a}) = 1
      BY FS_Singleton
    <3>2. Cardinality(C) = Cardinality({a}) * Cardinality(1 .. MaxVersion)
      BY <1>3, <3>1, FS_Product
    <3> HIDE DEF C
    <3> QED BY <1>1, <1>3, <3>1, <3>2
  <2> HIDE DEF C
  <2>4. Cardinality(C) <= Cardinality(Changes)
    BY <1>4, <2>2, FS_Subset
  <2>5. Cardinality(Changes) \in Nat /\ Cardinality(Changes) < MaxVersion
    BY <1>4, FS_CardinalityType DEF Applied
  <2> QED BY <1>1, <2>3, <2>4, <2>5
<1>6. server' = [server EXCEPT ![a] = server[a] + 1]
  BY DEF Applied
<1>7. \A b \in Accounts : server'[b] = IF b = a THEN server[a] + 1 ELSE server[b]
  BY <1>2, <1>6
<1>8. server[a] + 1 <= MaxVersion
  BY <1>1, <1>2, <1>5
<1> QED BY <1>7, <1>8 DEF ServerFits

\* A marker finds room, or takes that of another account.
LEMMA MarkedFits ==
    ASSUME IInv, Room, NEW a \in Accounts, markers' \in MarkedStores(a)
    PROVE  Room'
<1> DEFINE n == Cardinality(Tracked)
<1>1. markers \in [Accounts -> {"absent", "clean", "dirty"}]
  BY DEF IInv, Types
<1>2. IsFiniteSet(Tracked) /\ n \in Nat /\ n <= MaxMarkers /\ MaxMarkers \in Nat
  BY TrackedFinite, SyncAssumption DEF Room
<1>3. CASE a \in Tracked
  <2>1. markers' = [markers EXCEPT ![a] = "dirty"]
    BY <1>3 DEF MarkedStores, HasRoom
  <2>2. Tracked' = Tracked
    BY <1>1, <1>3, <2>1 DEF Tracked
  <2> QED BY <1>2, <2>2 DEF Room
<1>4. CASE a \notin Tracked /\ n < MaxMarkers
  <2>1. markers' = [markers EXCEPT ![a] = "dirty"]
    BY <1>4 DEF MarkedStores, HasRoom
  <2>2. Tracked' = Tracked \cup {a}
    BY <1>1, <2>1 DEF Tracked
  <2>3. Cardinality(Tracked') = n + 1
    BY <1>2, <1>4, <2>2, FS_AddElement
  <2> QED BY <1>2, <1>4, <2>3 DEF Room
<1>5. CASE a \notin Tracked /\ ~(n < MaxMarkers)
  <2>1. PICK b \in Evictable : markers' = [markers EXCEPT ![a] = "dirty", ![b] = "absent"]
    BY <1>5 DEF MarkedStores, HasRoom
  <2>2. b \in Tracked /\ b # a /\ b \in Accounts
    BY <1>5, <2>1 DEF Evictable, Tracked
  <2>3. Tracked' = (Tracked \ {b}) \cup {a}
    BY <1>1, <2>1, <2>2 DEF Tracked
  <2>4. IsFiniteSet(Tracked \ {b}) /\ Cardinality(Tracked \ {b}) = n - 1
    BY <1>2, <2>2, FS_RemoveElement
  <2>5. Cardinality(Tracked') = (n - 1) + 1
    BY <1>5, <2>3, <2>4, FS_AddElement
  <2> QED BY <1>2, <2>5 DEF Room
<1> QED BY <1>3, <1>4, <1>5

LEMMA ClearedFits ==
    ASSUME IInv, Room, NEW a \in Accounts, markers' = ClearedMarkers(a)
    PROVE  Room'
<1>1. markers \in [Accounts -> {"absent", "clean", "dirty"}]
  BY DEF IInv, Types
<1>2. Tracked' = Tracked
  BY <1>1 DEF ClearedMarkers, Tracked
<1> QED BY <1>2 DEF Room

LEMMA SameRoom ==
    ASSUME Room, UNCHANGED markers
    PROVE  Room'
BY DEF Room, Tracked

-----------------------------------------------------------------------------
(* Activities and lanes.                                                   *)

LEMMA FlowFits ==
    ASSUME NEW entry \in {"alarm", "startup", "login", "unlock", "popup", "manual",
                          "notification", "force", "coalesce"},
           NEW ctx \in Accounts \cup {None}
    PROVE  Flow(entry, ctx) \in FlowType /\ Flow(entry, ctx).at = "identify"
<1>1. 0 \in 0 .. MaxVersion
  BY SyncAssumption
<1> QED BY <1>1 DEF Flow, FlowType, FlowRec

\* An activity that does not wait moves on and does not wait.
LEMMA MoveFits ==
    ASSUME IInv, LaneTypes, NEW s \in Slots, flows[s].at # "waiting",
           NEW g \in FlowType, g.at # "waiting",
           flows' = [flows EXCEPT ![s] = g], UNCHANGED lanes,
           suspended' \subseteq suspended
    PROVE  LaneTypes'
<1>1. flows'[s] = g /\ \A t \in Slots \ {s} : flows'[t] = flows[t]
  BY FlowSet DEF IInv, Only
<1>2. FlowTypes'
  BY <1>1 DEF LaneTypes, FlowTypes, FlowType
<1>3. Answerable' /\ SeenFits' /\ Refusing'
  BY <1>1 DEF LaneTypes, Answerable, SeenFits, Refusing, Places
<1> QED BY <1>2, <1>3 DEF LaneTypes

\* A request waits for the entry that takes it in.
LEMMA RequestFits ==
    ASSUME IInv, ServerFits, LaneTypes, NEW s \in Slots, flows[s].at # "waiting",
           flows[s].ctx \in Accounts \cup {None},
           NEW policy \in {"force", "coalesce"}, Requested(s, policy), UNCHANGED suspended
    PROVE  LaneTypes'
<1>1. CASE account = None \/ account \in suspended
  <2>1. lanes' = lanes /\ flows' = [flows EXCEPT ![s] = Idle]
    BY <1>1 DEF Requested, Ends
  <2>2. Idle \in FlowType /\ Idle.at # "waiting"
    BY DEF Idle, FlowType
  <2> QED BY <2>1, <2>2, MoveFits
<1>2. CASE account # None /\ account \notin suspended
  <2> PICK a : a = account
    OBVIOUS
  <2>1. /\ flows' = [flows EXCEPT ![s] = Request(s, policy)]
        /\ a \in Accounts
        /\ lanes' \in [Accounts -> Seq(JobRec)]
        /\ \A b \in Accounts \ {a} : lanes'[b] = lanes[b] /\ Places(b)' = Places(b)
        /\ \A k \in Places(a) : k \in Places(a)' /\ lanes'[a][k].seen = lanes[a][k].seen
    BY <1>2, Asks
  <2>2. PICK n \in Places(a)' : Enters(a, s, policy, n)
    BY <1>2, Asks
  <2>3. /\ \A k \in Places(a)' \ {n} : k \in Places(a) /\ lanes'[a][k] = lanes[a][k]
        /\ n \notin Places(a) => lanes'[a][n] = SyncJob(policy, s)
        /\ n \in Places(a) => lanes'[a][n].by = lanes[a][n].by \cup {s}
    BY <2>2 DEF Enters
  <2>4. flows'[s] = Request(s, policy) /\ \A t \in Slots \ {s} : flows'[t] = flows[t]
    BY <2>1, FlowSet DEF IInv, Only
  <2>5. Request(s, policy) \in FlowType
    <3>1. server[a] \in 0 .. MaxVersion
      BY <2>1, SyncAssumption DEF IInv, Types, ServerFits
    <3>2. account \in Accounts
      BY <2>1
    <3> QED BY <3>1, <3>2 DEF Request, FlowType, FlowRec
  <2>6. FlowTypes'
    BY <2>4, <2>5 DEF LaneTypes, FlowTypes
  <2>7. s \in lanes'[a][n].by
    BY <2>3 DEF SyncJob
  <2>8. Answerable'
    <3>1. SUFFICES ASSUME NEW t \in Slots, flows'[t].at = "waiting"
                   PROVE  \E b \in Accounts : \E k \in Places(b)' : t \in lanes'[b][k].by
      BY DEF Answerable
    <3>2. CASE t = s
      BY <3>2, <2>1, <2>7
    <3>3. CASE t # s
      <4> PICK b \in Accounts : \E k \in Places(b) : t \in lanes[b][k].by
        BY <3>1, <3>3, <2>4 DEF LaneTypes, Answerable
      <4>1. PICK k \in Places(b) : t \in lanes[b][k].by
        OBVIOUS
      <4>2. k \in Places(b)' /\ t \in lanes'[b][k].by
        <5>1. CASE b # a
          BY <5>1, <4>1, <2>1
        <5>2. CASE b = a
          BY <5>2, <4>1, <2>1, <2>3
        <5> QED BY <5>1, <5>2
      <4> QED BY <4>2
    <3> QED BY <3>2, <3>3
  <2>9. SeenFits'
    <3>1. SUFFICES ASSUME NEW b \in Accounts, NEW k \in Places(b)'
                   PROVE  lanes'[b][k].seen <= MaxVersion
      BY DEF SeenFits
    <3>2. CASE b # a
      BY <3>2, <2>1 DEF LaneTypes, SeenFits
    <3>3. CASE b = a /\ k \in Places(a)
      BY <3>3, <2>1 DEF LaneTypes, SeenFits
    <3>4. CASE b = a /\ k \notin Places(a)
      <4>1. lanes'[b][k] = SyncJob(policy, s)
        BY <3>4, <2>3
      <4> QED BY <4>1, SyncAssumption DEF SyncJob
    <3> QED BY <3>2, <3>3, <3>4
  <2>10. Refusing'
    BY <1>2, <2>1 DEF LaneTypes, Refusing
  <2> QED BY <2>6, <2>8, <2>9, <2>10 DEF LaneTypes
<1> QED BY <1>1, <1>2

\* A step of a turn: no more is seen than the server has.
LEMMA HeadFits ==
    ASSUME IInv, LaneTypes, NEW a \in Accounts, lanes[a] # <<>>,
           NEW step \in Steps \ {"queued"}, NEW seen \in 0 .. MaxVersion, HeadBecomes(a, step, seen),
           UNCHANGED <<flows, suspended>>
    PROVE  LaneTypes'
<1> DEFINE r == [lanes[a][1] EXCEPT !.step = step, !.seen = seen]
<1>1. lanes[a][1] \in JobRec /\ 1 \in Places(a)
  BY HeadIsFirst DEF IInv
<1>2. seen \in Nat /\ seen <= MaxVersion
  BY SyncAssumption
<1>3. r \in JobRec /\ r.by = lanes[a][1].by /\ r.seen = seen /\ r.step = step
  BY <1>1, <1>2 DEF JobRec, Steps
<1>4. lanes' = [lanes EXCEPT ![a] = [@ EXCEPT ![1] = r]]
  BY DEF HeadBecomes
<1> HIDE DEF r
<1>5. /\ lanes'[a] # <<>> /\ lanes'[a][1] = r
      /\ \A b \in Accounts : Places(b)' = Places(b)
      /\ \A b \in Accounts \ {a} : lanes'[b] = lanes[b]
      /\ \A k \in Places(a) \ {1} : lanes'[a][k] = lanes[a][k]
  BY <1>3, <1>4, HeadSet DEF IInv
<1>6. \A b \in Accounts : \A k \in Places(b) :
        /\ lanes'[b][k].by = lanes[b][k].by
        /\ lanes'[b][k].seen <= MaxVersion
  BY <1>2, <1>3, <1>5 DEF LaneTypes, SeenFits
<1>7. SeenFits' /\ Answerable'
  BY <1>5, <1>6 DEF LaneTypes, SeenFits, Answerable
<1>8. Len(lanes'[a]) = Len(lanes[a])
  <2>1. lanes[a] \in Seq(JobRec) /\ 1 \in 1 .. Len(lanes[a])
    BY <1>1 DEF IInv, Types, Places
  <2>2. lanes'[a] = [lanes[a] EXCEPT ![1] = r]
    BY <1>4 DEF IInv, Types
  <2> QED BY <2>1, <2>2, <1>3, ExceptSeq
<1>9. FlowTypes' /\ Refusing'
  BY <1>3, <1>5, <1>8 DEF LaneTypes, FlowTypes, Refusing
<1> QED BY <1>7, <1>9 DEF LaneTypes

\* Whom the turn has answered waits no more, the others move up.
LEMMA EndFits ==
    ASSUME IInv, LaneTypes, NEW a \in Accounts, lanes[a] # <<>>, TurnEnds(a)
    PROVE  LaneTypes'
<1>1. lanes \in [Accounts -> Seq(JobRec)] /\ lanes[a] \in Seq(JobRec)
  BY DEF IInv, Types
<1>2. 1 \in Places(a) /\ Head(lanes[a]) = lanes[a][1] /\ Len(lanes[a]) \in Nat \ {0}
  BY HeadIsFirst DEF IInv
<1>3. /\ Tail(lanes[a]) \in Seq(JobRec) /\ Len(Tail(lanes[a])) = Len(lanes[a]) - 1
      /\ \A i \in 1 .. Len(Tail(lanes[a])) : Tail(lanes[a])[i] = lanes[a][i + 1]
  BY <1>1, HeadTailProperties
<1>4. lanes' = [lanes EXCEPT ![a] = Tail(lanes[a])]
  BY DEF TurnEnds
<1>5. lanes'[a] = Tail(lanes[a]) /\ \A b \in Accounts \ {a} : lanes'[b] = lanes[b]
  BY <1>1, <1>3, <1>4
<1>6. \A k \in Places(a)' : k + 1 \in Places(a) /\ lanes'[a][k] = lanes[a][k + 1]
  BY <1>2, <1>3, <1>5 DEF Places
<1>7. \A k \in Places(a) : k # 1 => k - 1 \in Places(a)' /\ lanes'[a][k - 1] = lanes[a][k]
  <2>1. SUFFICES ASSUME NEW k \in Places(a), k # 1
                 PROVE  k - 1 \in Places(a)' /\ lanes'[a][k - 1] = lanes[a][k]
    OBVIOUS
  <2>2. k - 1 \in Places(a)' /\ (k - 1) + 1 = k
    BY <2>1, <1>2, <1>3, <1>5 DEF Places
  <2> QED BY <2>2, <1>6
<1>8. \A b \in Accounts \ {a} : Places(b)' = Places(b)
  BY <1>5 DEF Places
<1>9. flows' = [s \in Slots |-> IF s \in lanes[a][1].by THEN Idle ELSE flows[s]]
  BY <1>2 DEF TurnEnds, Answered
<1>10. FlowTypes'
  <2>1. Idle \in FlowType
    BY DEF FlowType
  <2> QED BY <2>1, <1>9 DEF LaneTypes, FlowTypes
<1>11. SeenFits'
  <2>1. SUFFICES ASSUME NEW b \in Accounts, NEW k \in Places(b)'
                 PROVE  lanes'[b][k].seen <= MaxVersion
    BY DEF SeenFits
  <2>2. CASE b = a
    BY <2>2, <1>6 DEF LaneTypes, SeenFits
  <2>3. CASE b # a
    BY <2>3, <1>5, <1>8 DEF LaneTypes, SeenFits
  <2> QED BY <2>2, <2>3
<1>12. Answerable'
  <2>1. SUFFICES ASSUME NEW s \in Slots, flows'[s].at = "waiting"
                 PROVE  \E b \in Accounts : \E k \in Places(b)' : s \in lanes'[b][k].by
    BY DEF Answerable
  <2>2. s \notin lanes[a][1].by /\ flows[s].at = "waiting"
    BY <2>1, <1>9 DEF Idle
  <2> PICK b \in Accounts : \E k \in Places(b) : s \in lanes[b][k].by
    BY <2>2 DEF LaneTypes, Answerable
  <2>3. PICK k \in Places(b) : s \in lanes[b][k].by
    OBVIOUS
  <2>4. CASE b = a
    <3>1. k # 1
      BY <2>2, <2>3, <2>4
    <3> QED BY <2>3, <2>4, <3>1, <1>7
  <2>5. CASE b # a
    BY <2>3, <2>5, <1>5, <1>8
  <2> QED BY <2>4, <2>5
<1>13. Refusing'
  <2>1. suspended' = IF Len(lanes[a]) = 1 THEN suspended \ {a} ELSE suspended
    BY DEF TurnEnds
  <2>2. a \notin suspended'
    BY <2>1 DEF LaneTypes, Refusing
  <2> QED BY <2>1, <2>2, <1>5 DEF LaneTypes, Refusing
<1> QED BY <1>10, <1>11, <1>12, <1>13 DEF LaneTypes

LEMMA WriteFits ==
    ASSUME IInv, LaneTypes, NEW a \in Accounts, Write(a)
    PROVE  LaneTypes'
<1>1. UNCHANGED <<flows, suspended>>
  BY DEF Write
<1>2. WriteJob \in JobRec /\ WriteJob.seen = 0
  BY DEF WriteJob, JobRec
<1>3. LET n == Len(lanes[a]) + 1 IN
      /\ lanes'[a] # <<>> /\ lanes'[a][n] = WriteJob
      /\ Places(a)' = Places(a) \cup {n}
      /\ \A k \in Places(a) : lanes'[a][k] = lanes[a][k]
      /\ \A b \in Accounts \ {a} : lanes'[b] = lanes[b] /\ Places(b)' = Places(b)
  BY <1>2, Appended DEF Write, IInv
<1>4. \A b \in Accounts : \A k \in Places(b) : k \in Places(b)' /\ lanes'[b][k] = lanes[b][k]
  BY <1>3
<1>5. Answerable'
  <2>1. SUFFICES ASSUME NEW s \in Slots, flows[s].at = "waiting"
                 PROVE  \E b \in Accounts : \E k \in Places(b)' : s \in lanes'[b][k].by
    BY <1>1 DEF Answerable
  <2>2. \E b \in Accounts : \E k \in Places(b) : s \in lanes[b][k].by
    BY <2>1 DEF LaneTypes, Answerable
  <2> QED BY <2>2, <1>4
<1>6. SeenFits'
  <2>1. SUFFICES ASSUME NEW b \in Accounts, NEW k \in Places(b)'
                 PROVE  lanes'[b][k].seen <= MaxVersion
    BY DEF SeenFits
  <2>2. CASE k \in Places(b)
    BY <2>2, <1>4 DEF LaneTypes, SeenFits
  <2>3. CASE k \notin Places(b)
    <3>1. lanes'[b][k] = WriteJob
      BY <2>3, <1>3
    <3> QED BY <3>1, <1>2, SyncAssumption
  <2> QED BY <2>2, <2>3
<1>7. FlowTypes' /\ Refusing'
  <2>1. a \notin suspended
    BY DEF Write
  <2> QED BY <2>1, <1>1, <1>3 DEF LaneTypes, FlowTypes, Refusing
<1> QED BY <1>5, <1>6, <1>7 DEF LaneTypes

\* A lock changes neither who waits nor what has been seen.
LEMMA LockFits ==
    ASSUME IInv, LaneTypes, Lock
    PROVE  LaneTypes'
<1>1. PICK a : a = account
  OBVIOUS
<1> DEFINE keyless(k) == [lanes[a][k] EXCEPT !.keys = FALSE]
           q == [k \in Places(a) |-> keyless(k)]
<1>2. a \in Accounts /\ UNCHANGED <<flows, suspended>>
  BY <1>1 DEF Lock, IInv, Types
<1>3. lanes \in [Accounts -> Seq(JobRec)] /\ lanes[a] \in Seq(JobRec)
  BY <1>2 DEF IInv, Types
<1>4. Len(lanes[a]) \in Nat /\ DOMAIN lanes[a] = Places(a)
  BY <1>3, LenProperties DEF Places
<1>5. \A k \in Places(a) :
         /\ keyless(k) \in JobRec /\ keyless(k).seen = lanes[a][k].seen
         /\ keyless(k).by = lanes[a][k].by /\ keyless(k).step = lanes[a][k].step
  <2>1. \A k \in Places(a) : lanes[a][k] \in JobRec
    BY <1>2, JobAt DEF IInv
  <2> QED BY <2>1 DEF JobRec
<1>6. lanes' = [lanes EXCEPT ![a] = q]
  BY <1>1, <1>4 DEF Lock
<1> HIDE DEF keyless
<1>7. q \in Seq(JobRec) /\ Len(q) = Len(lanes[a])
  <2>1. q \in [1 .. Len(lanes[a]) -> JobRec]
    BY <1>5 DEF Places
  <2>2. q \in Seq(JobRec)
    BY <1>4, <2>1, SeqDef
  <2>3. DOMAIN q = 1 .. Len(q) /\ Len(q) \in Nat
    BY <2>2, LenProperties
  <2>4. DOMAIN q = 1 .. Len(lanes[a])
    BY <2>1
  <2> QED BY <2>2, <2>3, <2>4, <1>4
<1>8. \A k \in Places(a) : q[k] = keyless(k)
  OBVIOUS
<1> HIDE DEF q
<1>9. lanes'[a] = q /\ \A b \in Accounts \ {a} : lanes'[b] = lanes[b]
  BY <1>2, <1>3, <1>6, <1>7
<1>10. \A b \in Accounts : Places(b)' = Places(b)
  BY <1>7, <1>9 DEF Places
<1>11. \A b \in Accounts : \A k \in Places(b) :
         /\ lanes'[b][k].seen = lanes[b][k].seen /\ lanes'[b][k].by = lanes[b][k].by
         /\ lanes'[b][k].step = lanes[b][k].step
  BY <1>5, <1>8, <1>9
<1>12. SeenFits' /\ Answerable' /\ FlowTypes'
  BY <1>2, <1>10, <1>11 DEF LaneTypes, SeenFits, Answerable, FlowTypes
<1>13. Refusing'
  <2>1. SUFFICES ASSUME NEW b \in suspended
                 PROVE  b \in Accounts /\ lanes'[b] # <<>> /\ Len(lanes'[b]) = 1
                        /\ lanes'[b][1].step # "queued"
    BY <1>2 DEF Refusing
  <2>2. b \in Accounts /\ lanes[b] # <<>> /\ Len(lanes[b]) = 1 /\ lanes[b][1].step # "queued"
    BY DEF LaneTypes, Refusing
  <2>3. 1 \in Places(b)
    BY <2>2, HeadIsFirst DEF IInv
  <2>4. lanes[a] # <<>> => q # <<>>
    BY <1>3, <1>7, EmptySeq
  <2> QED BY <2>2, <2>3, <2>4, <1>7, <1>9, <1>11
<1> QED BY <1>12, <1>13 DEF LaneTypes

\* Leaving answers everybody but those the turn under way will answer.
LEMMA LeaveFits ==
    ASSUME IInv, LaneTypes, Leave
    PROVE  LaneTypes'
<1>1. PICK a : a = account
  OBVIOUS
<1>2. a \in Accounts
  BY <1>1 DEF Leave, IInv, Types
<1>3. lanes \in [Accounts -> Seq(JobRec)] /\ lanes' = [lanes EXCEPT ![a] = Left(a)]
  BY <1>1 DEF Leave, IInv, Types
<1>4. /\ Left(a) \in Seq(JobRec)
      /\ Left(a) # <<>> =>
           /\ lanes[a] # <<>> /\ lanes[a][1].step # "queued" /\ Len(Left(a)) = 1
           /\ Left(a)[1].step = lanes[a][1].step
           /\ Left(a)[1].seen = lanes[a][1].seen /\ Left(a)[1].by = lanes[a][1].by
  BY <1>2, LeftLane
<1>5. lanes'[a] = Left(a)
      /\ \A b \in Accounts \ {a} : lanes'[b] = lanes[b] /\ Places(b)' = Places(b)
  BY <1>2, <1>3, <1>4 DEF Places
<1>6. DOMAIN lanes[a] = Places(a)
  BY <1>2, <1>3, LenProperties DEF Places
<1>7. flows' = [s \in Slots |-> IF s \in Cancelled(a) THEN Idle ELSE flows[s]]
  BY <1>1 DEF Leave, Answered
<1>8. FlowTypes'
  <2>1. Idle \in FlowType
    BY DEF FlowType
  <2> QED BY <2>1, <1>7 DEF LaneTypes, FlowTypes
<1>9. SeenFits'
  <2>1. SUFFICES ASSUME NEW b \in Accounts, NEW k \in Places(b)'
                 PROVE  lanes'[b][k].seen <= MaxVersion
    BY DEF SeenFits
  <2>2. CASE b = a
    <3>1. k \in 1 .. Len(Left(a))
      BY <2>2, <1>5 DEF Places
    <3>2. Left(a) # <<>>
      BY <3>1, EmptySeq
    <3>3. k = 1
      <4>1. k \in 1 .. 1
        BY <1>4, <3>1, <3>2
      <4> QED BY <4>1
    <3>4. 1 \in Places(a)
      BY <1>2, <1>4, <3>2, HeadIsFirst DEF IInv
    <3> QED BY <2>2, <3>2, <3>3, <3>4, <1>4, <1>5 DEF LaneTypes, SeenFits
  <2>3. CASE b # a
    BY <2>3, <1>5 DEF LaneTypes, SeenFits
  <2> QED BY <2>2, <2>3
<1>10. Answerable'
  <2>1. SUFFICES ASSUME NEW s \in Slots, flows'[s].at = "waiting"
                 PROVE  \E b \in Accounts : \E k \in Places(b)' : s \in lanes'[b][k].by
    BY DEF Answerable
  <2>2. s \notin Cancelled(a) /\ flows[s].at = "waiting"
    BY <2>1, <1>7 DEF Idle
  <2> PICK b \in Accounts : \E k \in Places(b) : s \in lanes[b][k].by
    BY <2>2 DEF LaneTypes, Answerable
  <2>3. PICK k \in Places(b) : s \in lanes[b][k].by
    OBVIOUS
  <2>4. CASE b = a
    <3>1. ~(k > 1) /\ lanes[a][k].step # "queued"
      BY <2>2, <2>3, <2>4, <1>6 DEF Cancelled
    <3>2. k = 1 /\ lanes[a] # <<>>
      BY <2>3, <2>4, <3>1, EmptySeq DEF Places
    <3>3. Left(a) # <<>>
      <4>1. Head(lanes[a]) = lanes[a][1]
        BY <1>2, <3>2, HeadIsFirst DEF IInv
      <4> QED BY <3>1, <3>2, <4>1 DEF Left
    <3>4. 1 \in Places(a)' /\ s \in lanes'[a][1].by
      BY <2>3, <2>4, <3>2, <3>3, <1>4, <1>5 DEF Places
    <3> QED BY <3>4, <2>4
  <2>5. CASE b # a
    BY <2>3, <2>5, <1>5
  <2> QED BY <2>4, <2>5
<1>11. Refusing'
  <2>1. suspended' = IF Left(a) = <<>> THEN suspended ELSE suspended \cup {a}
    BY <1>1 DEF Leave
  <2>2. a \notin suspended \/ Left(a) # <<>>
    <3>1. SUFFICES ASSUME a \in suspended PROVE Left(a) # <<>>
      OBVIOUS
    <3>2. lanes[a] # <<>> /\ lanes[a][1].step # "queued"
      BY <3>1 DEF LaneTypes, Refusing
    <3>3. Head(lanes[a]) = lanes[a][1]
      BY <1>2, <3>2, HeadIsFirst DEF IInv
    <3> QED BY <3>2, <3>3 DEF Left
  <2>3. SUFFICES ASSUME NEW b \in suspended'
                 PROVE  b \in Accounts /\ lanes'[b] # <<>> /\ Len(lanes'[b]) = 1
                        /\ lanes'[b][1].step # "queued"
    BY DEF Refusing
  <2>4. CASE b = a
    BY <2>1, <2>2, <2>3, <2>4, <1>2, <1>4, <1>5
  <2>5. CASE b # a
    BY <2>1, <2>3, <2>5, <1>5 DEF LaneTypes, Refusing
  <2> QED BY <2>4, <2>5
<1> QED BY <1>8, <1>9, <1>10, <1>11 DEF LaneTypes

-----------------------------------------------------------------------------
(* The scheduler.                                                          *)

LEMMA FlowStepFits ==
    ASSUME IInv, ServerFits, LaneTypes, NEW s \in Slots, FlowStep(s)
    PROVE  LaneTypes'
<1> DEFINE f == flows[s]
           Asked == Requested(s, "force") \/ Requested(s, "coalesce")
           Moved == \E g \in FlowType :
                      g.at # "waiting" /\ flows' = [flows EXCEPT ![s] = g] /\ UNCHANGED lanes
<1>1. f.at # "waiting" /\ f.at # "done" /\ UNCHANGED suspended
  BY DEF FlowStep, Identified, Rebuilds, Rebuilt, ReadsMarker, Settles, ReadsAge, Confirms
<1>2. FlowType = {Idle} \cup FlowRec
  BY DEF FlowType
<1>3. f \in FlowRec
  BY <1>1, <1>2 DEF LaneTypes, FlowTypes, Idle
<1>4. f.ctx \in Accounts \cup {None}
  BY <1>3 DEF FlowRec
<1>5. SUFFICES Asked \/ Moved
  BY <1>1, <1>4, RequestFits, MoveFits
<1>6. Ends(s) /\ UNCHANGED lanes => Moved
  BY DEF Ends, FlowType, Idle
<1>7. account \in Accounts \cup {None}
  BY DEF IInv, Types
<1>8. ASSUME NEW g \in FlowRec, g.at # "waiting", flows' = [flows EXCEPT ![s] = g],
             UNCHANGED lanes
      PROVE  Moved
  BY <1>2, <1>8
<1>9. CASE Identified(s)
  <2>1. CASE UNCHANGED lanes /\ flows' = [flows EXCEPT ![s] = [f EXCEPT !.id = f.ctx,
               !.ctx = None, !.at = IF f.entry = "unlock" THEN "rebuild" ELSE "dirty"]]
    <3> DEFINE g == [f EXCEPT !.id = f.ctx,
               !.ctx = None, !.at = IF f.entry = "unlock" THEN "rebuild" ELSE "dirty"]
    <3>1. g \in FlowRec /\ g.at # "waiting"
      BY <1>3 DEF FlowRec
    <3> HIDE DEF g, f, Moved
    <3>2. flows' = [flows EXCEPT ![s] = g]
      BY <2>1 DEF g
    <3> QED BY <2>1, <3>1, <3>2, <1>8
  <2> QED BY <1>6, <1>9, <2>1 DEF Identified
<1>10. CASE Rebuilds(s)
  <2>1. PICK failed \in BOOLEAN : flows' = [flows EXCEPT ![s] = [f EXCEPT
                        !.at = "rebuilt", !.ctx = account, !.dirty = failed]]
    <3>1. PICK failed \in BOOLEAN : failed =
                (account = None \/ (account = f.id /\ (~unlocked \/ cache.owner # f.id)))
      OBVIOUS
    <3> QED BY <1>10, <3>1 DEF Rebuilds
  <2> DEFINE g == [f EXCEPT !.at = "rebuilt", !.ctx = account, !.dirty = failed]
  <2>2. g \in FlowRec /\ g.at # "waiting"
    BY <1>3, <1>7 DEF FlowRec
  <2>3. flows' = [flows EXCEPT ![s] = g] /\ UNCHANGED lanes
    BY <1>10, <2>1 DEF Rebuilds
  <2> HIDE DEF g, f, Moved
  <2> QED BY <2>2, <2>3, <1>8
<1>11. ASSUME UNCHANGED lanes, flows' = [flows EXCEPT ![s] = Onward(f)] PROVE Moved
  <2>1. Onward(f) \in FlowRec /\ Onward(f).at # "waiting"
    BY <1>3 DEF FlowRec, Onward
  <2> HIDE DEF f, Moved
  <2> QED BY <1>11, <2>1, <1>8
<1>12. CASE Rebuilt(s)
  <2> HIDE DEF Moved
  <2> QED BY <1>6, <1>11, <1>12 DEF Rebuilt
<1>13. CASE ReadsMarker(s)
  <2>1. PICK d \in BOOLEAN : flows' = [flows EXCEPT ![s] = [f EXCEPT
                 !.at = "settle", !.ctx = account, !.dirty = d]]
    <3>1. PICK e \in BOOLEAN : e = (markers[f.id] = "dirty")
      OBVIOUS
    <3> QED BY <1>13, <3>1 DEF ReadsMarker
  <2> DEFINE g == [f EXCEPT !.at = "settle", !.ctx = account, !.dirty = d]
  <2>2. g \in FlowRec /\ g.at # "waiting"
    BY <1>3, <1>7 DEF FlowRec
  <2>3. flows' = [flows EXCEPT ![s] = g] /\ UNCHANGED lanes
    BY <1>13, <2>1 DEF ReadsMarker
  <2> HIDE DEF g, f, Moved
  <2> QED BY <2>2, <2>3, <1>8
<1>14. CASE Settles(s)
  <2>1. CASE UNCHANGED lanes /\ flows' = [flows EXCEPT ![s] = [f EXCEPT !.at = "age", !.ctx = None]]
    <3> DEFINE g == [f EXCEPT !.at = "age", !.ctx = None]
    <3>1. g \in FlowRec /\ g.at # "waiting"
      BY <1>3 DEF FlowRec
    <3>2. flows' = [flows EXCEPT ![s] = g] /\ UNCHANGED lanes
      BY <2>1
    <3> HIDE DEF g, f, Moved
    <3> QED BY <3>1, <3>2, <1>8
  <2>2. \/ Ends(s) /\ UNCHANGED lanes
        \/ Requested(s, "force")
        \/ UNCHANGED lanes /\ flows' = [flows EXCEPT ![s] = Onward(f)]
        \/ UNCHANGED lanes /\ flows' = [flows EXCEPT ![s] = [f EXCEPT !.at = "age", !.ctx = None]]
    BY <1>14 DEF Settles
  <2> QED BY <1>6, <1>11, <2>1, <2>2
<1>15. CASE ReadsAge(s)
  <2>1. \/ Ends(s) /\ UNCHANGED lanes
        \/ Requested(s, "coalesce")
        \/ /\ flows' = [flows EXCEPT ![s].at = "confirm", ![s].ctx = account]
           /\ UNCHANGED lanes
    BY <1>15 DEF ReadsAge
  <2>2. CASE /\ flows' = [flows EXCEPT ![s].at = "confirm", ![s].ctx = account]
             /\ UNCHANGED lanes
    <3> DEFINE g == [f EXCEPT !.at = "confirm", !.ctx = account]
    <3>1. g \in FlowRec /\ g.at # "waiting"
      BY <1>3, <1>7 DEF FlowRec
    <3>2. flows' = [flows EXCEPT ![s] = g] /\ UNCHANGED lanes
      <4>1. flows = [t \in Slots |-> flows[t]]
        BY DEF IInv, Types
      <4> QED BY <2>2, <4>1
    <3> HIDE DEF g, f, Moved
    <3> QED BY <3>1, <3>2, <1>8
  <2> QED BY <1>6, <2>1, <2>2
<1>16. CASE Confirms(s)
  BY <1>6, <1>16 DEF Confirms
<1> QED BY <1>9, <1>10, <1>12, <1>13, <1>14, <1>15, <1>16 DEF FlowStep

-----------------------------------------------------------------------------
(* Turns.                                                                  *)

\* A turn that does not end goes on to a later step.
LEMMA TurnFits ==
    ASSUME IInv, ServerFits, LaneTypes, NEW a \in Accounts, TurnStep(a) \/ TurnFails(a)
    PROVE  LaneTypes' /\ lanes[a] # <<>>
<1> DEFINE steps == Steps \ {"queued"}
           Goes1 == \E step \in steps : TurnGoes(a, step)
           Sees1 == \E step \in steps : TurnSees(a, step)
<1>1. lanes[a] # <<>>
  BY DEF TurnStep, TurnFails, At, SyncStarts, SyncAnswers, SyncPublishes, SyncClears,
         WriteStarts, WriteSends, WriteReconciles, WriteApplies, WriteRefused,
         WritePublishes, WriteClears, SyncFails, WriteUnknown, ReconcileFails
<1>2. lanes[a][1].seen \in 0 .. MaxVersion /\ server[a] \in 0 .. MaxVersion
  <2>1. lanes[a][1] \in JobRec /\ 1 \in Places(a)
    BY <1>1, HeadIsFirst DEF IInv
  <2> QED BY <2>1, SyncAssumption DEF JobRec, IInv, Types, ServerFits, LaneTypes, SeenFits
<1>3. Goes1 => LaneTypes'
  <2>1. ASSUME NEW step \in steps, TurnGoes(a, step) PROVE LaneTypes'
    BY <1>1, <1>2, <2>1, Goes, HeadFits DEF IInv
  <2> QED BY <2>1
<1>4. Sees1 => LaneTypes'
  <2>1. ASSUME NEW step \in steps, TurnSees(a, step) PROVE LaneTypes'
    BY <1>1, <1>2, <2>1, Sees, HeadFits DEF IInv
  <2> QED BY <2>1
<1>5. TurnEnds(a) => LaneTypes'
  BY <1>1, EndFits
<1>6. TurnEnds(a) \/ Goes1 \/ Sees1
  <2>1. {"asked", "marked", "sent", "applied", "answered", "published"} \subseteq steps
    BY DEF Steps
  <2> HIDE DEF steps
  <2>2. CASE SyncStarts(a) \/ SyncPublishes(a) \/ SyncClears(a) \/ SyncAnswers(a) \/ SyncFails(a)
    BY <2>1, <2>2 DEF SyncStarts, SyncPublishes, SyncClears, SyncAnswers, SyncFails
  <2>3. CASE WriteStarts(a) \/ WriteSends(a) \/ WriteApplies(a) \/ WriteRefused(a) \/ WriteUnknown(a)
    BY <2>1, <2>3 DEF WriteStarts, WriteSends, WriteApplies, WriteRefused, WriteUnknown
  <2>4. CASE WriteReconciles(a) \/ WritePublishes(a) \/ WriteClears(a) \/ ReconcileFails(a)
    BY <2>1, <2>4 DEF WriteReconciles, WritePublishes, WriteClears, ReconcileFails, Unsynced
  <2> QED BY <2>2, <2>3, <2>4 DEF TurnStep, TurnFails
<1> QED BY <1>1, <1>3, <1>4, <1>5, <1>6

\* What is published was seen by the turn; what is recorded is an age.
LEMMA PublishedFits ==
    ASSUME IInv, SeenFits, Records, NEW a \in Accounts, lanes[a] # <<>>, Published(a)
    PROVE  CacheFits' /\ age' \in [Accounts -> Ages]
<1>1. Head(lanes[a]).seen <= MaxVersion
  BY HeadIsFirst DEF IInv, SeenFits
<1>2. cache'.version = Head(lanes[a]).seen
  BY DEF Published
<1>3. age' \in [Accounts -> Ages]
  BY DEF Published, Records, Ages
<1> QED BY <1>1, <1>2, <1>3 DEF CacheFits

LEMMA TurnRecords ==
    ASSUME IInv, TInv, NEW a \in Accounts, TurnStep(a) \/ TurnFails(a)
    PROVE  ServerFits' /\ CacheFits' /\ Room' /\ Records'
<1> USE DEF network
<1>1. lanes[a] # <<>>
  BY TurnFits DEF TInv
<1>2. Published(a) => CacheFits' /\ age' \in [Accounts -> Ages]
  BY <1>1, PublishedFits DEF TInv, LaneTypes
<1>3. UNCHANGED cache => CacheFits'
  BY DEF TInv, CacheFits
<1>4. UNCHANGED server => ServerFits'
  BY DEF TInv, ServerFits
<1>5. Applied(a) => ServerFits'
  BY AppliedFits DEF TInv
<1>6. /\ UNCHANGED markers => Room'
      /\ markers' = ClearedMarkers(a) => Room'
      /\ markers' \in MarkedStores(a) => Room'
  BY SameRoom, ClearedFits, MarkedFits DEF TInv
<1>7. age \in [Accounts -> Ages] /\ nudged \in BOOLEAN /\ late \subseteq Accounts
      /\ disturbed \in 0 .. MaxDisturbances
  BY DEF TInv, Records
<1>8. Disturb => disturbed' \in 0 .. MaxDisturbances
  BY <1>7, SyncAssumption DEF Disturb
<1>9. \A by : Recorded(by) \in [Accounts -> Ages]
  BY <1>7 DEF Recorded, Ages
<1>10. CASE SyncStarts(a) \/ SyncAnswers(a) \/ SyncFails(a) \/ WriteSends(a) \/ WriteRefused(a)
  BY <1>10, <1>3, <1>4, <1>6, <1>7, <1>8
     DEF SyncStarts, SyncAnswers, SyncFails, WriteSends, WriteRefused, Records
<1>11. CASE SyncPublishes(a)
  BY <1>11, <1>2, <1>3, <1>4, <1>6, <1>7 DEF SyncPublishes, Records
<1>12. CASE SyncClears(a)
  BY <1>12, <1>3, <1>4, <1>6, <1>7, <1>9 DEF SyncClears, Records
<1>13. CASE WriteStarts(a)
  <2>1. nudged' \in BOOLEAN /\ Room'
    BY <1>13, <1>6, <1>7 DEF WriteStarts
  <2> QED BY <1>13, <2>1, <1>3, <1>4, <1>7 DEF WriteStarts, Records
<1>14. CASE WriteApplies(a)
  BY <1>14, <1>3, <1>5, <1>6, <1>7 DEF WriteApplies, Records
<1>15. CASE WriteUnknown(a)
  BY <1>15, <1>3, <1>4, <1>6, <1>7, <1>8 DEF WriteUnknown, Records
<1>16. CASE WriteReconciles(a) \/ ReconcileFails(a)
  BY <1>16, <1>3, <1>4, <1>6, <1>7, <1>8 DEF WriteReconciles, ReconcileFails, Unsynced, Records
<1>17. CASE WritePublishes(a)
  BY <1>17, <1>2, <1>3, <1>4, <1>6, <1>7 DEF WritePublishes, Unsynced, Records
<1>18. CASE WriteClears(a)
  BY <1>18, <1>3, <1>4, <1>6, <1>7 DEF WriteClears, Unsynced, Records
<1> QED BY <1>10, <1>11, <1>12, <1>13, <1>14, <1>15, <1>16, <1>17, <1>18
        DEF TurnStep, TurnFails

-----------------------------------------------------------------------------
(* Every step, again.                                                      *)

\* What neither the server, nor the cache, nor the markers take part in.
Elsewhere == UNCHANGED <<server, cache, markers>>

LEMMA ElsewhereFits ==
    ASSUME TInv, Elsewhere, LaneTypes', Records'
    PROVE  TInv'
<1>1. ServerFits' /\ CacheFits'
  BY DEF TInv, ServerFits, CacheFits, Elsewhere
<1>2. Room'
  BY SameRoom DEF TInv, Elsewhere
<1> QED BY <1>1, <1>2 DEF TInv

\* Lanes and activities are as they were.
LEMMA LanesSame ==
    ASSUME LaneTypes, UNCHANGED <<lanes, flows>>, suspended' \subseteq suspended
    PROVE  LaneTypes'
BY DEF LaneTypes, SeenFits, FlowTypes, Answerable, Refusing, Places

LEMMA InitTypes == Init => TInv
<1> SUFFICES ASSUME Init PROVE TInv
  OBVIOUS
<1>1. {MaxMarkers, MaxVersion, MaxQueued} \subseteq Nat /\ MaxDisturbances \in Nat
  BY SyncAssumption
<1>2. ServerFits /\ CacheFits
  BY <1>1 DEF Init, ServerFits, CacheFits, NoCache
<1>3. Room
  <2>1. Tracked = {}
    BY DEF Init, Tracked
  <2> QED BY <1>1, <2>1, FS_EmptySet DEF Room
<1>4. Records
  <2>1. age \in [Accounts -> Ages]
    BY DEF Init, Ages
  <2>2. nudged \in BOOLEAN /\ late = {}
    BY DEF Init
  <2>3. disturbed \in 0 .. MaxDisturbances
    BY <1>1 DEF Init
  <2> QED BY <2>1, <2>2, <2>3 DEF Records
<1>5. \A a \in Accounts : Places(a) = {}
  BY EmptySeq DEF Init, Places
<1>6. FlowTypes /\ \A s \in Slots : flows[s].at # "waiting"
  <2>1. account \in Accounts \cup {None}
    BY SyncAssumption DEF Init
  <2>2. Flow("startup", account) \in FlowType /\ Flow("startup", account).at = "identify"
    BY <2>1, FlowFits
  <2>3. Idle \in FlowType /\ Idle.at = "done"
    BY DEF FlowType, Idle
  <2> QED BY <2>2, <2>3 DEF Init, FlowTypes
<1>7. LaneTypes
  BY <1>5, <1>6 DEF Init, LaneTypes, SeenFits, Answerable, Refusing
<1> QED BY <1>2, <1>3, <1>4, <1>7 DEF TInv

LEMMA BeginFits ==
    ASSUME IInv, TInv, NEW s \in Slots,
           NEW entry \in {"alarm", "startup", "login", "unlock", "popup", "manual",
                          "notification", "force", "coalesce"},
           NEW ctx \in Accounts \cup {None},
           flows[s] = Idle, flows' = [flows EXCEPT ![s] = Flow(entry, ctx)],
           UNCHANGED lanes, suspended' \subseteq suspended
    PROVE  LaneTypes'
<1>1. flows[s].at # "waiting"
  BY DEF Idle
<1>2. Flow(entry, ctx) \in FlowType /\ Flow(entry, ctx).at # "waiting"
  BY FlowFits
<1> QED BY <1>1, <1>2, MoveFits DEF TInv

LEMMA RestartFits ==
    ASSUME IInv, TInv, Restart
    PROVE  LaneTypes' /\ Records'
<1>1. /\ \A a \in Accounts : lanes'[a] = <<>>
      /\ flows' = [s \in Slots |-> IF s = Timed THEN Flow("startup", account) ELSE Idle]
      /\ suspended' = {}
  BY DEF Restart
<1>2. \A a \in Accounts : Places(a)' = {}
  BY <1>1, EmptySeq DEF Places
<1>3. FlowTypes' /\ \A s \in Slots : flows'[s].at # "waiting"
  <2>1. account \in Accounts \cup {None}
    BY DEF IInv, Types
  <2>2. Flow("startup", account) \in FlowType /\ Flow("startup", account).at = "identify"
    BY <2>1, FlowFits
  <2>3. Idle \in FlowType /\ Idle.at = "done"
    BY DEF FlowType, Idle
  <2> QED BY <1>1, <2>2, <2>3 DEF FlowTypes
<1>4. LaneTypes'
  BY <1>1, <1>2, <1>3 DEF LaneTypes, SeenFits, Answerable, Refusing
<1>5. late' \subseteq Accounts /\ nudged' \in BOOLEAN /\ UNCHANGED age
  BY DEF Restart, TInv, Records
<1>6. disturbed' \in 0 .. MaxDisturbances
  BY SyncAssumption DEF Restart, Disturb, TInv, Records
<1> QED BY <1>4, <1>5, <1>6 DEF TInv, Records

LEMMA StepTypes == IInv /\ TInv /\ [Next]_vars => TInv'
<1> SUFFICES ASSUME IInv, TInv, [Next]_vars PROVE TInv'
  OBVIOUS
<1> USE DEF network, session
<1>1. LaneTypes /\ ServerFits /\ Records
  BY DEF TInv
<1>2. account \in Accounts \cup {None}
  BY DEF IInv, Types
<1>3. UNCHANGED <<late, age, nudged, disturbed>> => Records'
  BY <1>1 DEF Records
<1>4. Disturb => disturbed' \in 0 .. MaxDisturbances
  BY <1>1, SyncAssumption DEF Disturb, Records
<1>5. CASE UNCHANGED vars
  <2>1. LaneTypes'
    BY <1>1, <1>5, LanesSame DEF vars
  <2> QED BY <1>3, <1>5, <2>1, ElsewhereFits DEF vars, Elsewhere
<1>6. CASE AlarmFires
  <2>1. LaneTypes'
    BY <1>2, <1>6, BeginFits, SyncAssumption DEF AlarmFires, Begin
  <2> QED BY <1>3, <1>6, <2>1, ElsewhereFits DEF AlarmFires, Elsewhere
<1>7. ASSUME NEW s \in Slots, UserAsks(s) PROVE TInv'
  <2>1. PICK entry \in {"popup", "manual", "notification"} : Begin(s, entry)
    BY <1>7 DEF UserAsks
  <2>2. LaneTypes'
    BY <1>2, <1>7, <2>1, BeginFits DEF UserAsks, Begin
  <2> QED BY <1>3, <1>7, <2>2, ElsewhereFits DEF UserAsks, Elsewhere
<1>8. ASSUME NEW s \in Slots, MutationAsks(s) PROVE TInv'
  <2>1. LaneTypes'
    BY <1>2, <1>8, BeginFits DEF MutationAsks, Begin
  <2>2. Records'
    BY <1>1, <1>8 DEF MutationAsks, Records
  <2> QED BY <1>8, <2>1, <2>2, ElsewhereFits DEF MutationAsks, Elsewhere
<1>9. ASSUME NEW s \in Slots, FlowStep(s) PROVE TInv'
  <2>1. LaneTypes'
    BY <1>1, <1>9, FlowStepFits
  <2>2. UNCHANGED <<server, cache, markers, late, age, nudged>>
        /\ (UNCHANGED disturbed \/ Disturb)
    BY <1>9 DEF FlowStep, Identified, Rebuilds, Rebuilt, ReadsMarker, Settles, ReadsAge, Confirms
  <2>3. Records'
    BY <1>1, <1>4, <2>2 DEF Records
  <2> QED BY <2>1, <2>2, <2>3, ElsewhereFits DEF Elsewhere
<1>10. ASSUME NEW a \in Accounts, Write(a) PROVE TInv'
  <2>1. LaneTypes'
    BY <1>1, <1>10, WriteFits
  <2> QED BY <1>3, <1>10, <2>1, ElsewhereFits DEF Write, Elsewhere
<1>11. ASSUME NEW a \in Accounts, TurnStep(a) \/ TurnFails(a) PROVE TInv'
  BY <1>1, <1>11, TurnFits, TurnRecords DEF TInv
<1>12. ASSUME NEW a \in Accounts, ChangedElsewhere(a) \/ LandsLate(a) PROVE TInv'
  <2>1. Applied(a) /\ UNCHANGED <<cache, markers, age, flows, nudged, lanes, suspended, disturbed>>
        /\ late' \subseteq late
    BY <1>12 DEF ChangedElsewhere, LandsLate
  <2>2. ServerFits'
    BY <1>1, <2>1, AppliedFits
  <2>3. LaneTypes'
    BY <1>1, <2>1, LanesSame
  <2>4. CacheFits' /\ Room'
    BY <2>1, SameRoom DEF TInv, CacheFits
  <2>5. Records'
    BY <1>1, <2>1 DEF Records
  <2> QED BY <2>2, <2>3, <2>4, <2>5 DEF TInv
<1>13. ASSUME NEW a \in Accounts, SwitchedTo(a) PROVE TInv'
  <2>1. LaneTypes'
    BY <1>1, <1>13, LanesSame DEF SwitchedTo
  <2> QED BY <1>3, <1>13, <2>1, ElsewhereFits DEF SwitchedTo, Elsewhere
<1>14. ASSUME NEW s \in Slots, NEW a \in Accounts, Login(s, a) PROVE TInv'
  <2>1. LaneTypes'
    BY <1>14, BeginFits DEF Login
  <2> QED BY <1>3, <1>14, <2>1, ElsewhereFits DEF Login, Elsewhere
<1>15. ASSUME NEW s \in Slots, Unlock(s) PROVE TInv'
  <2>1. LaneTypes'
    BY <1>2, <1>15, BeginFits DEF Unlock
  <2> QED BY <1>3, <1>15, <2>1, ElsewhereFits DEF Unlock, Elsewhere
<1>16. CASE TimePasses \/ ClockSetBack
  <2>1. LaneTypes'
    BY <1>1, <1>16, LanesSame DEF TimePasses, ClockSetBack
  <2>2. age' \in [Accounts -> Ages]
    BY <1>1, <1>16 DEF TimePasses, ClockSetBack, Records, Ages
  <2>3. Records'
    BY <1>1, <1>4, <1>16, <2>2 DEF TimePasses, ClockSetBack, Records
  <2> QED BY <1>16, <2>1, <2>3, ElsewhereFits DEF TimePasses, ClockSetBack, Elsewhere
<1>17. CASE Lock
  <2>1. LaneTypes'
    BY <1>1, <1>17, LockFits
  <2>2. Records'
    BY <1>1, <1>4, <1>17 DEF Lock, Records
  <2> QED BY <1>17, <2>1, <2>2, ElsewhereFits DEF Lock, Elsewhere
<1>18. CASE Leave
  <2>1. LaneTypes'
    BY <1>1, <1>18, LeaveFits
  <2>2. Records'
    BY <1>1, <1>4, <1>18 DEF Leave, Records
  <2>3. CacheFits' /\ ServerFits' /\ Room'
    <3>1. cache' = NoCache /\ UNCHANGED <<server, markers>>
      BY <1>18 DEF Leave
    <3> QED BY <1>1, <3>1, SameRoom, SyncAssumption DEF TInv, CacheFits, ServerFits, NoCache
  <2> QED BY <2>1, <2>2, <2>3 DEF TInv
<1>19. CASE Restart
  <2>1. LaneTypes' /\ Records'
    BY <1>19, RestartFits
  <2> QED BY <1>19, <2>1, ElsewhereFits DEF Restart, Elsewhere
<1> QED BY <1>5, <1>6, <1>7, <1>8, <1>9, <1>10, <1>11, <1>12, <1>13, <1>14, <1>15, <1>16,
           <1>17, <1>18, <1>19 DEF Next

\* Nobody waits for two entries, and whoever waits is in one.
LEMMA OneEntry ==
    ASSUME IInv, TInv, NEW s \in Slots
    PROVE  Cardinality(EntriesOf(s)) = (IF flows[s].at = "waiting" THEN 1 ELSE 0)
<1>1. \A a \in Accounts : DOMAIN lanes[a] = Places(a)
  BY LenProperties DEF IInv, Types, Places
<1>2. \A p : p \in EntriesOf(s) <=>
        \E a \in Accounts : \E k \in Places(a) : s \in lanes[a][k].by /\ p = <<a, k>>
  BY <1>1 DEF EntriesOf
<1>3. CASE flows[s].at = "waiting"
  <2> PICK a \in Accounts : \E k \in Places(a) : s \in lanes[a][k].by
    BY <1>3 DEF TInv, LaneTypes, Answerable
  <2>1. PICK k \in Places(a) : s \in lanes[a][k].by
    OBVIOUS
  <2>2. ASSUME NEW b \in Accounts, NEW l \in Places(b), s \in lanes[b][l].by
        PROVE  b = a /\ l = k
    BY <2>1, <2>2 DEF IInv, WaitInv
  <2>3. EntriesOf(s) = {<<a, k>>}
    BY <1>2, <2>1, <2>2
  <2> QED BY <1>3, <2>3, FS_Singleton
<1>4. CASE flows[s].at # "waiting"
  <2>1. EntriesOf(s) = {}
    BY <1>2, <1>4, NotWaiting DEF IInv
  <2> QED BY <1>4, <2>1, FS_EmptySet
<1> QED BY <1>3, <1>4

LEMMA TypesFollow == IInv /\ TInv => TypeOK
<1> SUFFICES ASSUME IInv, TInv PROVE TypeOK
  OBVIOUS
<1>1. {MaxMarkers, MaxVersion, MaxQueued} \subseteq Nat
  BY SyncAssumption
<1>2. /\ account \in Accounts \cup {None} /\ unlocked \in BOOLEAN
      /\ (unlocked => account # None) /\ unseen \subseteq Accounts
      /\ markers \in [Accounts -> {"absent", "clean", "dirty"}]
  BY DEF IInv, Types
<1>3. server \in [Accounts -> Nat] /\ \A a \in Accounts : server[a] <= MaxVersion
  BY DEF IInv, Types, TInv, ServerFits
<1>4. server \in [Accounts -> 0 .. MaxVersion]
  BY <1>1, <1>3
<1>5. own \in [Accounts -> 0 .. MaxVersion]
  <2>1. own \in [Accounts -> Nat] /\ \A a \in Accounts : own[a] <= server[a]
    BY DEF IInv, Types, MarkInv
  <2>2. \A a \in Accounts : own[a] \in 0 .. MaxVersion
    BY <1>1, <1>3, <2>1
  <2> QED BY <2>1, <2>2
<1>6. cache \in [owner : Accounts \cup {None}, version : 0 .. MaxVersion]
  BY <1>1 DEF IInv, Types, TInv, CacheFits
<1>7. \A a \in Accounts : \A k \in DOMAIN lanes[a] : lanes[a][k] \in JobType
  <2>1. SUFFICES ASSUME NEW a \in Accounts, NEW k \in DOMAIN lanes[a]
                 PROVE  lanes[a][k] \in JobType
    OBVIOUS
  <2>2. k \in Places(a)
    BY LenProperties DEF IInv, Types, Places
  <2>3. lanes[a][k] \in JobRec /\ lanes[a][k].seen <= MaxVersion
    BY <2>2, JobAt DEF IInv, TInv, LaneTypes, SeenFits
  <2> QED BY <1>1, <2>3 DEF JobRec, JobType
<1>8. \A s \in Slots :
         Cardinality(EntriesOf(s)) = (IF flows[s].at = "waiting" THEN 1 ELSE 0)
  BY OneEntry
<1>9. suspended \subseteq {a \in Accounts : lanes[a] # <<>>}
  BY DEF TInv, LaneTypes, Refusing
<1>10. /\ Cardinality(Tracked) <= MaxMarkers
       /\ late \subseteq Accounts /\ age \in [Accounts -> Ages]
       /\ nudged \in BOOLEAN /\ disturbed \in 0 .. MaxDisturbances
       /\ \A s \in Slots : flows[s] \in FlowType
  BY DEF TInv, Room, Records, LaneTypes, FlowTypes
<1> QED BY <1>2, <1>4, <1>5, <1>6, <1>7, <1>8, <1>9, <1>10 DEF TypeOK

-----------------------------------------------------------------------------
(* The theorems.                                                           *)

\* The invariant holds whatever is asked, left, locked or lost, and however
\* often the worker stops.
THEOREM SyncInvariant == Spec => []IInv
<1>1. Init => IInv
  BY InitInv
<1>2. IInv /\ [Next]_vars => IInv'
  BY StepInv
<1> QED BY <1>1, <1>2, PTL DEF Spec

\* Once a change of this device is sent, no sync clears the marker of its
\* account and nothing evicts it before a copy sent later is published or the
\* change is refused.  A change that lands after that copy was sent, because
\* its answer was lost or its worker stopped, is not covered (markDirty,
\* clearDirty).
THEOREM MissingIsMarked == Spec => []UnseenIsMarked
<1>1. IInv => UnseenIsMarked
  BY DEF IInv, MarkInv
<1> QED BY <1>1, SyncInvariant, PTL

\* What the cache holds belongs to the active account (syncInLane).
THEOREM CacheStaysTheAccounts == Spec => []CacheIsTheAccounts
<1>1. IInv => CacheIsTheAccounts
  BY DEF IInv, CopyInv
<1> QED BY <1>1, SyncInvariant, PTL

\* A sync asked for by force is answered with a copy that is as new as the
\* server was then (requestSync).
THEOREM ForcedStaysFresh == Spec => ForcedIsFresh
<1>1. IInv /\ [Next]_vars =>
        [\A s \in Slots : \A a \in Accounts :
           flows[s].entry = "force" /\ SyncClears(a) /\ Holds(a) /\ s \in Head(lanes[a]).by
           => cache'.owner = flows[s].on /\ cache'.version >= flows[s].asked]_vars
  <2> SUFFICES ASSUME IInv, NEW s \in Slots, NEW a \in Accounts, flows[s].entry = "force",
                      SyncClears(a), Holds(a), s \in Head(lanes[a]).by
               PROVE  cache'.owner = flows[s].on /\ cache'.version >= flows[s].asked
    OBVIOUS
  <2>1. /\ lanes[a] # <<>> /\ Head(lanes[a]) = lanes[a][1] /\ lanes[a][1].step = "published"
        /\ lanes[a][1].seen \in Nat /\ s \in lanes[a][1].by
        /\ flows[s].asked \in Nat /\ flows[s].asked <= lanes[a][1].seen
    BY AtHead DEF SyncClears
  <2>2. cache' = cache /\ cache.owner = a /\ cache.version = lanes[a][1].seen
    <3>1. cache' = cache /\ lanes[a][1].ok
      BY <2>1 DEF SyncClears, Holds
    <3> QED BY <2>1, <3>1 DEF IInv, CopyInv
  <2>3. flows[s].on = a
    BY <2>1, HeadIsFirst DEF IInv, WaitInv
  <2> QED BY <2>1, <2>2, <2>3
<1> QED BY <1>1, SyncInvariant, PTL DEF Spec, ForcedIsFresh

\* Types and counts: no version runs ahead of the server, the marker store
\* keeps to its capacity, and an activity waits for exactly the one entry that
\* will answer it (requestSync, markDirty, invalidateAccount).
THEOREM SyncTypes == Spec => []TypeOK
<1>1. Init => IInv /\ TInv
  BY InitInv, InitTypes
<1>2. (IInv /\ TInv) /\ [Next]_vars => (IInv /\ TInv)'
  BY StepInv, StepTypes
<1>3. IInv /\ TInv => TypeOK
  BY TypesFollow
<1> QED BY <1>1, <1>2, <1>3, PTL DEF Spec
=============================================================================
