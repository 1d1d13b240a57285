-------------------------- MODULE TokenCacheProofs --------------------------
(***************************************************************************)
(* Proofs about TokenCache for any number of tasks and any lifetime, slack *)
(* and timeouts that satisfy TimesAssumption.                              *)
(***************************************************************************)
EXTENDS TokenCache, TLAPS

-----------------------------------------------------------------------------
(* Data.                                                                   *)

LEMMA TimeIsNat == Time \subseteq Nat /\ None \notin Time
BY MaxTimeAssumption, NoneAssumption DEF Time

LEMMA IdleIsRecord == Idle \in Record
BY MaxTimeAssumption DEF Idle, Record, Time

\* The time recorded for a token that arrives now.
LEMMA MarkOfAnswer ==
    ASSUME IInv, NEW t \in Task, task[t].pc = "answer"
    PROVE  /\ Mark(t) \in Nat
           /\ kind = "app" => Mark(t) <= task[t].token + Lag + (Life - Slack)
           /\ kind = "broker" => Mark(t) <= task[t].token + Lag + Life
           /\ kind = "comment" => Mark(t) <= task[t].token + Life - Slack
<1>1. /\ task[t] \in Record /\ now \in Nat
      /\ task[t].token \in Nat /\ task[t].asked \in Nat
      /\ task[t].asked <= task[t].token
      /\ now <= task[t].token + Lag
  BY TimeIsNat DEF IInv, TypeOK, TaskIsTimely, Record
<1>2. CASE kind = "app"
  BY <1>1, <1>2, TimesAssumption DEF Mark, AppMark
<1>3. CASE kind = "broker"
  BY <1>1, <1>3, TimesAssumption DEF Mark, BrokerMark
<1>4. CASE kind = "comment"
  BY <1>1, <1>4, TimesAssumption DEF Mark, CommentMark
<1> QED
  BY <1>2, <1>3, <1>4 DEF IInv, TypeOK, Kinds

\* A token that may be used has its slack left, less the lag.
LEMMA UsableHasSlack ==
    ASSUME IInv, MayUse
    PROVE  cache.token \in Nat /\ now + Slack < cache.token + Life + Lag
<1>1. cache.token \in Nat /\ cache.mark \in Nat /\ now \in Nat
  BY TimeIsNat DEF IInv, TypeOK, MayUse
<1>2. CASE kind = "app"
  BY <1>1, <1>2, TimesAssumption DEF IInv, CacheIsTimely, MayUse, AppMayUse
<1>3. CASE kind = "broker"
  BY <1>1, <1>3, TimesAssumption DEF IInv, CacheIsTimely, MayUse, BrokerMayUse
<1>4. CASE kind = "comment"
  BY <1>1, <1>4, TimesAssumption DEF IInv, CacheIsTimely, MayUse, CommentMayUse
<1> QED
  BY <1>2, <1>3, <1>4 DEF IInv, TypeOK, Kinds

-----------------------------------------------------------------------------
(* The invariant.                                                          *)

LEMMA InitInv == Init => IInv
<1> SUFFICES ASSUME Init PROVE IInv
  OBVIOUS
<1>1. TypeOK
  BY IdleIsRecord, MaxTimeAssumption DEF Init, TypeOK, Empty, Time
<1>2. CacheIsTimely
  BY DEF Init, CacheIsTimely, Empty
<1>3. ASSUME NEW t \in Task PROVE TaskIsTimely(t)
  <2>1. task[t].pc = "idle" /\ task[t].asked = 0 /\ now = 0
    BY DEF Init, Idle
  <2> QED
    BY <2>1 DEF TaskIsTimely
<1> QED
  BY <1>1, <1>2, <1>3 DEF IInv

\* A task that becomes a timely record, the clock and the cache unchanged.
LEMMA BecomeStep ==
    ASSUME IInv, NEW t \in Task, NEW next \in Record, Become(t, next),
           UNCHANGED <<kind, now, cache>>, located' \in BOOLEAN,
           next.asked <= now,
           next.pc = "answer" =>
               next.token # None /\ next.asked <= next.token
                   /\ next.token <= now /\ now <= next.token + Lag,
           next.pc = "use" =>
               next.token # None /\ next.since + Slack < next.token + Life + Lag
    PROVE  IInv'
<1>1. TypeOK'
  BY DEF IInv, TypeOK, Become
<1>2. CacheIsTimely'
  BY DEF IInv, CacheIsTimely
<1>3. ASSUME NEW u \in Task PROVE TaskIsTimely(u)'
  <2>1. TaskIsTimely(u)
    BY DEF IInv
  <2>2. task'[u] = IF u = t THEN next ELSE task[u]
    BY DEF Become, IInv, TypeOK
  <2> QED
    BY <2>1, <2>2 DEF TaskIsTimely
<1> QED
  BY <1>1, <1>2, <1>3 DEF IInv

\* A request begins with the token kept, or asks for one.
LEMMA ObtainStep ==
    ASSUME IInv, NEW t \in Task, Obtain(t),
           UNCHANGED <<kind, now, cache>>, located' \in BOOLEAN
    PROVE  IInv'
<1>1. now \in Time /\ cache.token \in Time \cup {None} /\ now \in Nat
  BY TimeIsNat DEF IInv, TypeOK
<1>2. CASE MayUse
  <2> DEFINE next == [Idle EXCEPT !.pc = "use", !.token = cache.token,
                                  !.since = now]
  <2>1. /\ next \in Record /\ next.pc = "use" /\ next.token = cache.token
        /\ next.since = now /\ next.asked = 0
    BY <1>1, IdleIsRecord DEF Idle, Record
  <2>2. cache.token # None /\ now + Slack < cache.token + Life + Lag
    BY <1>2, UsableHasSlack DEF MayUse
  <2>3. 0 <= now
    BY <1>1
  <2>4. Become(t, next)
    BY <1>2 DEF Obtain
  <2> HIDE DEF next
  <2> QED
    BY <2>1, <2>2, <2>3, <2>4, <1>1, BecomeStep
<1>3. CASE ~MayUse
  <2> DEFINE next == [Idle EXCEPT !.pc = "ask", !.asked = now]
  <2>1. next \in Record /\ next.pc = "ask" /\ next.asked = now
    BY <1>1, IdleIsRecord DEF Idle, Record
  <2>2. Become(t, next) /\ now <= now
    BY <1>1, <1>3 DEF Obtain
  <2> HIDE DEF next
  <2> QED
    BY <2>1, <2>2, BecomeStep
<1> QED
  BY <1>2, <1>3

\* A task that goes back to where it holds no token.
LEMMA PlainStep ==
    ASSUME IInv, NEW t \in Task, NEW place \in {"idle", "locate", "bare"},
           Become(t, [Idle EXCEPT !.pc = place]),
           UNCHANGED <<kind, now, cache>>, located' \in BOOLEAN
    PROVE  IInv'
<1> DEFINE next == [Idle EXCEPT !.pc = place]
<1>1. next \in Record /\ next.pc = place /\ next.asked = 0
  BY IdleIsRecord DEF Idle, Record
<1>2. 0 <= now
  BY TimeIsNat DEF IInv, TypeOK
<1> HIDE DEF next
<1>3. next.pc # "answer" /\ next.pc # "use"
  BY <1>1
<1>4. Become(t, next)
  BY DEF next
<1> QED
  BY <1>1, <1>2, <1>3, <1>4, BecomeStep

LEMMA IssueStep ==
    ASSUME IInv, NEW t \in Task, Issue(t)
    PROVE  IInv'
<1> DEFINE next == [task[t] EXCEPT !.pc = "answer", !.token = now]
<1>1. /\ task[t] \in Record /\ now \in Time /\ now \in Nat
      /\ task[t].asked <= now
  BY TimeIsNat DEF IInv, TypeOK, TaskIsTimely
<1>2. /\ next \in Record /\ next.pc = "answer" /\ next.token = now
      /\ next.asked = task[t].asked
  BY <1>1 DEF Record
<1>3. now # None /\ now <= now + Lag /\ now <= now
  BY <1>1, TimeIsNat, TimesAssumption
<1>4. /\ Become(t, next) /\ UNCHANGED <<kind, now, cache>>
      /\ located' \in BOOLEAN
  BY DEF Issue, IInv, TypeOK
<1> HIDE DEF next
<1> QED
  BY <1>1, <1>2, <1>3, <1>4, BecomeStep

LEMMA ArriveStep ==
    ASSUME IInv, NEW t \in Task, Arrive(t)
    PROVE  IInv'
<1> DEFINE next == [Idle EXCEPT !.pc = "use", !.token = task[t].token,
                                !.since = now]
<1>1. /\ task[t] \in Record /\ now \in Time /\ now \in Nat
      /\ task[t].token \in Time /\ task[t].token \in Nat
      /\ task[t].token # None
      /\ task[t].token <= now /\ now <= task[t].token + Lag
      /\ UNCHANGED <<kind, now, located>> /\ Become(t, next)
      /\ cache' = [token |-> task[t].token, mark |-> Mark(t)]
      /\ task[t].pc = "answer"
  BY TimeIsNat DEF IInv, TypeOK, TaskIsTimely, Record, Arrive
<1>2. /\ next \in Record /\ next.pc = "use" /\ next.since = now
      /\ next.token = task[t].token /\ next.asked = 0
  BY <1>1, IdleIsRecord DEF Idle, Record
<1>3. 0 <= now /\ now + Slack < task[t].token + Life + Lag
  BY <1>1, TimesAssumption
<1> HIDE DEF next
<1>4. TypeOK'
  BY <1>1, <1>2, MarkOfAnswer DEF IInv, TypeOK, Become
<1>5. CacheIsTimely'
  BY <1>1, MarkOfAnswer DEF CacheIsTimely
<1>6. ASSUME NEW u \in Task PROVE TaskIsTimely(u)'
  <2>1. TaskIsTimely(u)
    BY DEF IInv
  <2>2. task'[u] = IF u = t THEN next ELSE task[u]
    BY <1>1 DEF Become, IInv, TypeOK
  <2> QED
    BY <1>1, <1>2, <1>3, <2>1, <2>2 DEF TaskIsTimely
<1> QED
  BY <1>4, <1>5, <1>6 DEF IInv

LEMMA RestartStep == IInv /\ Restart => IInv'
<1> SUFFICES ASSUME IInv, Restart PROVE IInv'
  OBVIOUS
<1>1. TypeOK'
  BY IdleIsRecord DEF IInv, TypeOK, Restart, Empty
<1>2. CacheIsTimely'
  BY DEF CacheIsTimely, Restart, Empty
<1>3. 0 <= now /\ now' = now
  BY TimeIsNat DEF IInv, TypeOK, Restart
<1>4. \A t \in Task : TaskIsTimely(t)'
  BY <1>3 DEF TaskIsTimely, Restart, Idle
<1> QED
  BY <1>1, <1>2, <1>4 DEF IInv

\* Time passes only while no answer is overdue.
LEMMA TickStep == IInv /\ Tick => IInv'
<1> SUFFICES ASSUME IInv, Tick PROVE IInv'
  OBVIOUS
<1>1. now \in Nat /\ now' = now + 1 /\ UNCHANGED <<kind, located, cache, task>>
  BY TimeIsNat DEF IInv, TypeOK, Tick
<1>2. TypeOK'
  BY <1>1, MaxTimeAssumption DEF IInv, TypeOK, Tick, Time
<1>3. CacheIsTimely'
  <2>1. cache.token # None => cache.token \in Nat /\ cache.token <= now
    BY TimeIsNat DEF IInv, TypeOK, CacheIsTimely
  <2>2. cache.token # None => cache.token <= now + 1
    BY <2>1, <1>1
  <2> QED
    BY <1>1, <2>2 DEF IInv, CacheIsTimely
<1>4. ASSUME NEW t \in Task PROVE TaskIsTimely(t)'
  <2>1. TaskIsTimely(t) /\ InTime(t)
    BY DEF IInv, Tick
  <2>2. /\ task[t].token \in Nat \cup {None} /\ task[t].asked \in Nat
        /\ task[t].since \in Nat
    BY TimeIsNat DEF IInv, TypeOK, Record
  <2>3. Lag \in Nat
    BY TimesAssumption
  <2> QED
    BY <1>1, <2>1, <2>2, <2>3 DEF TaskIsTimely, InTime
<1> QED
  BY <1>2, <1>3, <1>4 DEF IInv

LEMMA InvStep == IInv /\ [Next]_vars => IInv'
<1> SUFFICES ASSUME IInv, [Next]_vars PROVE IInv'
  OBVIOUS
<1>0. located \in BOOLEAN /\ \A t \in Task : task[t] \in Record
  BY DEF IInv, TypeOK
<1>1. ASSUME NEW t \in Task, Begin(t) PROVE IInv'
  BY <1>0, <1>1, ObtainStep, PlainStep DEF Begin
<1>2. ASSUME NEW t \in Task, Locate(t) PROVE IInv'
  BY <1>0, <1>2, ObtainStep, PlainStep DEF Locate
<1>3. ASSUME NEW t \in Task, Issue(t) PROVE IInv'
  BY <1>3, IssueStep
<1>4. ASSUME NEW t \in Task, Arrive(t) PROVE IInv'
  BY <1>4, ArriveStep
<1>5. ASSUME NEW t \in Task, GiveUp(t) PROVE IInv'
  BY <1>0, <1>5, PlainStep DEF GiveUp
<1>6. ASSUME NEW t \in Task, Finish(t) PROVE IInv'
  <2>1. Idle = [Idle EXCEPT !.pc = "idle"]
    BY DEF Idle
  <2> QED
    BY <1>0, <1>6, <2>1, PlainStep DEF Finish
<1>7. CASE UNCHANGED vars
  BY <1>7 DEF vars, IInv, TypeOK, CacheIsTimely, TaskIsTimely
<1> QED
  BY <1>1, <1>2, <1>3, <1>4, <1>5, <1>6, <1>7, RestartStep, TickStep DEF Next

-----------------------------------------------------------------------------
(* The theorems.                                                           *)

(* The invariant that ties the times recorded to those of issue holds of   *)
(* every behaviour of the three caches.                                    *)
THEOREM Invariance == Spec => []IInv
<1>1. Init => IInv
  BY InitInv
<1>2. IInv /\ [Next]_vars => IInv'
  BY InvStep
<1> QED
  BY <1>1, <1>2, PTL DEF Spec

(* Every reachable state of the caches is well typed.                      *)
THEOREM TypeCorrect == Spec => []TypeOK
<1>1. IInv => TypeOK
  BY DEF IInv
<1> QED
  BY <1>1, Invariance, PTL

(* A request that starts has a token that is valid for another Slack - Lag *)
(* at least, however long the request goes on.                             *)
THEOREM TokensAreValidWhileFresh == Spec => []ValidWhileFresh
<1>1. IInv => ValidWhileFresh
  <2> SUFFICES ASSUME IInv, NEW t \in Task, task[t].pc = "use"
               PROVE  /\ task[t].token # None
                      /\ now + Lag <= task[t].since + Slack
                            => now < task[t].token + Life
    BY DEF ValidWhileFresh
  <2>1. TaskIsTimely(t) /\ task[t].token \in Nat \cup {None}
        /\ task[t].since \in Nat /\ now \in Nat
    BY TimeIsNat DEF IInv, TypeOK, Record
  <2> QED
    BY <2>1, TimesAssumption DEF TaskIsTimely
<1> QED
  BY <1>1, Invariance, PTL

(* A late answer puts the cache back by a timeout at most.                 *)
THEOREM CacheIsNearlyMonotone == Spec => NewerTokenIsNearlyKept
<1> DEFINE A == (cache.token # None /\ cache'.token # None)
                    => cache.token <= cache'.token + Lag
<1>1. IInv /\ [Next]_vars => [A]_vars
  <2> SUFFICES ASSUME IInv, Next PROVE A
    OBVIOUS
  <2>1. cache.token # None => cache.token \in Nat /\ cache.token <= now
    BY TimeIsNat DEF IInv, TypeOK, CacheIsTimely
  <2>2. ASSUME NEW t \in Task, Arrive(t) PROVE A
    <3>1. /\ cache'.token = task[t].token
          /\ task[t].token \in Nat /\ now \in Nat
          /\ now <= task[t].token + Lag
      BY <2>2, TimeIsNat DEF Arrive, IInv, TypeOK, TaskIsTimely, Record
    <3> QED
      BY <2>1, <3>1, TimesAssumption
  <2>3. CASE Restart
    BY <2>3 DEF Restart, Empty
  <2>4. CASE cache' = cache
    BY <2>1, <2>4, TimesAssumption
  <2> QED
    BY <2>2, <2>3, <2>4 DEF Next, Begin, Locate, Issue, GiveUp, Finish, Tick
<1> QED
  BY <1>1, Invariance, PTL DEF Spec, NewerTokenIsNearlyKept
=============================================================================
