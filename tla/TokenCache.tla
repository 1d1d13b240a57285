----------------------------- MODULE TokenCache -----------------------------
(***************************************************************************)
(* The access tokens that the credential broker and the response clients   *)
(* fetch from GitHub and Atlassian, keep, and put into the requests they   *)
(* forward or make.                                                        *)
(*                                                                         *)
(* There are three caches, each in a process of its own or of a provider   *)
(* of its own; a behaviour is about one of them:                           *)
(*   "app"      installation tokens of the GitHub App, in the broker and   *)
(*              (the same code) in the client that posts GitHub comments;  *)
(*   "broker"   Atlassian tokens of the broker;                            *)
(*   "comment"  Atlassian tokens of the client that posts Jira comments.   *)
(* The tasks of one process share a cache and give up the event loop only  *)
(* while they wait for an answer.                                          *)
(*                                                                         *)
(* Abstracted: the token itself, which is the time at which it was issued; *)
(* the requests that carry it; the check of the caller's identity, which   *)
(* keeps no state.                                                         *)
(***************************************************************************)
EXTENDS Naturals

CONSTANTS
    Task,        \* requests handled at a time
    Life,        \* time for which a token is valid
    Slack,       \* time before its expiry from which it is not used any more
    Lag,         \* time from a token's issue to its arrival, at most: it is
                 \* in the first bytes of the answer that a read waits for
    None,        \* no token
    MaxTime      \* bound: the clock

\* 60 minutes, 10 minutes and 15 s for the App's tokens; 60 minutes, 60 s and
\* 15 s for Atlassian's.
ASSUME TimesAssumption ==
    /\ Life \in Nat /\ Slack \in Nat /\ Lag \in Nat
    /\ Slack < Life
ASSUME NoneAssumption == None \notin Nat
ASSUME MaxTimeAssumption == MaxTime \in Nat

VARIABLES
    kind,        \* which of the caches
    now,
    located,     \* the App's installation is known
    cache,       \* the token kept and the time recorded for it
    task         \* task[t]: where t is, its token, and times it has taken

vars == <<kind, now, located, cache, task>>

Kinds == {"app", "broker", "comment"}

\* A token is the time at which it was issued.
Time == 0..MaxTime

Idle == [pc |-> "idle", token |-> None, asked |-> 0, since |-> 0]
Record == [pc : {"idle", "locate", "ask", "answer", "use", "bare"},
           token : Time \cup {None}, asked : Time, since : Time]

TypeOK ==
    /\ kind \in Kinds
    /\ now \in Time
    /\ located \in BOOLEAN
    /\ cache \in [token : Time \cup {None}, mark : Nat]
    /\ task \in [Task -> Record]

Empty == [token |-> None, mark |-> 0]

\* The installation is a setting of the broker; the comment client looks it
\* up.
Init ==
    /\ kind \in Kinds
    /\ now = 0
    /\ located \in BOOLEAN
    /\ cache = Empty
    /\ task = [t \in Task |-> Idle]

----------------------------------------------------------------------------
(* The three ways to tell whether the token kept may be used, and to record *)
(* the time of a new one                                                    *)

AppMayUse == now < cache.mark
AppMark == now + (Life - Slack)

BrokerMayUseToTheEnd == now < cache.mark   \* mutant: the slack is not taken off

BrokerMayUse == now + Slack < cache.mark
BrokerMark == now + Life

\* The client of Jira counts from the moment it asked.
CommentMayUse == now < cache.mark
CommentMarkWhole(t) == now + Life   \* mutant: neither slack nor waiting counts

CommentMark(t) == task[t].asked + Life - Slack

MayUse ==
    /\ cache.token # None
    /\ \/ kind = "app" /\ AppMayUse
       \/ kind = "broker" /\ BrokerMayUse
       \/ kind = "comment" /\ CommentMayUse

Mark(t) ==
    CASE kind = "app" -> AppMark
      [] kind = "broker" -> BrokerMark
      [] kind = "comment" -> CommentMark(t)

----------------------------------------------------------------------------

Become(t, next) == task' = [task EXCEPT ![t] = next]

\* The token kept is used, or a new one is asked for.
Obtain(t) ==
    Become(t, IF MayUse
              THEN [Idle EXCEPT !.pc = "use", !.token = cache.token, !.since = now]
              ELSE [Idle EXCEPT !.pc = "ask", !.asked = now])

\* A request that needs a credential.
Begin(t) ==
    /\ task[t].pc = "idle"
    /\ IF kind = "app" /\ ~located
       THEN Become(t, [Idle EXCEPT !.pc = "locate"])
       ELSE Obtain(t)
    /\ UNCHANGED <<kind, now, located, cache>>

\* The App's installation for the repository is looked up and kept for good.
\* Without it, the request falls back to the static token.
Locate(t) ==
    /\ task[t].pc = "locate"
    /\ \/ located' = TRUE /\ Obtain(t)
       \/ UNCHANGED located /\ Become(t, [Idle EXCEPT !.pc = "bare"])
    /\ UNCHANGED <<kind, now, cache>>

\* The provider issues a token, which is on its way.
Issue(t) ==
    /\ task[t].pc = "ask"
    /\ Become(t, [task[t] EXCEPT !.pc = "answer", !.token = now])
    /\ UNCHANGED <<kind, now, located, cache>>

ArriveUndated(t) ==   \* mutant: no time is recorded for the token
    /\ task[t].pc = "answer"
    /\ cache' = [token |-> task[t].token, mark |-> None]
    /\ Become(t, [Idle EXCEPT !.pc = "use", !.token = task[t].token,
                              !.since = now])
    /\ UNCHANGED <<kind, now, located>>

\* The token arrives, is kept in place of any other, and is used.
Arrive(t) ==
    /\ task[t].pc = "answer"
    /\ cache' = [token |-> task[t].token, mark |-> Mark(t)]
    /\ Become(t, [Idle EXCEPT !.pc = "use", !.token = task[t].token,
                              !.since = now])
    /\ UNCHANGED <<kind, now, located>>

\* An error, or no answer in time: the request goes on without this token.
GiveUp(t) ==
    /\ task[t].pc \in {"ask", "answer"}
    /\ Become(t, [Idle EXCEPT !.pc = "bare"])
    /\ UNCHANGED <<kind, now, located, cache>>

\* The request has been answered, or has failed.  Its timeouts bound the
\* phases of an exchange, and a redirect starts another: there is no telling
\* how long it takes.
Finish(t) ==
    /\ task[t].pc \in {"use", "bare"}
    /\ Become(t, Idle)
    /\ UNCHANGED <<kind, now, located, cache>>

\* The process starts anew, with nothing kept.
Restart ==
    /\ cache' = Empty
    /\ located' \in BOOLEAN
    /\ task' = [t \in Task |-> Idle]
    /\ UNCHANGED <<kind, now>>

InTimeUnlimited(t) ==   \* mutant: the request for a token has no timeout
    task[t].pc = "answer" => now >= task[t].token

\* No token that was issued is awaited for longer.
InTime(t) == task[t].pc = "answer" => now < task[t].token + Lag

Tick ==
    /\ now < MaxTime
    /\ \A t \in Task : InTime(t)
    /\ now' = now + 1
    /\ UNCHANGED <<kind, located, cache, task>>

Next ==
    \/ \E t \in Task :
        Begin(t) \/ Locate(t) \/ Issue(t) \/ Arrive(t) \/ GiveUp(t) \/ Finish(t)
    \/ Restart \/ Tick

Spec == Init /\ [][Next]_vars

----------------------------------------------------------------------------
(* Properties                                                              *)

\* A request carries a token that is valid at the provider when the request
\* starts and stays so for as long as the slack exceeds the lag, which is 45 s
\* in the broker's requests to Atlassian: although a token's age is counted
\* from its arrival, and tasks that miss the cache together overwrite each
\* other's tokens (github_app.py:75, providers/jira.py:27).
ValidWhileFresh ==
    \A t \in Task :
        task[t].pc = "use" =>
            /\ task[t].token # None
            /\ now + Lag <= task[t].since + Slack => now < task[t].token + Life

\* Of two tasks that miss the cache together, the one whose answer is late
\* replaces the newer token by one that was issued at most a timeout earlier
\* (github_app.py:75).
NewerTokenIsNearlyKept ==
    [][(cache.token # None /\ cache'.token # None)
        => cache.token <= cache'.token + Lag]_vars

\* The time recorded for the token kept is that of its issue, late by at most
\* a timeout where it is counted from the token's arrival.
CacheIsTimely ==
    cache.token # None =>
        /\ cache.token <= now
        /\ kind = "app" => cache.mark <= cache.token + Lag + (Life - Slack)
        /\ kind = "broker" => cache.mark <= cache.token + Lag + Life
        /\ kind = "comment" => cache.mark <= cache.token + Life - Slack

\* A token arrives within its time, and is taken into use while it has the
\* slack left, less what its arrival has taken.
TaskIsTimely(t) ==
    LET k == task[t] IN
    /\ k.asked <= now
    /\ k.pc = "answer" =>
        k.token # None /\ k.asked <= k.token
            /\ k.token <= now /\ now <= k.token + Lag
    /\ k.pc = "use" =>
        k.token # None /\ k.since + Slack < k.token + Life + Lag

\* The invariant that every step preserves, and which implies ValidWhileFresh.
IInv ==
    /\ TypeOK
    /\ CacheIsTimely
    /\ \A t \in Task : TaskIsTimely(t)
=============================================================================
