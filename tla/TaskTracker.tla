----------------------------- MODULE TaskTracker -----------------------------
(***************************************************************************)
(* taskcoro::TaskTracker: tasks hold tokens, and WaitAsync is meant to     *)
(* return when the last of them is given back.  The counter is atomic, the *)
(* flags are under a lock, and the promise is set after the lock has been  *)
(* left, so that a call is several atomic steps and calls interleave.      *)
(*                                                                         *)
(* idled and awaited are history variables: whether anybody has found the  *)
(* counter at zero, and the tokens that were out when a waiter registered. *)
(***************************************************************************)
EXTENDS Integers, FiniteSets

CONSTANTS Tokens,   \* all the tokens that are ever made
          Waiters   \* all the calls of WaitAsync

ASSUME TokensAssumption == IsFiniteSet(Tokens)

VARIABLES active, awaiters, initialized, waiterRegistered, pendingSet,
          resultSet, resultReady, token, waiter, idled, awaited

trackerVars == <<active, awaiters, initialized, waiterRegistered, pendingSet,
                 resultSet, resultReady, token, waiter, idled, awaited>>
flags == <<initialized, waiterRegistered, pendingSet, resultSet>>
------------------------------------------------------------------------------
\* "counted" and "setting" are the places inside OnTaskFinished where another
\* thread may run: behind fetch_sub, and behind the locked block.
TokenStates  == {"none", "held", "counted", "setting", "released"}
WaiterStates == {"idle", "registering", "setting", "awaiting", "returned"}

Held == {t \in Tokens : token[t] = "held"}

TrackerInit ==
    /\ active = 0 /\ awaiters = 0
    /\ initialized = FALSE /\ waiterRegistered = FALSE
    /\ pendingSet = FALSE /\ resultSet = FALSE
    /\ resultReady = 0
    /\ token = [t \in Tokens |-> "none"]
    /\ waiter = [w \in Waiters |-> "idle"]
    /\ idled = FALSE
    /\ awaited = [w \in Waiters |-> {}]

\* Mutant of MakeToken: the token is not counted.
MakeTokenUncounted(t) ==
    /\ token[t] = "none"
    /\ token' = [token EXCEPT ![t] = "held"]
    /\ UNCHANGED <<active, awaiters, flags, resultReady, waiter, idled, awaited>>

MakeToken(t) ==
    /\ token[t] = "none"
    /\ active' = active + 1
    /\ token' = [token EXCEPT ![t] = "held"]
    /\ UNCHANGED <<awaiters, flags, resultReady, waiter, idled, awaited>>
------------------------------------------------------------------------------
\* OnTaskFinished, which the destructor of a token calls.
CountDown(t) ==
    /\ token[t] = "held"
    /\ active' = active - 1
    /\ token' = [token EXCEPT ![t] = IF active = 1 THEN "counted" ELSE "released"]
    /\ idled' = (idled \/ active = 1)
    /\ UNCHANGED <<awaiters, flags, resultReady, waiter, awaited>>

\* The locked block: nothing is left to do, or it is left to a later waiter,
\* or the promise is to be set.
Locks(t, leaves, sets) ==
    /\ token[t] = "counted"
    /\ resultSet' = (resultSet \/ sets)
    /\ pendingSet' = (pendingSet \/ leaves)
    /\ token' = [token EXCEPT ![t] = IF sets THEN "setting" ELSE "released"]
    /\ UNCHANGED <<active, awaiters, initialized, waiterRegistered,
                   resultReady, waiter, idled, awaited>>

\* Mutant: the flag result_set_ is not looked at.
LastTokenLocksTwice(t) ==
    LET waited == initialized /\ waiterRegistered IN Locks(t, ~waited, waited)

LastTokenLocks(t) ==
    LET waited == initialized /\ waiterRegistered
    IN  Locks(t, ~resultSet /\ ~waited, ~resultSet /\ waited)

\* resultReady counts the calls of set_result: a second one would throw.
LastTokenSets(t) ==
    /\ token[t] = "setting"
    /\ resultReady' = resultReady + 1
    /\ token' = [token EXCEPT ![t] = "released"]
    /\ UNCHANGED <<active, awaiters, flags, waiter, idled, awaited>>
------------------------------------------------------------------------------
\* WaitAsync.
Wait(w) ==
    /\ waiter[w] = "idle"
    /\ awaiters' = awaiters + 1
    /\ waiter' = [waiter EXCEPT ![w] = "registering"]
    /\ UNCHANGED <<active, flags, resultReady, token, idled, awaited>>

\* The locked block of WaitAsync, which decides whether to set the promise.
Registers(w, seen, sets) ==
    /\ waiter[w] = "registering"
    /\ initialized' = TRUE
    /\ waiterRegistered' = seen
    /\ resultSet' = (resultSet \/ sets)
    /\ pendingSet' = (pendingSet /\ ~sets)
    /\ waiter' = [waiter EXCEPT ![w] = IF sets THEN "setting" ELSE "awaiting"]
    /\ awaited' = [awaited EXCEPT ![w] = Held]
    /\ idled' = (idled \/ active = 0)
    /\ UNCHANGED <<active, awaiters, resultReady, token>>

\* Mutants of Register: the counter is not looked at; nothing is looked at; the
\* last token is not told that there is a waiter.
RegisterWithoutCount(w) == Registers(w, TRUE, ~resultSet /\ pendingSet)
RegisterAtOnce(w)       == Registers(w, TRUE, ~resultSet)
RegisterUnseen(w)       == Registers(w, waiterRegistered,
                                     ~resultSet /\ (active = 0 \/ pendingSet))

Register(w) == Registers(w, TRUE, ~resultSet /\ (active = 0 \/ pendingSet))

WaiterSets(w) ==
    /\ waiter[w] = "setting"
    /\ resultReady' = resultReady + 1
    /\ waiter' = [waiter EXCEPT ![w] = "awaiting"]
    /\ UNCHANGED <<active, awaiters, flags, token, idled, awaited>>

Return(w) ==
    /\ waiter[w] = "awaiting"
    /\ resultReady > 0
    /\ awaiters' = awaiters - 1
    /\ waiter' = [waiter EXCEPT ![w] = "returned"]
    /\ UNCHANGED <<active, flags, resultReady, token, idled, awaited>>
------------------------------------------------------------------------------
FinishToken(t)  == CountDown(t) \/ LastTokenLocks(t) \/ LastTokenSets(t)
ContinueWait(w) == Register(w) \/ WaiterSets(w) \/ Return(w)

TrackerNext ==
    \/ \E t \in Tokens : MakeToken(t) \/ FinishToken(t)
    \/ \E w \in Waiters : Wait(w) \/ ContinueWait(w)

TrackerSpec == TrackerInit /\ [][TrackerNext]_trackerVars
------------------------------------------------------------------------------
\* Types: the counter is the number of tokens that are out, awaiters the
\* number of calls of WaitAsync that have not returned.
TrackerTypeOK ==
    /\ token \in [Tokens -> TokenStates]
    /\ waiter \in [Waiters -> WaiterStates]
    /\ active \in Nat /\ awaiters \in Int /\ resultReady \in Nat
    /\ initialized \in BOOLEAN /\ waiterRegistered \in BOOLEAN
    /\ pendingSet \in BOOLEAN /\ resultSet \in BOOLEAN /\ idled \in BOOLEAN
    /\ awaited \in [Waiters -> SUBSET Tokens]
    /\ active = Cardinality(Held)

\* Who has decided to set the promise and has not done it yet.
Setters ==
    {<<"token", t>> : t \in {u \in Tokens : token[u] = "setting"}}
  \cup {<<"waiter", w>> : w \in {v \in Waiters : waiter[v] = "setting"}}

\* The promise is set at most once, and only after WaitAsync has made it: a
\* second set_result throws, in a destructor.  Several last tokens and several
\* waiters may be between their locked block and set_result.
PromiseSetOnce ==
    /\ resultReady <= 1
    /\ Setters # {} => resultReady = 0 /\ \A s, r \in Setters : s = r
    /\ resultSet <=> (resultReady = 1 \/ Setters # {})
    /\ resultSet => initialized

\* No wake-up is lost: whoever waits for the promise will be woken by somebody
\* who is about to set it, or by a last token that has yet to look at the
\* flags, or by a token that is still out.
NoLostWakeUp ==
    (\E w \in Waiters : waiter[w] = "awaiting") =>
        \/ resultReady = 1 \/ Setters # {}
        \/ Held # {}
        \/ \E t \in Tokens : token[t] = "counted"

\* What a return does mean: somebody has found the counter at zero.  That the
\* counter is still, or again, at zero does not follow: pendingSet is kept from
\* an earlier time, and the promise can be set only once.
ReturnMeansIdled == (\E w \in Waiters : waiter[w] = "returned") => idled

\* The inductive strengthening of the two properties above: a waiter that has
\* registered has left its note, and from then on the promise is on its way or
\* there is a token to send it; the flags are set only by who has found zero.
WakeInv ==
    /\ waiterRegistered = initialized
    /\ \A w \in Waiters :
          waiter[w] \in {"setting", "awaiting", "returned"} => initialized
    /\ initialized => \/ resultSet
                      \/ Held # {}
                      \/ \E t \in Tokens : token[t] = "counted"
IdleInv ==
    /\ resultSet \/ pendingSet => idled
    /\ \A t \in Tokens : token[t] = "counted" => idled
    /\ \A w \in Waiters : waiter[w] = "returned" => idled
TrackerInv == TrackerTypeOK /\ PromiseSetOnce /\ WakeInv /\ IdleInv
==============================================================================
