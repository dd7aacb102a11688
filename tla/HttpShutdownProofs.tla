-------------------------- MODULE HttpShutdownProofs --------------------------
(***************************************************************************)
(* Proofs about the task tracker, for any finite set of tokens and any     *)
(* number of waiters, and about the updater's use of it.                   *)
(***************************************************************************)
EXTENDS HttpShutdown, FiniteSetTheorems, TLAPS

\* What a step of the tracker does to the tokens that are out.
LEMMA HeldIsFinite == IsFiniteSet(Held) /\ Cardinality(Held) \in Nat
<1>1. IsFiniteSet(Held)
  BY TokensAssumption, FS_Subset DEF Held
<1>. QED BY <1>1, FS_CardinalityType

LEMMA HeldAfterMake ==
    ASSUME NEW t \in Tokens, MakeToken(t), TrackerTypeOK
    PROVE  Held' = Held \cup {t} /\ Cardinality(Held') = Cardinality(Held) + 1
<1>1. Held' = Held \cup {t} /\ t \notin Held
  BY DEF MakeToken, TrackerTypeOK, Held
<1>. QED BY <1>1, HeldIsFinite, FS_AddElement

LEMMA HeldAfterCountDown ==
    ASSUME NEW t \in Tokens, CountDown(t), TrackerTypeOK
    PROVE  Held' = Held \ {t} /\ Cardinality(Held') = Cardinality(Held) - 1
<1>1. Held' = Held \ {t} /\ t \in Held
  BY DEF CountDown, TrackerTypeOK, Held
<1>. QED BY <1>1, HeldIsFinite, FS_RemoveElement

\* The counter tells whether a token is out.
LEMMA CounterIsExact ==
    ASSUME TrackerTypeOK
    PROVE  active = 0 <=> Held = {}
BY HeldIsFinite, FS_EmptySet DEF TrackerTypeOK

-----------------------------------------------------------------------------
LEMMA TypeInit == TrackerInit => TrackerTypeOK
<1>1. TrackerInit => Held = {}
  BY DEF TrackerInit, Held
<1>2. TrackerInit => active = Cardinality(Held)
  BY <1>1, FS_EmptySet DEF TrackerInit
<1>3. TrackerInit => /\ token \in [Tokens -> TokenStates]
                     /\ waiter \in [Waiters -> WaiterStates]
                     /\ awaited \in [Waiters -> SUBSET Tokens]
  BY DEF TrackerInit, TokenStates, WaiterStates
<1>4. TrackerInit => active \in Nat /\ awaiters \in Int /\ resultReady \in Nat
  BY DEF TrackerInit
<1>5. TrackerInit => /\ initialized \in BOOLEAN /\ waiterRegistered \in BOOLEAN
                     /\ pendingSet \in BOOLEAN /\ resultSet \in BOOLEAN
                     /\ idled \in BOOLEAN
  BY Zenon DEF TrackerInit
<1>. QED BY <1>2, <1>3, <1>4, <1>5, Zenon DEF TrackerTypeOK

LEMMA TypeStep ==
    ASSUME TrackerTypeOK, TrackerNext
    PROVE  TrackerTypeOK'
<1>1. CASE \E t \in Tokens : MakeToken(t)
  <2>1. PICK t \in Tokens : MakeToken(t)
    BY <1>1
  <2>2. active' = Cardinality(Held') /\ active' \in Nat
    <3>1. Cardinality(Held') = Cardinality(Held) + 1
      BY <2>1, HeldAfterMake
    <3>. QED BY <2>1, <3>1 DEF TrackerTypeOK, MakeToken
  <2>3. token' \in [Tokens -> TokenStates]
    BY <2>1 DEF TrackerTypeOK, MakeToken, TokenStates
  <2>. QED BY <2>1, <2>2, <2>3 DEF TrackerTypeOK, MakeToken, flags
<1>2. CASE \E t \in Tokens : CountDown(t)
  <2>1. PICK t \in Tokens : CountDown(t)
    BY <1>2
  <2>2. active - 1 \in Nat
    BY <2>1, CounterIsExact DEF CountDown, Held, TrackerTypeOK
  <2>. QED BY <2>1, <2>2, HeldAfterCountDown
       DEF TrackerTypeOK, CountDown, TokenStates, flags
<1>3. CASE \E t \in Tokens : LastTokenLocks(t)
  <2>1. PICK t \in Tokens : LastTokenLocks(t)
    BY <1>3
  <2>2. Held' = Held
    BY <2>1 DEF LastTokenLocks, Locks, Held, TrackerTypeOK
  <2>. QED BY <2>1, <2>2 DEF TrackerTypeOK, LastTokenLocks, Locks, TokenStates
<1>4. CASE \E t \in Tokens : LastTokenSets(t)
  <2>1. PICK t \in Tokens : LastTokenSets(t)
    BY <1>4
  <2>2. Held' = Held
    BY <2>1 DEF LastTokenSets, Held, TrackerTypeOK
  <2>. QED BY <2>1, <2>2 DEF TrackerTypeOK, LastTokenSets, TokenStates, flags
<1>5. CASE \E w \in Waiters : Wait(w) \/ ContinueWait(w)
  <2>1. PICK w \in Waiters : Wait(w) \/ ContinueWait(w)
    BY <1>5
  <2>2. Held' = Held /\ Held \subseteq Tokens
    BY <2>1 DEF Wait, ContinueWait, Register, Registers, WaiterSets, Return, Held
  <2>3. CASE Wait(w)
    BY <2>2, <2>3 DEF TrackerTypeOK, Wait, WaiterStates, flags
  <2>4. CASE Register(w)
    BY <2>2, <2>4 DEF TrackerTypeOK, Register, Registers, WaiterStates
  <2>5. CASE WaiterSets(w)
    BY <2>2, <2>5 DEF TrackerTypeOK, WaiterSets, WaiterStates, flags
  <2>6. CASE Return(w)
    BY <2>2, <2>6 DEF TrackerTypeOK, Return, WaiterStates, flags
  <2>. QED BY <2>1, <2>3, <2>4, <2>5, <2>6 DEF ContinueWait
<1>. QED BY <1>1, <1>2, <1>3, <1>4, <1>5 DEF TrackerNext, FinishToken

-----------------------------------------------------------------------------
\* Who is about to set the promise, after each kind of step.
LEMMA SettersAfterToken ==
    ASSUME TrackerTypeOK, NEW t \in Tokens, UNCHANGED waiter, NEW to \in TokenStates,
           token' = [token EXCEPT ![t] = to]
    PROVE  Setters' = IF to = "setting" THEN Setters \cup {<<"token", t>>}
                                        ELSE Setters \ {<<"token", t>>}
<1>1. \A u \in Tokens : token'[u] = IF u = t THEN to ELSE token[u]
  BY DEF TrackerTypeOK
<1>. QED BY <1>1 DEF Setters

LEMMA SettersAfterWaiter ==
    ASSUME TrackerTypeOK, NEW w \in Waiters, UNCHANGED token, NEW to \in WaiterStates,
           waiter' = [waiter EXCEPT ![w] = to]
    PROVE  Setters' = IF to = "setting" THEN Setters \cup {<<"waiter", w>>}
                                        ELSE Setters \ {<<"waiter", w>>}
<1>1. \A v \in Waiters : waiter'[v] = IF v = w THEN to ELSE waiter[v]
  BY DEF TrackerTypeOK
<1>. QED BY <1>1 DEF Setters

LEMMA TokenSetter ==
    ASSUME NEW t \in Tokens
    PROVE  <<"token", t>> \in Setters <=> token[t] = "setting"
BY DEF Setters

LEMMA WaiterSetter ==
    ASSUME NEW w \in Waiters
    PROVE  <<"waiter", w>> \in Setters <=> waiter[w] = "setting"
BY DEF Setters

\* Every step either leaves the promise's state alone, decides to set the
\* promise while nobody else has, or sets it.
LEMMA PromiseSteps ==
    ASSUME TrackerTypeOK, TrackerNext
    PROVE  \/ /\ Setters' = Setters /\ resultReady' = resultReady
              /\ resultSet' = resultSet /\ (initialized => initialized')
           \/ /\ ~resultSet /\ resultSet' /\ initialized'
              /\ resultReady' = resultReady
              /\ \E s : Setters' = Setters \cup {s}
           \/ /\ resultSet' = resultSet /\ initialized' = initialized
              /\ resultReady' = resultReady + 1
              /\ \E s \in Setters : Setters' = Setters \ {s}
<1>1. ASSUME NEW t \in Tokens, MakeToken(t) \/ CountDown(t)
      PROVE  /\ Setters' = Setters /\ UNCHANGED <<resultReady, flags>>
  <2>1. <<"token", t>> \notin Setters
    BY <1>1, TokenSetter DEF MakeToken, CountDown
  <2>2. \E to \in TokenStates \ {"setting"} : token' = [token EXCEPT ![t] = to]
    BY <1>1 DEF MakeToken, CountDown, TokenStates
  <2>3. UNCHANGED <<waiter, resultReady, flags>>
    BY <1>1 DEF MakeToken, CountDown
  <2>4. PICK to \in TokenStates \ {"setting"} : token' = [token EXCEPT ![t] = to]
    BY <2>2
  <2>5. UNCHANGED waiter
    BY <2>3
  <2>6. Setters' = Setters \ {<<"token", t>>}
    BY <2>4, <2>5, SettersAfterToken
  <2>. QED BY <2>1, <2>3, <2>6
<1>2. ASSUME NEW t \in Tokens, LastTokenLocks(t)
      PROVE  \/ /\ Setters' = Setters /\ UNCHANGED <<resultReady, resultSet, initialized>>
             \/ /\ ~resultSet /\ resultSet' /\ initialized'
                /\ resultReady' = resultReady
                /\ Setters' = Setters \cup {<<"token", t>>}
  <2>1. <<"token", t>> \notin Setters /\ UNCHANGED <<waiter, resultReady, initialized>>
    BY <1>2, TokenSetter DEF LastTokenLocks, Locks
  <2>2. CASE ~resultSet /\ initialized /\ waiterRegistered
    <3>1. token' = [token EXCEPT ![t] = "setting"] /\ resultSet'
      BY <1>2, <2>2 DEF LastTokenLocks, Locks
    <3>. QED BY <2>1, <2>2, <3>1, SettersAfterToken DEF TokenStates
  <2>3. CASE ~(~resultSet /\ initialized /\ waiterRegistered)
    <3>1. token' = [token EXCEPT ![t] = "released"]
      BY <1>2, <2>3 DEF LastTokenLocks, Locks
    <3>2. resultSet' = resultSet
      BY <1>2, <2>3, Zenon DEF LastTokenLocks, Locks, TrackerTypeOK
    <3>3. "released" \in TokenStates /\ UNCHANGED waiter
      BY <2>1 DEF TokenStates
    <3>4. Setters' = Setters \ {<<"token", t>>}
      BY <3>1, <3>3, SettersAfterToken
    <3>. QED BY <2>1, <3>2, <3>4
  <2>. QED BY <2>2, <2>3
<1>3. ASSUME NEW t \in Tokens, LastTokenSets(t)
      PROVE  /\ UNCHANGED <<resultSet, initialized>> /\ resultReady' = resultReady + 1
             /\ <<"token", t>> \in Setters /\ Setters' = Setters \ {<<"token", t>>}
  <2>1. <<"token", t>> \in Setters
    BY <1>3, TokenSetter DEF LastTokenSets
  <2>2. token' = [token EXCEPT ![t] = "released"] /\ UNCHANGED waiter
    BY <1>3 DEF LastTokenSets
  <2>3. Setters' = Setters \ {<<"token", t>>}
    BY <2>2, SettersAfterToken DEF TokenStates
  <2>. QED BY <1>3, <2>1, <2>3 DEF LastTokenSets, flags
<1>4. ASSUME NEW w \in Waiters, Wait(w) \/ Return(w)
      PROVE  /\ Setters' = Setters /\ UNCHANGED <<resultReady, flags>>
  <2>1. <<"waiter", w>> \notin Setters
    BY <1>4, WaiterSetter DEF Wait, Return
  <2>2. \E to \in WaiterStates \ {"setting"} : waiter' = [waiter EXCEPT ![w] = to]
    BY <1>4 DEF Wait, Return, WaiterStates
  <2>3. UNCHANGED <<token, resultReady, flags>>
    BY <1>4 DEF Wait, Return
  <2>4. PICK to \in WaiterStates \ {"setting"} : waiter' = [waiter EXCEPT ![w] = to]
    BY <2>2
  <2>5. UNCHANGED token
    BY <2>3
  <2>6. Setters' = Setters \ {<<"waiter", w>>}
    BY <2>4, <2>5, SettersAfterWaiter
  <2>. QED BY <2>1, <2>3, <2>6
<1>5. ASSUME NEW w \in Waiters, Register(w)
      PROVE  \/ /\ Setters' = Setters /\ UNCHANGED <<resultReady, resultSet>> /\ initialized'
             \/ /\ ~resultSet /\ resultSet' /\ initialized'
                /\ resultReady' = resultReady
                /\ Setters' = Setters \cup {<<"waiter", w>>}
  <2>1. <<"waiter", w>> \notin Setters /\ UNCHANGED <<token, resultReady>> /\ initialized'
    BY <1>5, WaiterSetter DEF Register, Registers
  <2>2. CASE ~resultSet /\ (active = 0 \/ pendingSet)
    <3>1. waiter' = [waiter EXCEPT ![w] = "setting"] /\ resultSet'
      BY <1>5, <2>2 DEF Register, Registers
    <3>. QED BY <2>1, <2>2, <3>1, SettersAfterWaiter DEF WaiterStates
  <2>3. CASE ~(~resultSet /\ (active = 0 \/ pendingSet))
    <3>1. waiter' = [waiter EXCEPT ![w] = "awaiting"]
      BY <1>5, <2>3 DEF Register, Registers
    <3>2. resultSet' = resultSet
      BY <1>5, <2>3, Zenon DEF Register, Registers, TrackerTypeOK
    <3>3. "awaiting" \in WaiterStates /\ UNCHANGED token
      BY <2>1 DEF WaiterStates
    <3>4. Setters' = Setters \ {<<"waiter", w>>}
      BY <3>1, <3>3, SettersAfterWaiter
    <3>. QED BY <2>1, <3>2, <3>4
  <2>. QED BY <2>2, <2>3
<1>6. ASSUME NEW w \in Waiters, WaiterSets(w)
      PROVE  /\ UNCHANGED <<resultSet, initialized>> /\ resultReady' = resultReady + 1
             /\ <<"waiter", w>> \in Setters /\ Setters' = Setters \ {<<"waiter", w>>}
  <2>1. <<"waiter", w>> \in Setters
    BY <1>6, WaiterSetter DEF WaiterSets
  <2>2. waiter' = [waiter EXCEPT ![w] = "awaiting"] /\ UNCHANGED token
    BY <1>6 DEF WaiterSets
  <2>3. Setters' = Setters \ {<<"waiter", w>>}
    BY <2>2, SettersAfterWaiter DEF WaiterStates
  <2>. QED BY <1>6, <2>1, <2>3 DEF WaiterSets, flags
<1>. QED BY <1>1, <1>2, <1>3, <1>4, <1>5, <1>6
     DEF TrackerNext, FinishToken, ContinueWait, flags

LEMMA PromiseStep ==
    ASSUME TrackerTypeOK, PromiseSetOnce, TrackerNext
    PROVE  PromiseSetOnce'
BY PromiseSteps DEF PromiseSetOnce, TrackerTypeOK

\* Whoever waits has left a note, and somebody will send the promise.
LEMMA WakeStep ==
    ASSUME TrackerTypeOK, PromiseSetOnce, WakeInv, TrackerNext
    PROVE  WakeInv'
<1>1. ASSUME NEW t \in Tokens, MakeToken(t)
      PROVE  WakeInv'
  <2>1. Held' # {}
    BY <1>1, HeldAfterMake
  <2>2. UNCHANGED <<waiter, initialized, waiterRegistered>>
    BY <1>1 DEF MakeToken, flags
  <2>. QED BY <2>1, <2>2 DEF WakeInv
<1>2. ASSUME NEW t \in Tokens, CountDown(t)
      PROVE  WakeInv'
  <2>1. UNCHANGED <<waiter, initialized, waiterRegistered, resultSet>>
    BY <1>2 DEF CountDown, flags
  <2>2. CASE active = 1
    <3>1. token'[t] = "counted"
      BY <1>2, <2>2 DEF CountDown, TrackerTypeOK
    <3>. QED BY <2>1, <3>1 DEF WakeInv
  <2>3. CASE active # 1
    <3>1. active' # 0 /\ TrackerTypeOK'
      <4>1. active' # 0
        BY <1>2, <2>3 DEF CountDown, TrackerTypeOK
      <4>. QED BY <4>1, TypeStep
    <3>2. Held' # {}
      <4>1. IsFiniteSet(Held') /\ active' = Cardinality(Held')
        BY <1>2, <3>1, HeldAfterCountDown, HeldIsFinite, FS_RemoveElement DEF TrackerTypeOK
      <4>. QED BY <3>1, <4>1, FS_EmptySet
    <3>. QED BY <2>1, <3>2 DEF WakeInv
  <2>. QED BY <2>2, <2>3
<1>3. ASSUME NEW t \in Tokens, LastTokenLocks(t)
      PROVE  WakeInv'
  <2>1. UNCHANGED <<waiter, initialized, waiterRegistered>>
    BY <1>3 DEF LastTokenLocks, Locks
  <2>2. initialized => resultSet'
    BY <1>3 DEF LastTokenLocks, Locks, WakeInv
  <2>. QED BY <2>1, <2>2 DEF WakeInv
<1>4. ASSUME NEW t \in Tokens, LastTokenSets(t)
      PROVE  WakeInv'
  <2>1. UNCHANGED <<waiter, initialized, waiterRegistered>> /\ resultSet' = resultSet
    BY <1>4 DEF LastTokenSets, flags
  <2>2. resultSet
    BY <1>4, TokenSetter DEF LastTokenSets, PromiseSetOnce
  <2>. QED BY <2>1, <2>2 DEF WakeInv
<1>5. ASSUME NEW w \in Waiters, Wait(w) \/ WaiterSets(w) \/ Return(w)
      PROVE  WakeInv'
  <2>1. UNCHANGED <<token, initialized, waiterRegistered, resultSet>>
    BY <1>5 DEF Wait, WaiterSets, Return, flags
  <2>2. Held' = Held
    BY <2>1 DEF Held
  <2>3. \A v \in Waiters : waiter'[v] \in {"setting", "awaiting", "returned"} => initialized
    BY <1>5 DEF Wait, WaiterSets, Return, WakeInv, TrackerTypeOK
  <2>. QED BY <2>1, <2>2, <2>3 DEF WakeInv
<1>6. ASSUME NEW w \in Waiters, Register(w)
      PROVE  WakeInv'
  <2>1. initialized' /\ waiterRegistered' /\ UNCHANGED token
    BY <1>6 DEF Register, Registers
  <2>2. Held' = Held
    BY <2>1 DEF Held
  <2>3. resultSet' \/ active # 0
    BY <1>6 DEF Register, Registers
  <2>4. resultSet' \/ Held # {}
    BY <2>3, CounterIsExact
  <2>5. waiterRegistered' = initialized'
    BY <1>6, Zenon DEF Register, Registers
  <2>. QED BY <2>1, <2>2, <2>4, <2>5 DEF WakeInv
<1>. QED BY <1>1, <1>2, <1>3, <1>4, <1>5, <1>6 DEF TrackerNext, FinishToken, ContinueWait

\* Only who has found the counter at zero touches the flags.
LEMMA IdleStep ==
    ASSUME TrackerTypeOK, PromiseSetOnce, IdleInv, TrackerNext
    PROVE  IdleInv'
<1>1. ASSUME NEW t \in Tokens, MakeToken(t) \/ CountDown(t) \/ LastTokenLocks(t) \/ LastTokenSets(t)
      PROVE  IdleInv'
  <2>1. idled => idled'
    BY <1>1 DEF MakeToken, CountDown, LastTokenLocks, Locks, LastTokenSets
  <2>2. UNCHANGED waiter
    BY <1>1 DEF MakeToken, CountDown, LastTokenLocks, Locks, LastTokenSets
  <2>3. resultSet' \/ pendingSet' => idled'
    BY <1>1, <2>1 DEF MakeToken, CountDown, LastTokenLocks, Locks, LastTokenSets, flags, IdleInv
  <2>4. \A u \in Tokens : token'[u] = "counted" => token[u] = "counted" \/ idled'
    BY <1>1 DEF MakeToken, CountDown, LastTokenLocks, Locks, LastTokenSets, TrackerTypeOK
  <2>. QED BY <2>1, <2>2, <2>3, <2>4 DEF IdleInv
<1>2. ASSUME NEW w \in Waiters, Wait(w) \/ Register(w) \/ WaiterSets(w) \/ Return(w)
      PROVE  IdleInv'
  <2>1. idled => idled'
    BY <1>2 DEF Wait, Register, Registers, WaiterSets, Return
  <2>2. UNCHANGED token
    BY <1>2 DEF Wait, Register, Registers, WaiterSets, Return
  <2>3. resultSet' \/ pendingSet' => idled'
    BY <1>2, <2>1 DEF Wait, Register, Registers, WaiterSets, Return, flags, IdleInv
  <2>4. \A v \in Waiters : waiter'[v] = "returned" => waiter[v] = "returned" \/ resultReady > 0
    BY <1>2 DEF Wait, Register, Registers, WaiterSets, Return, TrackerTypeOK
  <2>5. resultReady > 0 => resultSet
    BY DEF PromiseSetOnce, TrackerTypeOK
  <2>. QED BY <2>1, <2>2, <2>3, <2>4, <2>5 DEF IdleInv
<1>. QED BY <1>1, <1>2 DEF TrackerNext, FinishToken, ContinueWait

-----------------------------------------------------------------------------
LEMMA TrackerInvInit == TrackerInit => TrackerInv
<1>1. TrackerInit => Setters = {}
  BY DEF TrackerInit, Setters
<1>2. TrackerInit => PromiseSetOnce
  BY <1>1 DEF TrackerInit, PromiseSetOnce
<1>3. TrackerInit => WakeInv /\ IdleInv
  BY DEF TrackerInit, WakeInv, IdleInv
<1>. QED BY <1>2, <1>3, TypeInit DEF TrackerInv

LEMMA TrackerInvStep == TrackerInv /\ [TrackerNext]_trackerVars => TrackerInv'
<1>. SUFFICES ASSUME TrackerInv, [TrackerNext]_trackerVars
              PROVE  TrackerInv'
  OBVIOUS
<1>1. CASE TrackerNext
  BY <1>1, TypeStep, PromiseStep, WakeStep, IdleStep DEF TrackerInv
<1>2. CASE UNCHANGED trackerVars
  <2>1. TrackerTypeOK'
    BY <1>2 DEF trackerVars, TrackerInv, TrackerTypeOK, Held
  <2>2. PromiseSetOnce'
    BY <1>2 DEF trackerVars, TrackerInv, PromiseSetOnce, Setters
  <2>3. WakeInv' /\ IdleInv'
    BY <1>2 DEF trackerVars, TrackerInv, WakeInv, IdleInv, Held
  <2>. QED BY <2>1, <2>2, <2>3 DEF TrackerInv
<1>. QED BY <1>1, <1>2

\* The strengthened invariant, for any tokens and any waiters of a tracker.
THEOREM TrackerInvariant == TrackerSpec => []TrackerInv
BY TrackerInvInit, TrackerInvStep, PTL DEF TrackerSpec

\* Types of the updater's threads.  That the coroutine ends without a token, and
\* that the UI thread has waited, is part of it.
LEMMA ShutdownTypeInit == Init => ShutdownTypeOK
BY DEF Init, TrackerInit, ShutdownTypeOK, CoroutineStates, UIStates, Posts

\* The tokens of the post the coroutine is in are tokens of the tracker.
LEMMA PostTokensAreTokens ==
    ASSUME NEW p \in Posts
    PROVE  <<p, "coroutine">> \in Tokens /\ <<p, "io">> \in Tokens /\ UI \in Waiters
BY ServiceAssumption DEF PostTokens

\* A step of the updater's threads is a step of one token or of the waiter, or
\* no step of the tracker.
LEMMA UpdaterStepCases ==
    ASSUME ShutdownTypeOK, [Next]_allVars
    PROVE  [TrackerNext]_trackerVars
<1>1. CASE CoroutineStep
  <2>1. Coro \in Tokens /\ IO \in Tokens
    BY PostTokensAreTokens DEF ShutdownTypeOK, Coro, IO
  <2>2. MakeToken(Coro) \/ MakeToken(IO) \/ FinishToken(Coro) \/ UNCHANGED trackerVars
    BY <1>1 DEF CoroutineStep, PostAsync, SkipPost, NoAddress, RunIO, PostReturns,
                CoroutineTokenStep, PostDone
  <2>. QED BY <2>1, <2>2 DEF TrackerNext
<1>2. CASE \E p \in Posts : IOStep(p)
  <2>1. PICK p \in Posts : IOStep(p)
    BY <1>2
  <2>2. FinishToken(<<p, "io">>) \/ UNCHANGED trackerVars
    BY <2>1 DEF IOStep, PostInternalEnds, IOTokenStep
  <2>. QED BY <2>2, PostTokensAreTokens DEF TrackerNext
<1>3. CASE CancelUpdate \/ OnExit
  BY <1>3 DEF CancelUpdate, OnExit
<1>4. CASE UIStep
  <2>1. Wait(UI) \/ ContinueWait(UI) \/ UNCHANGED trackerVars
    BY <1>4 DEF UIStep, ShutdownAsync, WaitStep, Destroy
  <2>2. UI \in Waiters
    BY ServiceAssumption
  <2>. QED BY <2>1, <2>2 DEF TrackerNext
<1>5. CASE UNCHANGED allVars
  BY <1>5 DEF allVars
<1>. QED BY <1>1, <1>2, <1>3, <1>4, <1>5 DEF Next

\* Only the post the coroutine is in has a token of the coroutine out, and only
\* between PostAsync and PostDone.
OneCoroutineToken ==
    /\ coroutine \in {"starting", "done"} => token[Coro] # "held"
    /\ \A p \in Posts \ {post} : token[<<p, "coroutine">>] # "held"

\* The states and the tokens: no token but the one that is made becomes held.
LEMMA FinishHoldsNothing ==
    ASSUME NEW t \in Tokens, FinishToken(t), NEW u \in Tokens, TrackerTypeOK,
           token[u] # "held"
    PROVE  token'[u] # "held"
BY DEF FinishToken, CountDown, LastTokenLocks, Locks, LastTokenSets, TrackerTypeOK

LEMMA MakeHoldsOne ==
    ASSUME NEW t \in Tokens, MakeToken(t), NEW u \in Tokens, u # t, TrackerTypeOK
    PROVE  token'[u] = token[u]
BY DEF MakeToken, TrackerTypeOK

LEMMA OneCoroutineTokenStep ==
    ASSUME TrackerTypeOK, ShutdownTypeOK, OneCoroutineToken, [Next]_allVars
    PROVE  OneCoroutineToken'
<1>0. post \in Posts
  BY DEF ShutdownTypeOK
<1>1. CASE UNCHANGED token /\ UNCHANGED <<coroutine, post>>
  BY <1>1 DEF OneCoroutineToken, Coro
<1>2. CASE PostAsync
  <2>1. \A p \in Posts \ {post} : token'[<<p, "coroutine">>] = token[<<p, "coroutine">>]
    BY <1>2, <1>0, MakeHoldsOne, PostTokensAreTokens DEF PostAsync, Coro
  <2>2. coroutine' = "address" /\ post' = post
    BY <1>2 DEF PostAsync
  <2>. QED BY <2>1, <2>2 DEF OneCoroutineToken
<1>3. CASE RunIO
  <2>1. MakeToken(IO) /\ coroutine' = "sending" /\ post' = post
    BY <1>3 DEF RunIO
  <2>2. \A p \in Posts : token'[<<p, "coroutine">>] = token[<<p, "coroutine">>]
    BY <2>1, <1>0, MakeHoldsOne, PostTokensAreTokens DEF IO
  <2>. QED BY <2>1, <2>2 DEF OneCoroutineToken
<1>4. CASE SkipPost \/ PostDone
  <2>1. UNCHANGED token /\ token[Coro] # "held"
    BY <1>4 DEF SkipPost, PostDone, OneCoroutineToken, trackerVars
  <2>2. \A p \in Posts : token'[<<p, "coroutine">>] # "held"
    BY <2>1 DEF OneCoroutineToken, Coro
  <2>3. post' \in Posts
    BY <1>4, <1>0 DEF SkipPost, PostDone, Posts
  <2>. QED BY <2>2, <2>3 DEF OneCoroutineToken, Coro
<1>5. ASSUME NEW t \in Tokens, FinishToken(t), UNCHANGED <<coroutine, post>>
      PROVE  OneCoroutineToken'
  <2>1. \A p \in Posts : token[<<p, "coroutine">>] # "held" => token'[<<p, "coroutine">>] # "held"
    BY <1>5, FinishHoldsNothing, PostTokensAreTokens
  <2>. QED BY <1>5, <1>0, <2>1 DEF OneCoroutineToken, Coro
<1>6. CASE CoroutineTokenStep
  BY <1>6, <1>5, <1>0, PostTokensAreTokens DEF CoroutineTokenStep, Coro, shutdownVars
<1>7. CASE NoAddress \/ PostReturns
  BY <1>7 DEF NoAddress, PostReturns, OneCoroutineToken, Coro, trackerVars
<1>8. ASSUME NEW p \in Posts, IOStep(p)
      PROVE  OneCoroutineToken'
  <2>1. CASE PostInternalEnds(p)
    BY <2>1, <1>1 DEF PostInternalEnds, trackerVars
  <2>2. CASE IOTokenStep(p)
    BY <2>2, <1>5, PostTokensAreTokens DEF IOTokenStep, shutdownVars
  <2>. QED BY <1>8, <2>1, <2>2 DEF IOStep
<1>9. CASE UIStep \/ CancelUpdate \/ OnExit
  BY <1>9, <1>1 DEF UIStep, ShutdownAsync, WaitStep, Destroy, CancelUpdate, OnExit, Wait,
                    ContinueWait, Register, Registers, WaiterSets, Return, trackerVars
<1>10. CASE UNCHANGED allVars
  BY <1>10, <1>1 DEF allVars, trackerVars, shutdownVars
<1>. QED BY <1>2, <1>3, <1>4, <1>6, <1>7, <1>8, <1>9, <1>10 DEF Next, CoroutineStep

LEMMA ShutdownTypeStep ==
    ASSUME TrackerTypeOK, ShutdownTypeOK, OneCoroutineToken, [Next]_allVars
    PROVE  ShutdownTypeOK'
<1>1. post' \in Posts /\ coroutine' \in CoroutineStates
  BY DEF ShutdownTypeOK, Posts, CoroutineStates, Next, CoroutineStep, PostAsync, SkipPost,
         NoAddress, RunIO, PostReturns, CoroutineTokenStep, PostDone, IOStep, PostInternalEnds,
         IOTokenStep, CancelUpdate, OnExit, UIStep, ShutdownAsync, WaitStep, Destroy,
         shutdownVars, allVars
<1>2. cancelled' \subseteq Sources /\ answered' \subseteq Posts
  BY DEF ShutdownTypeOK, Sources, Next, CoroutineStep, PostAsync, SkipPost,
         NoAddress, RunIO, PostReturns, CoroutineTokenStep, PostDone, IOStep, PostInternalEnds,
         IOTokenStep, CancelUpdate, OnExit, UIStep, ShutdownAsync, WaitStep, Destroy,
         shutdownVars, allVars
<1>3. OneCoroutineToken'
  BY OneCoroutineTokenStep
<1>4. coroutine' = "done" => \A p \in Posts : token'[<<p, "coroutine">>] # "held"
  BY <1>1, <1>3 DEF OneCoroutineToken, Coro
<1>5. CASE UIStep \/ OnExit
  <2>1. ui' \in UIStates
    BY <1>5 DEF UIStep, ShutdownAsync, WaitStep, Destroy, OnExit, UIStates
  <2>2. ui' \in {"joining", "destroyed"} => waiter'[UI] = "returned"
    BY <1>5 DEF UIStep, ShutdownAsync, WaitStep, Destroy, OnExit, trackerVars, ShutdownTypeOK
  <2>. QED BY <1>1, <1>2, <1>4, <2>1, <2>2 DEF ShutdownTypeOK
<1>6. CASE ~(UIStep \/ OnExit)
  <2>1. UNCHANGED <<ui, waiter>>
    BY <1>6 DEF Next, CoroutineStep, PostAsync, SkipPost, NoAddress, RunIO, PostReturns,
                CoroutineTokenStep, PostDone, IOStep, PostInternalEnds, IOTokenStep,
                CancelUpdate, MakeToken, FinishToken, CountDown, LastTokenLocks, Locks,
                LastTokenSets, shutdownVars, trackerVars, allVars
  <2>. QED BY <1>1, <1>2, <1>4, <2>1 DEF ShutdownTypeOK
<1>. QED BY <1>5, <1>6

LEMMA ShutdownInvInit == Init => TrackerInv /\ ShutdownTypeOK /\ OneCoroutineToken
<1>. SUFFICES ASSUME Init PROVE TrackerInv /\ ShutdownTypeOK /\ OneCoroutineToken
  OBVIOUS
<1>1. \A p \in Posts : token[<<p, "coroutine">>] = "none"
  BY PostTokensAreTokens DEF Init, TrackerInit
<1>2. OneCoroutineToken
  BY <1>1 DEF OneCoroutineToken, Coro, Init
<1>. QED BY <1>2, TrackerInvInit, ShutdownTypeInit DEF Init

LEMMA ShutdownInvStep ==
    TrackerInv /\ ShutdownTypeOK /\ OneCoroutineToken /\ [Next]_allVars
        => (TrackerInv /\ ShutdownTypeOK /\ OneCoroutineToken)'
BY UpdaterStepCases, TrackerInvStep, ShutdownTypeStep, OneCoroutineTokenStep DEF TrackerInv

\* The updater keeps the types, and with them the order of its own steps.
THEOREM ShutdownTypeCorrect == Spec => []ShutdownTypeOK
BY ShutdownInvInit, ShutdownInvStep, PTL DEF Spec

\* What the updater does to its tracker is something a tracker allows, so that
\* what is proved of any tracker holds of this one.
THEOREM UpdaterUsesTracker == Spec => TrackerSpec
<1>1. Init => TrackerInit
  BY DEF Init
<1>2. ShutdownTypeOK /\ [Next]_allVars => [TrackerNext]_trackerVars
  BY UpdaterStepCases
<1>. QED BY <1>1, <1>2, ShutdownTypeCorrect, PTL DEF Spec, TrackerSpec

\* The counter of the tracker is the number of tokens that are out.
THEOREM TrackerTypeCorrect == TrackerSpec => []TrackerTypeOK
BY TrackerInvariant, PTL DEF TrackerInv

\* set_result is called at most once, whatever the interleaving.
THEOREM PromiseIsSetOnce == TrackerSpec => []PromiseSetOnce
BY TrackerInvariant, PTL DEF TrackerInv

\* No waiter sleeps with nobody left to wake it.
THEOREM NoWakeUpIsLost == TrackerSpec => []NoLostWakeUp
<1>1. TrackerInv => NoLostWakeUp
  BY DEF TrackerInv, PromiseSetOnce, WakeInv, NoLostWakeUp
<1>. QED BY <1>1, TrackerInvariant, PTL

\* A waiter returns only if somebody has found the counter at zero.
THEOREM ReturnsMeanIdled == TrackerSpec => []ReturnMeansIdled
<1>1. TrackerInv => ReturnMeansIdled
  BY DEF TrackerInv, IdleInv, ReturnMeansIdled
<1>. QED BY <1>1, TrackerInvariant, PTL
=============================================================================
