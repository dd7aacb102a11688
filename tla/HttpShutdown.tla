---------------------------- MODULE HttpShutdown ----------------------------
(***************************************************************************)
(* How the updater uses TaskTracker.  Its coroutine runs in the thread     *)
(* pool: NextUpdater::Start, which posts "launcher_update", and then the   *)
(* request of the branch list, which posts "branch_list".  A post is a     *)
(* coroutine and an IO task, each with a token of its own.  The UI thread  *)
(* cancels, and when the coroutine is done or the window is closed it      *)
(* shuts the HTTP service down, waits, and destroys the updater and the    *)
(* service, to which the coroutine and the IO tasks hold bare pointers.    *)
(***************************************************************************)
EXTENDS TaskTracker

Posts == {"launcher_update", "branch_list"}
PostTokens == Posts \X {"coroutine", "io"}
UI == "ui"

ASSUME ServiceAssumption == Tokens = PostTokens /\ Waiters = {UI}

VARIABLES coroutine,   \* where the updater's coroutine is
          post,        \* the post it is in, or is going to make
          cancelled,   \* the cancellation tokens that have been set
          ui,          \* where the UI thread is
          answered     \* the IO tasks whose result is there

shutdownVars == <<coroutine, post, cancelled, ui, answered>>
allVars == <<trackerVars, shutdownVars>>

CoroutineStates == {"starting", "address", "sending", "cleanup", "done"}
UIStates == {"running", "closing", "waiting", "joining", "destroyed"}
Sources == {"next_updater", "updater", "service"}

Init ==
    /\ TrackerInit
    /\ coroutine = "starting"
    /\ post \in Posts   \* "branch_list" at once with UpdaterFlags::None
    /\ cancelled = {}
    /\ ui = "running"
    /\ answered = {}

Coro == <<post, "coroutine">>
IO   == <<post, "io">>

\* The linked token of a post: the service's own, and that of its caller.
PostCancelled ==
    \/ "service" \in cancelled
    \/ (IF post = "launcher_update" THEN "next_updater" ELSE "updater") \in cancelled
------------------------------------------------------------------------------
\* The updater's coroutine.
PostAsync ==
    /\ coroutine = "starting"
    /\ MakeToken(Coro)
    /\ coroutine' = "address"
    /\ UNCHANGED <<post, cancelled, ui, answered>>

\* NextUpdater::Start gives up before its post when it has been cancelled or
\* the old backup cannot be cleared; the branch list is requested all the same.
SkipPost ==
    /\ coroutine = "starting" /\ post = "launcher_update"
    /\ post' = "branch_list"
    /\ UNCHANGED <<trackerVars, coroutine, cancelled, ui, answered>>

\* InitializeBackendAddressIfNeeded may throw when the post is cancelled.
NoAddress ==
    /\ coroutine = "address"
    /\ PostCancelled
    /\ coroutine' = "cleanup"
    /\ UNCHANGED <<trackerVars, post, cancelled, ui, answered>>

\* The IO task gets its own token before it is started.
RunIO ==
    /\ coroutine = "address"
    /\ MakeToken(IO)
    /\ coroutine' = "sending"
    /\ UNCHANGED <<post, cancelled, ui, answered>>

\* PostInternal ends: an answer, an error, a timeout or its own cancellation.
PostInternalEnds(p) ==
    /\ token[<<p, "io">>] = "held" /\ p \notin answered
    /\ answered' = answered \cup {p}
    /\ UNCHANGED <<trackerVars, coroutine, post, cancelled, ui>>

\* The task that has ended is destroyed with its token, in its own thread.
IOTokenStep(p) ==
    /\ p \in answered
    /\ FinishToken(<<p, "io">>)
    /\ UNCHANGED shutdownVars

\* WithCancellation returns on an answer or on cancellation.
PostReturns ==
    /\ coroutine = "sending"
    /\ PostCancelled \/ post \in answered
    /\ coroutine' = "cleanup"
    /\ UNCHANGED <<trackerVars, post, cancelled, ui, answered>>

CoroutineTokenStep ==
    /\ coroutine = "cleanup"
    /\ FinishToken(Coro)
    /\ UNCHANGED shutdownVars

\* Mutant of PostDone: the coroutine is seen as done before its token is gone.
PostDoneEarly ==
    /\ coroutine = "cleanup"
    /\ coroutine' = "done" /\ post' = post
    /\ UNCHANGED <<trackerVars, cancelled, ui, answered>>

\* Start goes on to update files; a connection error ends the coroutine, all
\* else leads to the second post.  Cancelled or not, that one is made.
PostDone ==
    /\ coroutine = "cleanup" /\ token[Coro] = "released"
    /\ \/ /\ post = "launcher_update"
          /\ post' = "branch_list" /\ coroutine' = "starting"
       \/ coroutine' = "done" /\ post' = post
    /\ UNCHANGED <<trackerVars, cancelled, ui, answered>>
------------------------------------------------------------------------------
\* The UI thread.  The exit button and the timeout of a state cancel both.
CancelUpdate ==
    /\ ui = "running" /\ "updater" \notin cancelled
    /\ cancelled' = cancelled \cup {"next_updater", "updater"}
    /\ UNCHANGED <<trackerVars, coroutine, post, ui, answered>>

\* OnExit: the coroutine is done, or the window has been closed.
OnExit ==
    /\ ui = "running"
    /\ cancelled' = cancelled \cup {"updater"}
    /\ ui' = "closing"
    /\ UNCHANGED <<trackerVars, coroutine, post, answered>>

ShutdownAsync ==
    /\ ui = "closing"
    /\ cancelled' = cancelled \cup {"service"}
    /\ Wait(UI)
    /\ ui' = "waiting"
    /\ UNCHANGED <<coroutine, post, answered>>

WaitStep ==
    /\ ui = "waiting"
    /\ ContinueWait(UI)
    /\ ui' = IF waiter'[UI] = "returned" THEN "joining" ELSE "waiting"
    /\ UNCHANGED <<coroutine, post, cancelled, answered>>

\* updater_task_.get() returns, and RunGuiApp destroys the updater.
Destroy ==
    /\ ui = "joining" /\ coroutine = "done"
    /\ ui' = "destroyed"
    /\ UNCHANGED <<trackerVars, coroutine, post, cancelled, answered>>
------------------------------------------------------------------------------
CoroutineStep ==
    \/ PostAsync \/ SkipPost \/ NoAddress \/ RunIO \/ PostReturns
    \/ CoroutineTokenStep \/ PostDone
IOStep(p) == PostInternalEnds(p) \/ IOTokenStep(p)
UIStep    == ShutdownAsync \/ WaitStep \/ Destroy

Next == CoroutineStep \/ (\E p \in Posts : IOStep(p)) \/ CancelUpdate \/ OnExit \/ UIStep

\* The threads run on: cpr has timeouts, and WithCancellation polls.  That the
\* user closes the window is not assumed, but a finished coroutine makes
\* OnUpdate ask for the exit.
Fairness ==
    /\ WF_allVars(CoroutineStep)
    /\ \A p \in Posts : WF_allVars(IOStep(p))
    /\ WF_allVars(UIStep)
    /\ WF_allVars(coroutine = "done" /\ OnExit)

Spec == Init /\ [][Next]_allVars
FairSpec == Spec /\ Fairness
------------------------------------------------------------------------------
\* Types of the variables of this module; the coroutine ends without a token,
\* and the UI thread goes on only after its wait.
ShutdownTypeOK ==
    /\ coroutine \in CoroutineStates /\ post \in Posts
    /\ cancelled \subseteq Sources /\ ui \in UIStates /\ answered \subseteq Posts
    /\ coroutine = "done" => \A p \in Posts : token[<<p, "coroutine">>] # "held"
    /\ ui \in {"joining", "destroyed"} => waiter[UI] = "returned"

\* The updater is always left: neither the wait for the tokens nor the wait for
\* the coroutine blocks the UI thread for good ("this call will not block it").
ShutdownReturns == <>(ui = "destroyed")

\* When the updater is destroyed, the tokens that were out when it began to wait
\* have been given back: "The IO task holds its own token: WithCancellation below
\* can return before PostInternal finishes."
ShutdownAwaitsTasks == ui = "destroyed" => awaited[UI] \cap Held = {}
==============================================================================
