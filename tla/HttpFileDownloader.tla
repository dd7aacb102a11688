------------------------- MODULE HttpFileDownloader -------------------------
(***************************************************************************)
(* HttpFileDownloader: the loop of StartDownloads, which runs in the       *)
(* updater's thread.  The requests run elsewhere and are ready at any time *)
(* and in any order.  The order of the queue is left out, and so is what a *)
(* server may answer other than the file or an error.                      *)
(***************************************************************************)
EXTENDS Integers, FiniteSets

CONSTANTS Files,              \* the files of the server's list
          MaxActiveRequests,
          MaxRetries

ASSUME DownloaderAssumption ==
    IsFiniteSet(Files) /\ MaxActiveRequests \in Nat \ {0} /\ MaxRetries \in Nat

VARIABLES queued,     \* files_to_download_
          requests,   \* requests_
          retry,      \* how often a file has been asked for again
          fetched,    \* results_ with data
          refused     \* results_ with an error

downloaderVars == <<queued, requests, retry, fetched, refused>>

DownloaderInit ==
    /\ queued = {} /\ requests = {} /\ fetched = {} /\ refused = {}
    /\ retry = [f \in Files |-> 0]

StartDownloads(files) ==
    /\ queued' = files
    /\ requests' = {} /\ fetched' = {} /\ refused' = {}
    /\ retry' = [f \in Files |-> 0]

\* Mutant of Again: a failed request is always made again.
AgainAlways(failed) == failed

\* The failed requests that PruneCompletedRequests puts back into the queue.
Again(failed) == {f \in failed : retry[f] <= MaxRetries}

\* Mutant: the error of a request is not kept.
PruneForgets(ended, failed) ==
    /\ fetched' = fetched \cup ended
    /\ UNCHANGED refused
    /\ retry' = [f \in Files |-> IF f \in Again(failed) THEN retry[f] + 1 ELSE retry[f]]

\* PruneCompletedRequests, for the requests that have ended with the file and
\* those that have failed.
PruneCompletedRequests(ended, failed) ==
    /\ fetched' = fetched \cup ended
    /\ refused' = refused \cup (failed \ Again(failed))
    /\ retry' = [f \in Files |-> IF f \in Again(failed) THEN retry[f] + 1 ELSE retry[f]]

\* StartNewDownloads starts these: as many as there is room for.
Startable(active, waiting) ==
    {some \in SUBSET waiting :
        \/ some = waiting /\ Cardinality(active \cup some) <= MaxActiveRequests
        \/ Cardinality(active \cup some) = MaxActiveRequests}

\* One turn of the loop.  When the progress callback asks for it, everything
\* that has not ended is dropped, which ends the loop as well.
Iterate(ended, failed, cancel) ==
    LET active  == requests \ (ended \cup failed)
        waiting == queued \cup Again(failed)
    IN  /\ ended \cup failed \subseteq requests /\ ended \cap failed = {}
        /\ PruneCompletedRequests(ended, failed)
        /\ IF cancel
           THEN queued' = {} /\ requests' = {}
           ELSE \E started \in Startable(active, waiting) :
                   /\ requests' = active \cup started
                   /\ queued' = waiting \ started

AllDownloadsCompleted == queued = {} /\ requests = {}
------------------------------------------------------------------------------
\* Every file is in one place, there are never too many requests, and one that
\* is given up has been tried once and then MaxRetries + 1 times again.
DownloaderTypeOK ==
    /\ queued \subseteq Files /\ requests \subseteq Files
    /\ fetched \subseteq Files /\ refused \subseteq Files
    /\ retry \in [Files -> 0 .. MaxRetries + 1]
    /\ queued \cap requests = {} /\ fetched \cap refused = {}
    /\ (queued \cup requests) \cap (fetched \cup refused) = {}
    /\ Cardinality(requests) <= MaxActiveRequests
    /\ \A f \in refused : retry[f] = MaxRetries + 1
==============================================================================
