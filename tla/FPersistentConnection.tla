----------------------- MODULE FPersistentConnection -----------------------
(***************************************************************************)
(* The Firebase client's connection (FPersistentConnection with its        *)
(* FConnection and FIRRetryHelper): how the writes the app issues reach    *)
(* the server across lost connections, token fetches, interruptions and    *)
(* the end of the process.                                                 *)
(*                                                                         *)
(* Every action is one block of the serial queue sharedQueue, so handlers  *)
(* never overlap; what interleaves is the order of the blocks.             *)
(*                                                                         *)
(* A write is named by its place in the order in which the app issued it.  *)
(* The app runs no transactions, so no put carries a hash and              *)
(* cancelSentTransactions does nothing.  A callback of requestCBHash is    *)
(* registered exactly while its request or reply is on the open            *)
(* connection: both are dropped together.                                  *)
(***************************************************************************)
EXTENDS Integers, Sequences, FiniteSets

CONSTANTS Payloads,    \* what a write can carry
          Queries,     \* what can be listened to
          MaxWrites,   \* bound on the writes issued
          MaxListens,  \* bound on the listens under way at once
          MaxFaults    \* bound on what the environment does to the client

ASSUME BoundsAssumption ==
    MaxWrites \in Nat /\ MaxListens \in Nat /\ MaxFaults \in Nat
ASSUME QueriesAssumption == IsFiniteSet(Queries)

VARIABLES
    \* the client: lost when the process ends
    alive,                     \* the process runs
    connectionState,
    interruptReasons,
    scheduledRetry,            \* FIRRetryHelper has a task that is not canceled
    currentFetchTokenAttempt,
    fetches,                   \* token fetches whose callback has not run yet
    realtime,                  \* the FConnection: nil, connecting or connected
    authToken,                 \* a token is known
    calls,                     \* writes dispatched to sharedQueue, not yet run
    outstandingPuts,           \* the keys of outstandingPuts: writes not acked
    putsToAck,                 \* writes acked, completion held back
    listens,
    unackedListensCount,
    \* the network and the server
    up,                        \* requests on the open connection
    down,                      \* replies on the open connection
    lingering,                 \* requests still in flight on closed connections
    applied,                   \* writes the server has applied
    \* observers
    issued,                    \* every write of the app, in order
    base,                      \* how many of them earlier processes issued
    completed,                 \* writes whose completion block was called
    faults                     \* what the environment has done so far

connectionVars == <<connectionState, realtime, up, down, lingering, unackedListensCount>>
retryVars      == <<scheduledRetry, currentFetchTokenAttempt, fetches>>
putVars        == <<calls, outstandingPuts, putsToAck, completed>>
appVars        == <<issued, base>>
vars == <<alive, connectionVars, interruptReasons, retryVars, authToken, putVars,
          listens, applied, appVars, faults>>

ConnectionStates ==
    {"Disconnected", "GettingToken", "Connecting", "Authenticating", "Connected"}
Reasons == {"waiting_for_open", "repo_interrupt", "server_kill"}

\* The requests that have a callback.  Unauth and unlisten have none and do
\* not concern writes: sending them changes nothing here.
Put(w) == [kind |-> "put", write |-> w]
Listen == [kind |-> "listen", write |-> 0]
Auth   == [kind |-> "auth", write |-> 0]
AuthAndRestore == [kind |-> "authAndRestore", write |-> 0]

Requests ==
    {Listen, Auth, AuthAndRestore} \cup {Put(w) : w \in 1 .. Len(issued)}

connected == connectionState \in {"Authenticating", "Connected"}
canSendWrites == connectionState = "Connected"

Fault == faults < MaxFaults /\ faults' = faults + 1

-----------------------------------------------------------------------------

\* What initWithRepoInfo leaves behind: interrupted until open is called.
Init ==
    /\ alive = TRUE
    /\ connectionState = "Disconnected"
    /\ interruptReasons = {"waiting_for_open"}
    /\ scheduledRetry = FALSE
    /\ currentFetchTokenAttempt = 0
    /\ fetches = {}
    /\ realtime = "nil"
    /\ authToken = FALSE
    /\ calls = <<>>
    /\ outstandingPuts = {}
    /\ putsToAck = {}
    /\ listens = {}
    /\ unackedListensCount = 0
    /\ up = <<>> /\ down = <<>> /\ lingering = {}
    /\ applied = {}
    /\ issued = <<>> /\ base = 0 /\ completed = {} /\ faults = 0

-----------------------------------------------------------------------------
(* Connecting.                                                             *)

shouldReconnect(reasons) == reasons = {}

\* Schedules one retry, replacing one already scheduled, unless interrupted.
tryScheduleReconnect(reasons) ==
    scheduledRetry' = (scheduledRetry \/ shouldReconnect(reasons))

onDisconnect_keepCount(reasons) ==
    /\ connectionState' = "Disconnected"
    /\ realtime' = "nil"
    /\ lingering' = lingering \cup ({up} \ {<<>>})
    /\ up' = <<>>
    /\ down' = <<>>
    /\ UNCHANGED unackedListensCount
    /\ tryScheduleReconnect(reasons)

\* onDisconnect: the connection is gone, with everything in flight to the
\* client.  Requests already handed to the socket may still be read by the
\* server.
onDisconnect(reasons) ==
    /\ connectionState' = "Disconnected"
    /\ realtime' = "nil"
    /\ lingering' = lingering \cup ({up} \ {<<>>})
    /\ up' = <<>>
    /\ down' = <<>>
    /\ unackedListensCount' = 0
    /\ tryScheduleReconnect(reasons)

interrupt_keepRetry(reason) ==
    /\ interruptReasons' = interruptReasons \cup {reason}
    /\ IF realtime # "nil"
       THEN onDisconnect(interruptReasons')
       ELSE /\ connectionState' = "Disconnected"
            /\ UNCHANGED <<realtime, up, down, lingering, unackedListensCount, scheduledRetry>>

\* interruptForReason: a scheduled retry is canceled.
interrupt(reason) ==
    /\ interruptReasons' = interruptReasons \cup {reason}
    /\ IF realtime # "nil"
       THEN onDisconnect(interruptReasons')
       ELSE /\ scheduledRetry' = FALSE
            /\ connectionState' = "Disconnected"
            /\ UNCHANGED <<realtime, up, down, lingering, unackedListensCount>>

interruptForReason(reason) ==
    /\ alive /\ Fault
    /\ interrupt(reason)
    /\ UNCHANGED <<alive, currentFetchTokenAttempt, fetches, authToken, putVars,
                   listens, applied, appVars>>

resumeForReason(reason) ==
    /\ alive /\ reason \in interruptReasons
    /\ interruptReasons' = interruptReasons \ {reason}
    /\ IF connectionState = "Disconnected"
       THEN tryScheduleReconnect(interruptReasons')
       ELSE UNCHANGED scheduledRetry
    /\ UNCHANGED <<alive, connectionVars, currentFetchTokenAttempt, fetches, authToken,
                   putVars, listens, applied, appVars, faults>>

open == resumeForReason("waiting_for_open")

\* enteringForeground and reachabilityCallback.
enteringForeground ==
    /\ alive
    /\ connectionState = "Disconnected"
    /\ tryScheduleReconnect(interruptReasons)
    /\ UNCHANGED <<alive, connectionVars, interruptReasons, currentFetchTokenAttempt,
                   fetches, authToken, putVars, listens, applied, appVars, faults>>

\* The scheduled task runs: a token is asked for.
retry ==
    /\ alive /\ scheduledRetry
    /\ scheduledRetry' = FALSE
    /\ connectionState' = "GettingToken"
    /\ currentFetchTokenAttempt' = currentFetchTokenAttempt + 1
    /\ fetches' = fetches \cup {currentFetchTokenAttempt'}
    /\ UNCHANGED <<alive, interruptReasons, realtime, up, down, lingering,
                   unackedListensCount, authToken, putVars, listens, applied,
                   appVars, faults>>

tokenFetched_anyAttempt(attempt, token) ==
    /\ fetches' = fetches \ {attempt}
    /\ IF connectionState = "GettingToken"
       THEN /\ authToken' = token
            /\ connectionState' = "Connecting"
            /\ realtime' = "connecting"
       ELSE UNCHANGED <<authToken, connectionState, realtime>>
    /\ UNCHANGED scheduledRetry

\* The callback of fetchTokenForcingRefresh without an error: only the latest
\* attempt counts, and only if nobody interrupted it.
tokenFetched(attempt, token) ==
    /\ fetches' = fetches \ {attempt}
    /\ IF attempt = currentFetchTokenAttempt /\ connectionState = "GettingToken"
       THEN /\ authToken' = token
            /\ connectionState' = "Connecting"
            /\ realtime' = "connecting"
       ELSE UNCHANGED <<authToken, connectionState, realtime>>
    /\ UNCHANGED scheduledRetry

tokenFailed_noRetry(attempt) ==
    /\ fetches' = fetches \ {attempt}
    /\ connectionState' = IF attempt = currentFetchTokenAttempt THEN "Disconnected"
                                                                ELSE connectionState
    /\ UNCHANGED <<authToken, realtime, scheduledRetry>>

\* The same callback with an error.
tokenFailed(attempt) ==
    /\ fetches' = fetches \ {attempt}
    /\ IF attempt = currentFetchTokenAttempt
       THEN connectionState' = "Disconnected" /\ tryScheduleReconnect(interruptReasons)
       ELSE UNCHANGED <<connectionState, scheduledRetry>>
    /\ UNCHANGED <<authToken, realtime>>

fetchCallback ==
    /\ alive
    /\ \E attempt \in fetches :
         \/ \E token \in BOOLEAN : tokenFetched(attempt, token) /\ UNCHANGED faults
         \/ Fault /\ tokenFailed(attempt)
    /\ UNCHANGED <<alive, interruptReasons, currentFetchTokenAttempt, up, down, lingering,
                   unackedListensCount, putVars, listens, applied, appVars>>

\* The socket is lost or reset, or cannot be opened: closeWithReason.
close ==
    /\ alive /\ realtime # "nil"
    /\ Fault
    /\ onDisconnect(interruptReasons)
    /\ UNCHANGED <<alive, interruptReasons, currentFetchTokenAttempt, fetches, authToken,
                   putVars, listens, applied, appVars>>

\* The server orders the client to stay away: onConnectionShutdown, onKill.
onKill == realtime # "nil" /\ interruptForReason("server_kill")

-----------------------------------------------------------------------------
(* Sending what the connection missed.                                     *)

SortedPuts_newestFirst(puts) ==
    [k \in 1 .. Cardinality(puts) |->
        CHOOSE w \in puts : Cardinality({v \in puts : v >= w}) = k]

\* The keys of outstandingPuts in increasing order.
SortedPuts(puts) ==
    [k \in 1 .. Cardinality(puts) |->
        CHOOSE w \in puts : Cardinality({v \in puts : v <= w}) = k]

restoredListens == [k \in 1 .. Cardinality(listens) |-> Listen]

restoredPuts ==
    [k \in 1 .. Cardinality(outstandingPuts) |-> Put(SortedPuts(outstandingPuts)[k])]

restoreState_listensOnly ==
    /\ up' = up \o restoredListens
    /\ unackedListensCount' = unackedListensCount + Cardinality(listens)

\* sendListen for every listen, then sendPut for every outstanding put.
restoreState ==
    /\ up' = up \o restoredListens \o restoredPuts
    /\ unackedListensCount' = unackedListensCount + Cardinality(listens)

\* onHandshake, onReady and restoreAuth.
onReady ==
    /\ alive /\ realtime = "connecting"
    /\ realtime' = "connected"
    /\ IF authToken
       THEN /\ connectionState' = "Authenticating"
            /\ up' = Append(up, AuthAndRestore)
            /\ UNCHANGED unackedListensCount
       ELSE /\ connectionState' = "Connected"
            /\ restoreState
    /\ UNCHANGED <<alive, down, lingering, interruptReasons, retryVars, authToken,
                   putVars, listens, applied, appVars, faults>>

\* The reply to an auth request.
authReply(request) ==
    \/ /\ connectionState' = "Connected"
       /\ down' = Tail(down)
       /\ IF request = AuthAndRestore THEN restoreState
                                      ELSE UNCHANGED <<up, unackedListensCount>>
       /\ UNCHANGED <<realtime, lingering, scheduledRetry, authToken, faults>>
    \/ /\ Fault
       /\ authToken' = FALSE
       /\ onDisconnect(interruptReasons)

onAuthReply ==
    /\ alive /\ down # <<>>
    /\ Head(down) \in {Auth, AuthAndRestore}
    /\ authReply(Head(down))
    /\ UNCHANGED <<alive, interruptReasons, currentFetchTokenAttempt, fetches, putVars,
                   listens, applied, appVars>>

\* The server revokes the token.
onAuthRevoked ==
    /\ alive /\ realtime = "connected"
    /\ Fault
    /\ authToken' = FALSE
    /\ onDisconnect(interruptReasons)
    /\ UNCHANGED <<alive, interruptReasons, currentFetchTokenAttempt, fetches, putVars,
                   listens, applied, appVars>>

\* The user signs in or out.
refreshAuthToken(token) ==
    /\ alive /\ Fault
    /\ authToken' = token
    /\ up' = IF connected /\ token THEN Append(up, Auth) ELSE up
    /\ UNCHANGED <<alive, connectionState, realtime, down, lingering, unackedListensCount,
                   interruptReasons, retryVars, putVars, listens, applied, appVars>>

-----------------------------------------------------------------------------
(* Reads.                                                                  *)

listen_notCounted(query) ==
    /\ alive
    /\ query \notin listens
    /\ unackedListensCount < MaxListens
    /\ listens' = listens \cup {query}
    /\ up' = IF connected THEN Append(up, Listen) ELSE up
    /\ UNCHANGED <<alive, connectionState, realtime, down, lingering, unackedListensCount,
                   interruptReasons, retryVars, authToken, putVars, applied, appVars, faults>>

listen(query) ==
    /\ alive
    /\ query \notin listens
    /\ unackedListensCount < MaxListens
    /\ listens' = listens \cup {query}
    /\ up' = IF connected THEN Append(up, Listen) ELSE up
    /\ unackedListensCount' = IF connected THEN unackedListensCount + 1
                                           ELSE unackedListensCount
    /\ UNCHANGED <<alive, connectionState, realtime, down, lingering, interruptReasons,
                   retryVars, authToken, putVars, applied, appVars, faults>>

unlisten(query) ==
    /\ alive
    /\ query \in listens
    /\ listens' = listens \ {query}
    /\ UNCHANGED <<alive, connectionVars, interruptReasons, retryVars, authToken, putVars,
                   applied, appVars, faults>>

onListenReply_keepPuts ==
    /\ alive /\ down # <<>>
    /\ Head(down) = Listen
    /\ down' = Tail(down)
    /\ unackedListensCount' = unackedListensCount - 1
    /\ UNCHANGED <<alive, connectionState, realtime, up, lingering, interruptReasons,
                   retryVars, authToken, putVars, listens, applied, appVars, faults>>

\* The reply to a listen; the last one outstanding releases the completions
\* held back (ackPuts).
onListenReply ==
    /\ alive /\ down # <<>>
    /\ Head(down) = Listen
    /\ down' = Tail(down)
    /\ unackedListensCount' = unackedListensCount - 1
    /\ completed' = IF unackedListensCount' = 0 THEN completed \cup putsToAck
                                                ELSE completed
    /\ putsToAck' = IF unackedListensCount' = 0 THEN {} ELSE putsToAck
    /\ UNCHANGED <<alive, connectionState, realtime, up, lingering, interruptReasons,
                   retryVars, authToken, calls, outstandingPuts, listens, applied,
                   appVars, faults>>

-----------------------------------------------------------------------------
(* Writes.                                                                 *)

\* setValue and updateChildValues on the app's thread: each write becomes a
\* block of sharedQueue.
issue(payloads) ==
    /\ alive
    /\ issued' = issued \o payloads
    /\ calls' = calls \o [k \in 1 .. Len(payloads) |-> Len(issued) + k]

setValue ==
    /\ Len(issued) < MaxWrites
    /\ \E payload \in Payloads : issue(<<payload>>)
    /\ UNCHANGED <<alive, connectionVars, interruptReasons, retryVars, authToken,
                   outstandingPuts, putsToAck, completed, listens, applied, base, faults>>

\* The block: putInternal, and sendPut if writes can be sent.
putInternal ==
    /\ alive /\ calls # <<>>
    /\ calls' = Tail(calls)
    /\ outstandingPuts' = outstandingPuts \cup {Head(calls)}
    /\ up' = IF canSendWrites THEN Append(up, Put(Head(calls))) ELSE up
    /\ UNCHANGED <<alive, connectionState, realtime, down, lingering, unackedListensCount,
                   interruptReasons, retryVars, authToken, putsToAck, completed, listens,
                   applied, appVars, faults>>

onPutReply_keepPut ==
    /\ alive /\ down # <<>>
    /\ Head(down).kind = "put"
    /\ down' = Tail(down)
    /\ IF unackedListensCount = 0
       THEN completed' = completed \cup {Head(down).write} /\ UNCHANGED putsToAck
       ELSE putsToAck' = putsToAck \cup {Head(down).write} /\ UNCHANGED completed
    /\ UNCHANGED <<alive, connectionState, realtime, up, lingering, unackedListensCount,
                   interruptReasons, retryVars, authToken, calls, outstandingPuts, listens,
                   applied, appVars, faults>>

\* The reply to a put.
onPutReply ==
    /\ alive /\ down # <<>>
    /\ Head(down).kind = "put"
    /\ down' = Tail(down)
    /\ LET w == Head(down).write
       IN  IF w \in outstandingPuts
           THEN /\ outstandingPuts' = outstandingPuts \ {w}
                /\ IF unackedListensCount = 0
                   THEN completed' = completed \cup {w} /\ UNCHANGED putsToAck
                   ELSE putsToAck' = putsToAck \cup {w} /\ UNCHANGED completed
           ELSE UNCHANGED <<outstandingPuts, putsToAck, completed>>
    /\ UNCHANGED <<alive, connectionState, realtime, up, lingering, unackedListensCount,
                   interruptReasons, retryVars, authToken, calls, listens, applied,
                   appVars, faults>>

-----------------------------------------------------------------------------
(* The server and the process.                                             *)

WritesOf(request) == IF request.kind = "put" THEN {request.write} ELSE {}

\* The server reads the next request of the open connection and answers it.
serve ==
    /\ up # <<>>
    /\ applied' = applied \cup WritesOf(Head(up))
    /\ up' = Tail(up)
    /\ down' = Append(down, Head(up))
    /\ UNCHANGED <<alive, connectionState, realtime, lingering, unackedListensCount,
                   interruptReasons, retryVars, authToken, putVars, listens, appVars, faults>>

\* It reads what was left in flight on a closed one: nobody gets the answer.
serveLingering ==
    /\ \E requests \in lingering :
         /\ applied' = applied \cup WritesOf(Head(requests))
         /\ lingering' = (lingering \ {requests}) \cup ({Tail(requests)} \ {<<>>})
    /\ UNCHANGED <<alive, connectionState, realtime, up, down, unackedListensCount,
                   interruptReasons, retryVars, authToken, putVars, listens, appVars, faults>>

\* The process ends.  Disk persistence is off, so all of the client is lost.
terminate ==
    /\ alive /\ Fault
    /\ alive' = FALSE
    /\ connectionState' = "Disconnected"
    /\ interruptReasons' = {"waiting_for_open"}
    /\ scheduledRetry' = FALSE
    /\ currentFetchTokenAttempt' = 0
    /\ fetches' = {}
    /\ realtime' = "nil"
    /\ authToken' = FALSE
    /\ calls' = <<>>
    /\ outstandingPuts' = {}
    /\ putsToAck' = {}
    /\ listens' = {}
    /\ unackedListensCount' = 0
    /\ lingering' = lingering \cup ({up} \ {<<>>})
    /\ up' = <<>> /\ down' = <<>>
    /\ UNCHANGED <<completed, applied, appVars>>

\* It is started again.  An assumption about the server and the network, which
\* nothing in the client ensures: by then the server has read what it will ever
\* read of the connections of the process before.
launch ==
    /\ ~alive
    /\ alive' = TRUE
    /\ base' = Len(issued)
    /\ lingering' = {}
    /\ UNCHANGED <<connectionState, interruptReasons, retryVars, realtime, authToken, putVars,
                   listens, unackedListensCount, up, down, applied, issued, faults>>

\* Every step but the app's own writes.
ClientNext ==
    \/ open
    \/ interruptForReason("repo_interrupt")
    \/ resumeForReason("repo_interrupt")
    \/ enteringForeground
    \/ retry
    \/ fetchCallback
    \/ close
    \/ onKill
    \/ onReady
    \/ onAuthReply
    \/ onAuthRevoked
    \/ \E token \in BOOLEAN : refreshAuthToken(token)
    \/ \E query \in Queries : listen(query) \/ unlisten(query)
    \/ onListenReply
    \/ putInternal
    \/ onPutReply
    \/ serve
    \/ serveLingering
    \/ terminate
    \/ launch

Next == setValue \/ ClientNext

\* The queue runs its blocks, timers fire, the auth service answers, a
\* connection being opened gets its handshake and the server reads what is on
\* an open connection.  Nobody has to issue, interrupt or listen.
Fairness ==
    /\ WF_vars(open)
    /\ WF_vars(retry)
    /\ WF_vars(fetchCallback)
    /\ WF_vars(onReady)
    /\ WF_vars(onAuthReply)
    /\ WF_vars(onListenReply)
    /\ WF_vars(putInternal)
    /\ WF_vars(onPutReply)
    /\ WF_vars(serve)

Spec == Init /\ [][Next]_vars /\ Fairness

-----------------------------------------------------------------------------
(* Properties.                                                             *)

\* The number of listens among some requests.
ListensIn(requests) ==
    Cardinality({k \in 1 .. Len(requests) : requests[k] = Listen})

\* Every variable keeps its type.
TypeOK ==
    /\ alive \in BOOLEAN
    /\ connectionState \in ConnectionStates
    /\ interruptReasons \subseteq Reasons
    /\ scheduledRetry \in BOOLEAN
    /\ currentFetchTokenAttempt \in Nat
    /\ fetches \subseteq 1 .. currentFetchTokenAttempt
    /\ realtime \in {"nil", "connecting", "connected"}
    /\ authToken \in BOOLEAN
    /\ calls \in Seq(1 .. Len(issued))
    /\ outstandingPuts \subseteq 1 .. Len(issued)
    /\ putsToAck \subseteq 1 .. Len(issued)
    /\ listens \subseteq Queries
    /\ unackedListensCount \in Nat
    /\ up \in Seq(Requests) /\ down \in Seq(Requests)
    /\ lingering \subseteq Seq(Requests) \ {<<>>}
    /\ applied \subseteq 1 .. Len(issued)
    /\ issued \in Seq(Payloads)
    /\ base \in 0 .. Len(issued)
    /\ completed \subseteq 1 .. Len(issued)
    /\ faults \in 0 .. MaxFaults

\* The assertions and exceptions of the client cannot fire, whatever order
\* interruptions, timers, token callbacks, replies and losses come in: the
\* retry task finds the client disconnected, a token that arrives late finds
\* it waiting or disconnected, and requests are sent, and the handshake met,
\* exactly on an FConnection in the matching state.
AssertionsHold ==
    /\ scheduledRetry => connectionState = "Disconnected"
    /\ currentFetchTokenAttempt \in fetches
          => connectionState \in {"Disconnected", "GettingToken"}
    /\ connected <=> realtime = "connected"
    /\ connectionState = "Connecting" <=> realtime = "connecting"

\* The client is never stranded: when nothing interrupts it, either it is
\* connected or on its way, or a retry is scheduled, or the token it waits
\* for is still being fetched.
NeverStranded ==
    alive /\ interruptReasons = {} =>
        /\ connectionState = "Disconnected" => scheduledRetry
        /\ connectionState = "GettingToken" => currentFetchTokenAttempt \in fetches

\* An interrupted client stays away until every reason to interrupt it is
\* resumed: no retry scheduled before, and no token fetched since, connects it.
InterruptedStaysAway ==
    interruptReasons # {} => connectionState = "Disconnected" /\ ~scheduledRetry

\* The count of listens not yet answered is exact, so it cannot wrap below
\* zero when a reply arrives and completions are held back only while a
\* reply is really due.
ListensAreCounted == unackedListensCount = ListensIn(up) + ListensIn(down)

\* The writes of one process reach the server in the order the app issued
\* them and without a gap, over any number of connections: nothing overtakes
\* a write that is still to be sent again.
WritesArriveInOrder ==
    \A w \in applied : \A v \in base + 1 .. w : v \in applied

\* A write is answered only when the server has it, and is answered once:
\* what is completed or held back is applied and is not waiting to be sent.
AcksAreTrue ==
    /\ completed \cup putsToAck \subseteq applied
    /\ outstandingPuts \cap (completed \cup putsToAck) = {}
    /\ completed \cap putsToAck = {}

\* As long as the process lives and nothing interrupts the client, every
\* write gets through: a write under way is eventually acknowledged.
WritesGetThrough ==
    []<>(\/ calls = <<>> /\ outstandingPuts = {}
         \/ ~alive
         \/ interruptReasons # {})

\* While anything is listened to, completions held back for a listen are
\* eventually released.
CompletionsAreCalled ==
    []<>(\/ putsToAck = {}
         \/ listens = {}
         \/ ~alive
         \/ interruptReasons # {})
=============================================================================
