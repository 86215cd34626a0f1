-------------------- MODULE FPersistentConnectionProofs --------------------
(***************************************************************************)
(* Proofs about FPersistentConnection, for any number of writes, listens   *)
(* and faults: the connection's state machine (ConnInv).  DeliveryProofs   *)
(* builds on it.                                                           *)
(***************************************************************************)
EXTENDS FPersistentConnection, FiniteSetTheorems, TLAPS

-----------------------------------------------------------------------------
(* The connection's state machine.                                         *)

ConnTypeOK ==
    /\ alive \in BOOLEAN
    /\ connectionState \in ConnectionStates
    /\ interruptReasons \subseteq Reasons
    /\ scheduledRetry \in BOOLEAN
    /\ currentFetchTokenAttempt \in Nat
    /\ fetches \subseteq 1 .. currentFetchTokenAttempt
    /\ realtime \in {"nil", "connecting", "connected"}
    /\ authToken \in BOOLEAN

\* Nothing is in flight without a connection, and a process that does not
\* run waits for open.
ChannelsNeedConnection ==
    /\ realtime # "connected" => up = <<>> /\ down = <<>>
    /\ alive = FALSE => interruptReasons # {}

ConnInv ==
    /\ ConnTypeOK
    /\ AssertionsHold
    /\ NeverStranded
    /\ InterruptedStaysAway
    /\ ChannelsNeedConnection

\* The state initWithRepoInfo leaves satisfies the invariant.
LEMMA ConnInvInit == Init => ConnInv
  <1> SUFFICES ASSUME Init PROVE ConnInv
    OBVIOUS
  <1>1. ConnTypeOK
    BY DEF Init, ConnTypeOK, ConnectionStates, Reasons
  <1>2. AssertionsHold
    BY DEF Init, AssertionsHold, connected
  <1>3. NeverStranded /\ InterruptedStaysAway
    BY DEF Init, NeverStranded, InterruptedStaysAway
  <1>4. ChannelsNeedConnection
    BY DEF Init, ChannelsNeedConnection
  <1> QED BY <1>1, <1>2, <1>3, <1>4 DEF ConnInv

\* A client that ends up disconnected, with or without a connection before,
\* needs only the right retry and empty channels.
LEMMA DisconnectedConn ==
  ASSUME ConnInv,
         connectionState' = "Disconnected", realtime' = "nil",
         interruptReasons' \subseteq Reasons,
         up' = <<>>, down' = <<>>,
         alive' \in BOOLEAN, authToken' \in BOOLEAN, scheduledRetry' \in BOOLEAN,
         fetches' \subseteq 1 .. currentFetchTokenAttempt', currentFetchTokenAttempt' \in Nat,
         interruptReasons' = {} => scheduledRetry' = TRUE /\ alive' = TRUE,
         interruptReasons' # {} => scheduledRetry' = FALSE
  PROVE  ConnInv'
  <1>1. ConnTypeOK'
    BY DEF ConnTypeOK, ConnectionStates
  <1>2. AssertionsHold'
    BY DEF AssertionsHold, connected
  <1>3. NeverStranded' /\ InterruptedStaysAway'
    BY Zenon DEF NeverStranded, InterruptedStaysAway
  <1>4. ChannelsNeedConnection'
    BY DEF ChannelsNeedConnection
  <1> QED BY <1>1, <1>2, <1>3, <1>4 DEF ConnInv

\* What the invariant says of a client that has a connection.
LEMMA OpenConn ==
  ASSUME ConnInv, realtime # "nil"
  PROVE  /\ scheduledRetry = FALSE
         /\ interruptReasons = {}
         /\ alive = TRUE
         /\ currentFetchTokenAttempt \notin fetches
  <1>1. connectionState \in {"Connecting", "Authenticating", "Connected"}
    BY DEF ConnInv, ConnTypeOK, AssertionsHold, connected
  <1>2. scheduledRetry = FALSE /\ currentFetchTokenAttempt \notin fetches
    BY <1>1 DEF ConnInv, ConnTypeOK, AssertionsHold
  <1>3. interruptReasons = {}
    BY <1>1 DEF ConnInv, InterruptedStaysAway
  <1>4. alive = TRUE
    BY <1>3 DEF ConnInv, ConnTypeOK, ChannelsNeedConnection
  <1> QED BY <1>2, <1>3, <1>4

\* Losing the connection.
LEMMA OnDisconnectConn ==
  ASSUME ConnInv, realtime # "nil", onDisconnect(interruptReasons'),
         interruptReasons' \subseteq Reasons, authToken' \in BOOLEAN,
         UNCHANGED <<alive, fetches, currentFetchTokenAttempt>>
  PROVE  ConnInv'
  <1>1. scheduledRetry = FALSE /\ alive = TRUE
    BY OpenConn
  <1>2. tryScheduleReconnect(interruptReasons') /\ scheduledRetry \in BOOLEAN
    BY DEF onDisconnect, ConnInv, ConnTypeOK
  <1>3. /\ scheduledRetry' \in BOOLEAN
        /\ interruptReasons' = {} => scheduledRetry' = TRUE
        /\ interruptReasons' # {} => scheduledRetry' = FALSE
    BY <1>1, <1>2, Zenon DEF tryScheduleReconnect, shouldReconnect
  <1>4. /\ connectionState' = "Disconnected" /\ realtime' = "nil"
        /\ up' = <<>> /\ down' = <<>>
    BY DEF onDisconnect
  <1>5. /\ fetches' \subseteq 1 .. currentFetchTokenAttempt'
        /\ currentFetchTokenAttempt' \in Nat
        /\ alive' = TRUE
    BY <1>1 DEF ConnInv, ConnTypeOK
  <1> QED BY <1>3, <1>4, <1>5, DisconnectedConn

\* interruptForReason leaves the client disconnected with no retry scheduled.
LEMMA InterruptConn ==
  ASSUME ConnInv, NEW reason \in Reasons, interruptForReason(reason)
  PROVE  ConnInv'
  <1>1. /\ interruptReasons' \subseteq Reasons /\ interruptReasons' # {}
        /\ UNCHANGED <<alive, fetches, currentFetchTokenAttempt>>
        /\ authToken' \in BOOLEAN /\ alive \in BOOLEAN
        /\ fetches \subseteq 1 .. currentFetchTokenAttempt
        /\ currentFetchTokenAttempt \in Nat
    BY DEF interruptForReason, interrupt, ConnInv, ConnTypeOK
  <1>2. CASE realtime # "nil"
    <2>1. onDisconnect(interruptReasons')
      BY <1>2 DEF interruptForReason, interrupt
    <2> QED BY <1>1, <1>2, <2>1, OnDisconnectConn
  <1>3. CASE realtime = "nil"
    <2>1. /\ scheduledRetry' = FALSE /\ connectionState' = "Disconnected"
          /\ UNCHANGED <<realtime, up, down>>
      BY <1>3 DEF interruptForReason, interrupt
    <2>2. up = <<>> /\ down = <<>>
      BY <1>3 DEF ConnInv, ChannelsNeedConnection
    <2> QED BY <1>1, <1>3, <2>1, <2>2, DisconnectedConn
  <1> QED BY <1>2, <1>3

\* resumeForReason schedules a retry when the last reason goes.
LEMMA ResumeConn ==
  ASSUME ConnInv, NEW reason, resumeForReason(reason)
  PROVE  ConnInv'
  <1>1. /\ UNCHANGED <<alive, connectionState, realtime, up, down, fetches,
                       currentFetchTokenAttempt, authToken>>
        /\ interruptReasons' \subseteq interruptReasons
        /\ interruptReasons # {}
        /\ alive = TRUE
    BY DEF resumeForReason, connectionVars, ConnInv, ConnTypeOK
  <1>2. connectionState = "Disconnected" /\ scheduledRetry = FALSE
    BY <1>1 DEF ConnInv, ConnTypeOK, InterruptedStaysAway
  <1>3. realtime = "nil"
    BY <1>2 DEF ConnInv, ConnTypeOK, AssertionsHold, connected
  <1>4. up = <<>> /\ down = <<>>
    BY <1>3 DEF ConnInv, ChannelsNeedConnection
  <1>5. tryScheduleReconnect(interruptReasons')
    BY <1>2 DEF resumeForReason
  <1>6. /\ scheduledRetry' \in BOOLEAN
        /\ interruptReasons' = {} => scheduledRetry' = TRUE
        /\ interruptReasons' # {} => scheduledRetry' = FALSE
    BY <1>2, <1>5, Zenon DEF tryScheduleReconnect, shouldReconnect
  <1>7. /\ interruptReasons' \subseteq Reasons /\ authToken' \in BOOLEAN
        /\ fetches' \subseteq 1 .. currentFetchTokenAttempt'
        /\ currentFetchTokenAttempt' \in Nat
    BY <1>1 DEF ConnInv, ConnTypeOK
  <1> QED BY <1>1, <1>2, <1>3, <1>4, <1>6, <1>7, DisconnectedConn

\* enteringForeground schedules a retry for a client that is disconnected.
LEMMA EnteringForegroundConn ==
  ASSUME ConnInv, enteringForeground
  PROVE  ConnInv'
  <1>1. /\ UNCHANGED <<alive, connectionState, realtime, up, down, fetches, interruptReasons,
                       currentFetchTokenAttempt, authToken>>
        /\ connectionState = "Disconnected"
        /\ alive = TRUE
    BY DEF enteringForeground, connectionVars, ConnInv, ConnTypeOK
  <1>2. realtime = "nil"
    BY <1>1 DEF ConnInv, ConnTypeOK, AssertionsHold, connected
  <1>3. up = <<>> /\ down = <<>>
    BY <1>2 DEF ConnInv, ChannelsNeedConnection
  <1>4. tryScheduleReconnect(interruptReasons')
    BY <1>1 DEF enteringForeground, tryScheduleReconnect, shouldReconnect
  <1>5. scheduledRetry \in BOOLEAN /\ (interruptReasons # {} => scheduledRetry = FALSE)
    BY DEF ConnInv, ConnTypeOK, InterruptedStaysAway
  <1>6. /\ scheduledRetry' \in BOOLEAN
        /\ interruptReasons' = {} => scheduledRetry' = TRUE
        /\ interruptReasons' # {} => scheduledRetry' = FALSE
    BY <1>1, <1>4, <1>5, Zenon DEF tryScheduleReconnect, shouldReconnect
  <1>7. /\ interruptReasons' \subseteq Reasons /\ authToken' \in BOOLEAN
        /\ fetches' \subseteq 1 .. currentFetchTokenAttempt'
        /\ currentFetchTokenAttempt' \in Nat
    BY <1>1 DEF ConnInv, ConnTypeOK
  <1> QED BY <1>1, <1>2, <1>3, <1>6, <1>7, DisconnectedConn

\* The retry task starts the one token fetch that counts.
LEMMA RetryConn ==
  ASSUME ConnInv, retry
  PROVE  ConnInv'
  <1>1. /\ UNCHANGED <<alive, interruptReasons, realtime, up, down, authToken>>
        /\ scheduledRetry = TRUE /\ scheduledRetry' = FALSE
        /\ connectionState' = "GettingToken"
        /\ currentFetchTokenAttempt' = currentFetchTokenAttempt + 1
        /\ fetches' = fetches \cup {currentFetchTokenAttempt'}
    BY DEF retry, ConnInv, ConnTypeOK
  <1>2. /\ connectionState = "Disconnected" /\ interruptReasons = {}
    BY <1>1 DEF ConnInv, AssertionsHold, InterruptedStaysAway
  <1>3. realtime = "nil"
    BY <1>2 DEF ConnInv, ConnTypeOK, AssertionsHold, connected
  <1>4. ConnTypeOK'
    <2>1. currentFetchTokenAttempt' \in Nat /\ fetches' \subseteq 1 .. currentFetchTokenAttempt'
      BY <1>1, SMT DEF ConnInv, ConnTypeOK
    <2> QED BY <1>1, <2>1 DEF ConnInv, ConnTypeOK, ConnectionStates
  <1>5. AssertionsHold'
    BY <1>1, <1>3 DEF AssertionsHold, connected
  <1>6. NeverStranded' /\ InterruptedStaysAway'
    BY <1>1, <1>2 DEF NeverStranded, InterruptedStaysAway
  <1>7. ChannelsNeedConnection'
    BY <1>1 DEF ConnInv, ChannelsNeedConnection
  <1> QED BY <1>4, <1>5, <1>6, <1>7 DEF ConnInv

\* A token that is not for the latest attempt, or that comes to a client
\* that was interrupted, changes nothing but the set of fetches.
LEMMA StaleFetchConn ==
  ASSUME ConnInv, NEW attempt \in fetches, fetches' = fetches \ {attempt},
         \/ attempt # currentFetchTokenAttempt
         \/ connectionState # "GettingToken",
         UNCHANGED <<alive, connectionState, interruptReasons, scheduledRetry,
                     currentFetchTokenAttempt, realtime, authToken, up, down>>
  PROVE  ConnInv'
  <1>1. ConnTypeOK'
    BY DEF ConnInv, ConnTypeOK
  <1>2. AssertionsHold'
    BY DEF ConnInv, AssertionsHold, connected
  <1>3. NeverStranded' /\ InterruptedStaysAway'
    BY DEF ConnInv, NeverStranded, InterruptedStaysAway
  <1>4. ChannelsNeedConnection'
    BY DEF ConnInv, ChannelsNeedConnection
  <1> QED BY <1>1, <1>2, <1>3, <1>4 DEF ConnInv

\* The callback of a token fetch, early or late, with a token or an error.
LEMMA FetchCallbackConn ==
  ASSUME ConnInv, fetchCallback
  PROVE  ConnInv'
  <1>1. PICK attempt \in fetches :
         \/ \E token \in BOOLEAN : tokenFetched(attempt, token)
         \/ tokenFailed(attempt)
    BY DEF fetchCallback
  <1>2. UNCHANGED <<alive, interruptReasons, currentFetchTokenAttempt, up, down>>
    BY DEF fetchCallback
  <1>3. ASSUME NEW token \in BOOLEAN, tokenFetched(attempt, token)
        PROVE  ConnInv'
    <2>1. CASE attempt = currentFetchTokenAttempt /\ connectionState = "GettingToken"
      <3>1. /\ fetches' = fetches \ {currentFetchTokenAttempt}
            /\ authToken' = token /\ connectionState' = "Connecting"
            /\ realtime' = "connecting" /\ scheduledRetry' = scheduledRetry
        BY <1>3, <2>1 DEF tokenFetched
      <3>2. /\ interruptReasons = {} /\ realtime = "nil" /\ scheduledRetry = FALSE
        BY <2>1 DEF ConnInv, ConnTypeOK, AssertionsHold, InterruptedStaysAway, connected
      <3>3. up = <<>> /\ down = <<>> /\ alive = TRUE
        BY <3>2 DEF ConnInv, ConnTypeOK, ChannelsNeedConnection
      <3>4. ConnTypeOK'
        BY <1>2, <3>1 DEF ConnInv, ConnTypeOK, ConnectionStates
      <3>5. AssertionsHold'
        BY <1>2, <3>1, <3>2 DEF AssertionsHold, connected
      <3>6. NeverStranded' /\ InterruptedStaysAway'
        BY <1>2, <3>1, <3>2 DEF NeverStranded, InterruptedStaysAway
      <3>7. ChannelsNeedConnection'
        BY <1>2, <3>3 DEF ChannelsNeedConnection
      <3> QED BY <3>4, <3>5, <3>6, <3>7 DEF ConnInv
    <2>2. CASE ~(attempt = currentFetchTokenAttempt /\ connectionState = "GettingToken")
      BY <1>2, <1>3, <2>2, StaleFetchConn DEF tokenFetched
    <2> QED BY <2>1, <2>2
  <1>4. CASE tokenFailed(attempt)
    <2>1. CASE attempt = currentFetchTokenAttempt
      <3>1. /\ connectionState' = "Disconnected"
            /\ tryScheduleReconnect(interruptReasons')
            /\ fetches' \subseteq fetches
            /\ UNCHANGED <<authToken, realtime>>
        BY <1>2, <1>4, <2>1 DEF tokenFailed, tryScheduleReconnect, shouldReconnect
      <3>2. connectionState \in {"Disconnected", "GettingToken"}
        BY <2>1 DEF ConnInv, AssertionsHold
      <3>3. realtime = "nil"
        BY <3>2 DEF ConnInv, ConnTypeOK, AssertionsHold, connected
      <3>4. up = <<>> /\ down = <<>> /\ (interruptReasons = {} => alive = TRUE)
        BY <3>3 DEF ConnInv, ConnTypeOK, ChannelsNeedConnection
      <3>5. scheduledRetry \in BOOLEAN /\ (interruptReasons # {} => scheduledRetry = FALSE)
        BY DEF ConnInv, ConnTypeOK, InterruptedStaysAway
      <3>6. /\ scheduledRetry' \in BOOLEAN
            /\ interruptReasons' = {} => scheduledRetry' = TRUE
            /\ interruptReasons' # {} => scheduledRetry' = FALSE
        BY <1>2, <3>1, <3>5, Zenon DEF tryScheduleReconnect, shouldReconnect
      <3>7. /\ interruptReasons' \subseteq Reasons /\ authToken' \in BOOLEAN
            /\ alive' \in BOOLEAN
            /\ fetches' \subseteq 1 .. currentFetchTokenAttempt'
            /\ currentFetchTokenAttempt' \in Nat
        BY <1>2, <3>1 DEF ConnInv, ConnTypeOK
      <3> QED BY <1>2, <3>1, <3>3, <3>4, <3>6, <3>7, DisconnectedConn
    <2>2. CASE attempt # currentFetchTokenAttempt
      BY <1>2, <1>4, <2>2, StaleFetchConn DEF tokenFailed
    <2> QED BY <2>1, <2>2
  <1> QED BY <1>1, <1>3, <1>4

\* The steps that leave the connection's state as it is.
LEMMA SameConn ==
  ASSUME ConnInv, authToken' \in BOOLEAN,
         UNCHANGED <<alive, connectionState, interruptReasons, scheduledRetry,
                     currentFetchTokenAttempt, fetches, realtime>>,
         realtime # "connected" => up' = up /\ down' = down
  PROVE  ConnInv'
  <1>1. ConnTypeOK'
    BY DEF ConnInv, ConnTypeOK
  <1>2. AssertionsHold'
    BY DEF ConnInv, AssertionsHold, connected
  <1>3. NeverStranded' /\ InterruptedStaysAway'
    BY DEF ConnInv, NeverStranded, InterruptedStaysAway
  <1>4. ChannelsNeedConnection'
    BY DEF ConnInv, ChannelsNeedConnection
  <1> QED BY <1>1, <1>2, <1>3, <1>4 DEF ConnInv

\* Moving on with the connection that is open.
LEMMA AdvanceConn ==
  ASSUME ConnInv, realtime # "nil", realtime' = "connected",
         connectionState' \in {"Authenticating", "Connected"}, authToken' \in BOOLEAN,
         UNCHANGED <<alive, interruptReasons, scheduledRetry, currentFetchTokenAttempt, fetches>>
  PROVE  ConnInv'
  <1>0. /\ scheduledRetry = FALSE /\ interruptReasons = {} /\ alive = TRUE
        /\ currentFetchTokenAttempt \notin fetches
    BY OpenConn
  <1>1. ConnTypeOK'
    BY DEF ConnInv, ConnTypeOK, ConnectionStates
  <1>2. AssertionsHold'
    BY <1>0 DEF AssertionsHold, connected
  <1>3. NeverStranded' /\ InterruptedStaysAway'
    BY <1>0 DEF NeverStranded, InterruptedStaysAway
  <1>4. ChannelsNeedConnection'
    BY <1>0 DEF ChannelsNeedConnection
  <1> QED BY <1>1, <1>2, <1>3, <1>4 DEF ConnInv

\* Every step preserves the invariant.
LEMMA ConnInvNext == ConnInv /\ [Next]_vars => ConnInv'
  <1> SUFFICES ASSUME ConnInv, [Next]_vars PROVE ConnInv'
    OBVIOUS
  <1>0. /\ interruptReasons \subseteq Reasons /\ authToken \in BOOLEAN
        /\ realtime \in {"nil", "connecting", "connected"}
    BY DEF ConnInv, ConnTypeOK
  <1>1. CASE setValue
    BY <1>0, <1>1, SameConn DEF setValue, connectionVars, retryVars
  <1>2. CASE open \/ resumeForReason("repo_interrupt")
    BY <1>2, ResumeConn DEF open
  <1>3. CASE interruptForReason("repo_interrupt") \/ onKill
    BY <1>3, InterruptConn DEF onKill, Reasons
  <1>4. CASE enteringForeground
    BY <1>4, EnteringForegroundConn
  <1>5. CASE retry
    BY <1>5, RetryConn
  <1>6. CASE fetchCallback
    BY <1>6, FetchCallbackConn
  <1>7. CASE close
    <2>1. onDisconnect(interruptReasons')
      BY <1>7 DEF close, onDisconnect, tryScheduleReconnect, shouldReconnect
    <2> QED BY <1>0, <1>7, <2>1, OnDisconnectConn DEF close
  <1>8. CASE onReady
    BY <1>0, <1>8, AdvanceConn DEF onReady, retryVars
  <1>9. CASE onAuthReply
    <2>0. down # <<>> /\ realtime = "connected"
      BY <1>9 DEF onAuthReply, ConnInv, ChannelsNeedConnection
    <2>1. CASE connectionState' = "Connected" /\ UNCHANGED <<realtime, scheduledRetry, authToken>>
      BY <1>0, <1>9, <2>0, <2>1, AdvanceConn DEF onAuthReply
    <2>2. CASE authToken' = FALSE /\ onDisconnect(interruptReasons)
      <3>1. onDisconnect(interruptReasons')
        BY <1>9, <2>2 DEF onAuthReply, onDisconnect, tryScheduleReconnect, shouldReconnect
      <3> QED BY <1>0, <1>9, <2>0, <2>2, <3>1, OnDisconnectConn DEF onAuthReply
    <2> QED BY <1>9, <2>1, <2>2 DEF onAuthReply, authReply
  <1>10. CASE onAuthRevoked
    <2>1. onDisconnect(interruptReasons')
      BY <1>10 DEF onAuthRevoked, onDisconnect, tryScheduleReconnect, shouldReconnect
    <2> QED BY <1>0, <1>10, <2>1, OnDisconnectConn DEF onAuthRevoked
  <1>11. CASE \E token \in BOOLEAN : refreshAuthToken(token)
    <2>1. connected <=> realtime = "connected"
      BY DEF ConnInv, AssertionsHold
    <2> QED BY <1>11, <2>1, SameConn DEF refreshAuthToken, retryVars
  <1>12. CASE \E query \in Queries : listen(query) \/ unlisten(query)
    <2>1. connected <=> realtime = "connected"
      BY DEF ConnInv, AssertionsHold
    <2> QED BY <1>0, <1>12, <2>1, SameConn DEF listen, unlisten, retryVars, connectionVars
  <1>13. CASE onListenReply
    BY <1>0, <1>13, SameConn DEF onListenReply, retryVars, ConnInv, ChannelsNeedConnection
  <1>14. CASE putInternal
    <2>1. canSendWrites => realtime = "connected"
      BY DEF ConnInv, AssertionsHold, connected, canSendWrites
    <2> QED BY <1>0, <1>14, <2>1, SameConn DEF putInternal, retryVars
  <1>15. CASE onPutReply
    BY <1>0, <1>15, SameConn DEF onPutReply, retryVars, ConnInv, ChannelsNeedConnection
  <1>16. CASE serve
    BY <1>0, <1>16, SameConn DEF serve, retryVars, ConnInv, ChannelsNeedConnection
  <1>17. CASE serveLingering
    BY <1>0, <1>17, SameConn DEF serveLingering, retryVars
  <1>18. CASE terminate
    BY <1>18, DisconnectedConn DEF terminate, Reasons
  <1>19. CASE launch
    <2>1. /\ interruptReasons # {} /\ alive = FALSE
      BY <1>19 DEF launch, ConnInv, ConnTypeOK, ChannelsNeedConnection
    <2>2. connectionState = "Disconnected" /\ scheduledRetry = FALSE
      BY <2>1 DEF ConnInv, ConnTypeOK, InterruptedStaysAway
    <2>3. realtime = "nil"
      BY <1>0, <2>2 DEF ConnInv, AssertionsHold, connected
    <2>4. up = <<>> /\ down = <<>>
      BY <2>3 DEF ConnInv, ChannelsNeedConnection
    <2>5. /\ UNCHANGED <<connectionState, interruptReasons, scheduledRetry, up, down,
                         currentFetchTokenAttempt, fetches, realtime, authToken>>
          /\ alive' = TRUE
      BY <1>19 DEF launch, retryVars
    <2>6. fetches \subseteq 1 .. currentFetchTokenAttempt /\ currentFetchTokenAttempt \in Nat
      BY DEF ConnInv, ConnTypeOK
    <2> QED BY <1>0, <2>1, <2>2, <2>3, <2>4, <2>5, <2>6, DisconnectedConn
  <1>20. CASE UNCHANGED vars
    BY <1>0, <1>20, SameConn DEF vars, connectionVars, retryVars
  <1> QED
    BY <1>1, <1>2, <1>3, <1>4, <1>5, <1>6, <1>7, <1>8, <1>9, <1>10, <1>11, <1>12, <1>13,
       <1>14, <1>15, <1>16, <1>17, <1>18, <1>19, <1>20 DEF Next, ClientNext

\* The state machine of the connection holds together, whatever order timers,
\* token callbacks, interruptions, losses and replies come in.
THEOREM ConnInvHolds == Spec => []ConnInv
  BY ConnInvInit, ConnInvNext, PTL DEF Spec

\* No assertion of the client's connection code can fire.
THEOREM AssertionsAlwaysHold == Spec => []AssertionsHold
  <1>1. ConnInv => AssertionsHold
    BY DEF ConnInv
  <1> QED BY <1>1, ConnInvHolds, PTL

\* A client that nothing interrupts always has something that will connect it.
THEOREM ClientIsNeverStranded == Spec => []NeverStranded
  <1>1. ConnInv => NeverStranded
    BY DEF ConnInv
  <1> QED BY <1>1, ConnInvHolds, PTL

\* An interrupted client stays away until it is resumed.
THEOREM InterruptedClientStaysAway == Spec => []InterruptedStaysAway
  <1>1. ConnInv => InterruptedStaysAway
    BY DEF ConnInv
  <1> QED BY <1>1, ConnInvHolds, PTL
=============================================================================
