--------------------------- MODULE ScreensProofs ---------------------------
(***************************************************************************)
(* Theorems about Screens, for any addresses and passwords, any number of  *)
(* requests, games and relaunches.  The invariant has three parts besides  *)
(* the types: what the requests and answers under way say about accounts,  *)
(* the controls of the setup, and why who came in as a user has a user.    *)
(***************************************************************************)
EXTENDS Screens, TLAPS

\* What is under way carries an address and a password, and an answer that
\* granted a request names the password of its account.
RequestsAreFilled ==
    /\ \A r \in requests : r.fields.email # NoOne /\ r.fields.password # NoOne
    /\ \A a \in answers :
          /\ a.request.fields.email # NoOne /\ a.request.fields.password # NoOne
          /\ a.ok => accounts[a.request.fields.email] = a.request.fields.password

\* Past AuthController there is a user, and the lobby has read it, unless
\* the form was passed with nobody signed in.  A block of waitPlayers waits only while
\* its loop holds the main thread, and nothing sets sucsess.
UserIsKnown ==
    /\ sucsess = FALSE
    /\ blocks > 0 => main = "spinning"
    /\ guest = FALSE /\ screen \notin {"Auth", "Alert"} => currentUser # NoOne
    /\ guest = FALSE /\ screen \in {"StartFour", "Search", "FourPlayers"} => uid # NoOne

ScreensInv ==
    /\ TypeOK
    /\ RequestsAreFilled
    /\ ProfilesMatchAccounts
    /\ SetupIsWhatIsShown
    /\ UserIsKnown
    /\ OnlyGuestsMissTheUser

-----------------------------------------------------------------------------

\* What a launch finds: empty fields, fresh controls, nothing posted.
LEMMA FreshFacts ==
    /\ [email |-> NoOne, password |-> NoOne, name |-> FALSE] \in Fields
    /\ FreshInfo \in [players : 1 .. 2, color : 0 .. 1]
    /\ FreshControls \in [players : 0 .. 1, color : -1 .. 1, momentary : BOOLEAN]
    /\ 0 \in 0 .. MaxGames /\ 0 \in 0 .. MaxBlocks /\ 0 \in 0 .. MaxRequests
    /\ NoOne \in Users
  <1>1. [email |-> NoOne, password |-> NoOne, name |-> FALSE] \in Fields
    BY DEF Fields
  <1>2. FreshInfo \in [players : 1 .. 2, color : 0 .. 1]
    BY DEF FreshInfo
  <1>3. FreshControls \in [players : 0 .. 1, color : -1 .. 1, momentary : BOOLEAN]
    BY DEF FreshControls
  <1> QED BY <1>1, <1>2, <1>3, ScreenBoundsAssumption DEF Users

\* A launch with an empty auth service satisfies the invariant.
LEMMA ScreensInvInit == Init => ScreensInv
  <1> SUFFICES ASSUME Init PROVE ScreensInv
    OBVIOUS
  <1>1. TypeOK
    <2>1. /\ main \in {"running", "spinning", "trapped"}
          /\ screen \in {"Auth", "Welcome", "FourPlayers"} \cup DOMAIN Parent
          /\ segment \in 0 .. 1
      BY DEF Init, Launched
    <2>2. /\ guest \in BOOLEAN /\ sucsess \in BOOLEAN
          /\ requests \subseteq Request
          /\ answers \subseteq [request : Request, ok : BOOLEAN]
      BY Zenon DEF Init, Launched
    <2>3. /\ accounts \in [Emails -> Passwords \cup {NoOne}]
          /\ profiles \in [Emails -> Passwords \cup {NoOne}]
      BY DEF Init
    <2>4. /\ uid \in Users /\ currentUser \in Users /\ fields \in Fields
          /\ info \in [players : 1 .. 2, color : 0 .. 1]
          /\ controls \in [players : 0 .. 1, color : -1 .. 1, momentary : BOOLEAN]
          /\ games \in 0 .. MaxGames /\ blocks \in 0 .. MaxBlocks
          /\ sent \in 0 .. MaxRequests
      BY FreshFacts DEF Init, Launched
    <2> QED BY <2>1, <2>2, <2>3, <2>4 DEF TypeOK
  <1>2. RequestsAreFilled /\ UserIsKnown
    BY DEF Init, Launched, RequestsAreFilled, UserIsKnown
  <1>3. ProfilesMatchAccounts /\ SetupIsWhatIsShown /\ OnlyGuestsMissTheUser
    BY DEF Init, Launched, ProfilesMatchAccounts, SetupIsWhatIsShown,
           OnlyGuestsMissTheUser, NilUser
  <1> QED BY <1>1, <1>2, <1>3 DEF ScreensInv

\* The type of a request, field by field.
LEMMA RequestFacts ==
    ASSUME NEW r \in Request
    PROVE  /\ r.fields \in Fields
           /\ r.fields.email \in Emails \cup {NoOne}
           /\ r.fields.password \in Passwords \cup {NoOne}
  BY DEF Request, Fields

\* A press of done or of the return key sends a filled form.
LEMMA AskFacts ==
    ASSUME TypeOK, NEW kind \in {"register", "keyboard", "signIn"}, ask(kind),
           RequestsAreFilled, UNCHANGED <<answers, accounts>>
    PROVE  /\ requests' \subseteq Request
           /\ sent' \in 0 .. MaxRequests
           /\ screen' = screen \/ screen' = "Alert"
           /\ RequestsAreFilled'
  <1>1. [kind |-> kind, fields |-> fields] \in Request
    BY DEF TypeOK, Request
  <1>2. /\ requests' \subseteq Request /\ sent' \in 0 .. MaxRequests
        /\ screen' = screen \/ screen' = "Alert"
    BY <1>1, ScreenBoundsAssumption DEF TypeOK, ask
  <1>3. RequestsAreFilled'
    BY DEF ask, Filled, RequestsAreFilled
  <1> QED BY <1>2, <1>3

\* The auth service handles a request: accounts are created, never changed,
\* so answers and profiles stay right.
LEMMA HandleFacts ==
    ASSUME ScreensInv, NEW r \in requests, handle(r)
    PROVE  ScreensInv'
  <1> DEFINE e == r.fields.email
             ok == IF r.kind = "signIn" THEN accounts[e] = r.fields.password
                                        ELSE accounts[e] = NoOne
  <1>1. r \in Request /\ e \in Emails /\ r.fields.password \in Passwords
        /\ r.fields.password # NoOne
    BY RequestFacts DEF ScreensInv, TypeOK, RequestsAreFilled
  <1>2. /\ accounts' = IF ok THEN [accounts EXCEPT ![e] = r.fields.password] ELSE accounts
        /\ answers' = answers \cup {[request |-> r, ok |-> ok]}
        /\ requests' = requests \ {r}
        /\ ok \in BOOLEAN
    BY DEF handle
  <1>3. accounts \in [Emails -> Passwords \cup {NoOne}]
    BY DEF ScreensInv, TypeOK
  <1>4. ok => accounts'[e] = r.fields.password
    BY <1>1, <1>2, <1>3
  <1>5. \A d \in Emails : accounts[d] # NoOne => accounts'[d] = accounts[d]
    BY <1>1, <1>2, <1>3
  <1>6. accounts' \in [Emails -> Passwords \cup {NoOne}]
    BY <1>1, <1>2, <1>3
  <1> HIDE DEF ok
  <1>7. TypeOK'
    BY <1>1, <1>2, <1>6 DEF handle, ScreensInv, TypeOK, setupVars, lobbyVars
  <1>8. RequestsAreFilled'
    <2>1. ASSUME NEW a \in answers
          PROVE  /\ a.request.fields.email # NoOne /\ a.request.fields.password # NoOne
                 /\ a.ok => accounts'[a.request.fields.email] = a.request.fields.password
      <3>1. /\ a.request.fields.email # NoOne /\ a.request.fields.password # NoOne
            /\ a.ok => accounts[a.request.fields.email] = a.request.fields.password
        BY DEF ScreensInv, RequestsAreFilled
      <3>2. a.request \in Request
        BY DEF ScreensInv, TypeOK
      <3>3. a.request.fields.email \in Emails
        BY <3>1, <3>2, RequestFacts
      <3> QED BY <1>5, <3>1, <3>3
    <2>2. ASSUME NEW a \in answers' PROVE a \in answers \/ a = [request |-> r, ok |-> ok]
      BY <1>2
    <2> QED BY <1>1, <1>2, <1>4, <2>1, <2>2 DEF ScreensInv, RequestsAreFilled
  <1>9. ProfilesMatchAccounts'
    BY <1>5 DEF handle, ScreensInv, ProfilesMatchAccounts
  <1>10. (SetupIsWhatIsShown /\ UserIsKnown /\ OnlyGuestsMissTheUser)'
    BY DEF handle, ScreensInv, SetupIsWhatIsShown, UserIsKnown, OnlyGuestsMissTheUser, NilUser,
           setupVars, lobbyVars
  <1> QED BY <1>7, <1>8, <1>9, <1>10 DEF ScreensInv

\* A callback writes the profile of the account the request created, also if
\* the form has changed and other requests were answered since.
LEMMA CallbackFacts ==
    ASSUME ScreensInv, NEW a \in answers, callback(a)
    PROVE  ScreensInv'
  <1> DEFINE e == a.request.fields.email
             p == a.request.fields.password
  <1>1. a.request \in Request /\ e \in Emails /\ p \in Passwords
    BY RequestFacts DEF ScreensInv, TypeOK, RequestsAreFilled
  <1>2. \/ profiles' = profiles
        \/ a.ok /\ profiles' = [profiles EXCEPT ![e] = p]
    BY DEF callback, profileWritten
  <1>3. currentUser' = currentUser \/ currentUser' = e
    BY DEF callback
  <1>4. /\ main = "running" /\ answers' = answers \ {a}
        /\ \/ screen' = screen /\ guest' = guest
           \/ screen' = "Welcome" /\ guest' = FALSE /\ currentUser' = e
           \/ screen' = "Auth" /\ guest' = FALSE
    BY DEF callback, leaveAuth, dismiss
  <1>5. UNCHANGED <<main, uid, fields, segment, requests, accounts, sent, info,
                    controls, games, blocks, sucsess>>
    BY DEF callback, setupVars, lobbyVars
  <1>6. a.ok => accounts[e] = p
    BY DEF ScreensInv, RequestsAreFilled
  <1>7. TypeOK'
    <2>1. profiles' \in [Emails -> Passwords \cup {NoOne}]
      BY <1>1, <1>2 DEF ScreensInv, TypeOK
    <2>2. currentUser' \in Users
      BY <1>1, <1>3 DEF ScreensInv, TypeOK, Users
    <2>3. /\ screen' \in {"Auth", "Welcome", "FourPlayers"} \cup DOMAIN Parent
          /\ guest' \in BOOLEAN
      BY <1>4 DEF ScreensInv, TypeOK
    <2> QED BY <1>4, <1>5, <2>1, <2>2, <2>3 DEF ScreensInv, TypeOK
  <1>8. RequestsAreFilled'
    BY <1>4, <1>5 DEF ScreensInv, RequestsAreFilled
  <1>9. ProfilesMatchAccounts'
    <2>1. profiles \in [Emails -> Passwords \cup {NoOne}]
      BY DEF ScreensInv, TypeOK
    <2> QED BY <1>1, <1>2, <1>5, <1>6, <2>1 DEF ScreensInv, ProfilesMatchAccounts
  <1>10. SetupIsWhatIsShown' /\ UserIsKnown' /\ OnlyGuestsMissTheUser'
    <2>1. e # NoOne
      BY <1>1, NoOneAssumption
    <2> QED BY <1>3, <1>4, <1>5, <2>1
            DEF ScreensInv, SetupIsWhatIsShown, UserIsKnown, OnlyGuestsMissTheUser, NilUser
  <1> QED BY <1>7, <1>8, <1>9, <1>10 DEF ScreensInv

-----------------------------------------------------------------------------

\* Every step of the user, the auth service and the main thread preserves the
\* invariant.
LEMMA ScreensInvStep == ScreensInv /\ [Next]_vars => ScreensInv'
  <1> SUFFICES ASSUME ScreensInv, [Next]_vars PROVE ScreensInv'
    OBVIOUS
  <1> USE DEF authVars, setupVars, lobbyVars
  <1>1. CASE type
    <2>1. fields' \in Fields
      BY <1>1 DEF type, ScreensInv, TypeOK, Fields
    <2>2. UNCHANGED <<main, screen, guest, uid, currentUser, segment, requests, answers,
                      accounts, profiles, sent, info, controls, games, blocks, sucsess>>
      BY <1>1 DEF type
    <2>3. TypeOK' BY <2>1, <2>2 DEF ScreensInv, TypeOK
    <2> QED BY <2>2, <2>3 DEF ScreensInv, RequestsAreFilled, ProfilesMatchAccounts,
              SetupIsWhatIsShown, UserIsKnown, OnlyGuestsMissTheUser, NilUser
  <1>2. CASE segmentChanged
    <2>1. segment' \in 0 .. 1
      BY <1>2 DEF segmentChanged, ScreensInv, TypeOK
    <2>2. UNCHANGED <<main, screen, guest, uid, currentUser, fields, requests, answers,
                      accounts, profiles, sent, info, controls, games, blocks, sucsess>>
      BY <1>2 DEF segmentChanged
    <2>3. TypeOK' BY <2>1, <2>2 DEF ScreensInv, TypeOK
    <2> QED BY <2>2, <2>3 DEF ScreensInv, RequestsAreFilled, ProfilesMatchAccounts,
              SetupIsWhatIsShown, UserIsKnown, OnlyGuestsMissTheUser, NilUser
  <1>3. CASE donePressed \/ textFieldShouldReturn
    <2>1. PICK kind \in {"register", "keyboard", "signIn"} : ask(kind)
      BY <1>3 DEF donePressed, textFieldShouldReturn
    <2>2. UNCHANGED <<main, guest, uid, currentUser, fields, segment, answers,
                      accounts, profiles, info, controls, games, blocks, sucsess>>
      BY <1>3 DEF donePressed, textFieldShouldReturn
    <2>3. /\ requests' \subseteq Request /\ sent' \in 0 .. MaxRequests
          /\ screen' = screen \/ screen' = "Alert"
          /\ RequestsAreFilled'
      BY <2>1, <2>2, AskFacts DEF ScreensInv
    <2>4. TypeOK' BY <2>2, <2>3 DEF ScreensInv, TypeOK, Parent
    <2>5. main = "running"
      BY <1>3 DEF donePressed, textFieldShouldReturn, OnAuth
    <2> QED BY <2>2, <2>3, <2>4, <2>5 DEF ScreensInv, ProfilesMatchAccounts,
              SetupIsWhatIsShown, UserIsKnown, OnlyGuestsMissTheUser, NilUser
  <1>4. ASSUME NEW r \in requests, handle(r) PROVE ScreensInv'
    BY <1>4, HandleFacts
  <1>5. CASE mainQueue
    <2>1. main = "running" /\ ~(blocks > 0)
      BY <1>5 DEF mainQueue, ScreensInv, UserIsKnown
    <2> QED BY <1>5, <2>1, CallbackFacts DEF mainQueue
  <1>6. CASE skip \/ open \/ back
    <2>1. UNCHANGED <<main, currentUser, fields, segment, requests, answers, accounts,
                      profiles, sent, games, blocks, sucsess>>
      BY <1>6 DEF skip, open, back, push
    <2>2. main = "running"
      BY <1>6 DEF skip, open, back, push
    <2>3. CASE skip
      <3>1. /\ UNCHANGED <<uid, info, controls>> /\ screen' = "Welcome"
            /\ guest' = (currentUser = NoOne)
        BY <2>3 DEF skip, push
      <3>2. guest' \in BOOLEAN
        BY <3>1, Zenon
      <3> QED BY <2>1, <2>2, <3>1, <3>2 DEF ScreensInv, TypeOK, RequestsAreFilled,
                ProfilesMatchAccounts, SetupIsWhatIsShown, UserIsKnown,
                OnlyGuestsMissTheUser, NilUser
    <2>4. CASE open
      <3>1. guest' = guest
        BY <2>4 DEF open
      <3>2. \/ /\ screen = "Welcome" /\ screen' = "StartTwo" /\ uid' = uid
               /\ info' = FreshInfo /\ controls' = FreshControls
            \/ /\ screen = "Welcome" /\ screen' = "StartFour" /\ uid' = currentUser
               /\ UNCHANGED <<info, controls>>
            \/ /\ <<screen, screen'>> \in {<<"Welcome", "Settings">>, <<"StartTwo", "Load">>,
                                           <<"StartFour", "Search">>}
               /\ UNCHANGED <<uid, info, controls>>
        BY <2>4 DEF open, push
      <3>3. TypeOK'
        <4>1. screen' \in {"Auth", "Welcome", "FourPlayers"} \cup DOMAIN Parent
          BY <3>2 DEF Parent
        <4>2. /\ uid' \in Users
              /\ info' \in [players : 1 .. 2, color : 0 .. 1]
              /\ controls' \in [players : 0 .. 1, color : -1 .. 1, momentary : BOOLEAN]
          BY <3>2, FreshFacts DEF ScreensInv, TypeOK
        <4> QED BY <2>1, <3>1, <4>1, <4>2 DEF ScreensInv, TypeOK
      <3>4. SetupIsWhatIsShown'
        BY <3>2 DEF ScreensInv, SetupIsWhatIsShown, FreshInfo, FreshControls
      <3>5. UserIsKnown' /\ OnlyGuestsMissTheUser'
        BY <2>1, <2>2, <3>1, <3>2 DEF ScreensInv, UserIsKnown, OnlyGuestsMissTheUser, NilUser
      <3> QED BY <2>1, <3>3, <3>4, <3>5 DEF ScreensInv, RequestsAreFilled,
                ProfilesMatchAccounts
    <2>5. CASE back
      <3>1. UNCHANGED <<guest, uid, info, controls>>
        BY <2>5 DEF back
      <3>2. \/ screen \in {"StartTwo", "Settings", "StartFour"} /\ screen' = "Welcome"
            \/ screen = "Alert" /\ screen' = "Auth"
            \/ screen \in {"Load", "TwoPlayer"} /\ screen' = "StartTwo"
            \/ screen = "Search" /\ screen' = "StartFour"
        BY <2>5 DEF back, Parent
      <3>3. TypeOK'
        BY <2>1, <3>1, <3>2 DEF ScreensInv, TypeOK, Parent
      <3> QED BY <2>1, <2>2, <3>1, <3>2, <3>3 DEF ScreensInv, RequestsAreFilled,
                ProfilesMatchAccounts, SetupIsWhatIsShown, UserIsKnown,
                OnlyGuestsMissTheUser, NilUser
    <2> QED BY <1>6, <2>3, <2>4, <2>5
  <1>7. CASE relaunch
    <2>1. TypeOK'
      <3>1. /\ main' \in {"running", "spinning", "trapped"}
            /\ screen' \in {"Auth", "Welcome", "FourPlayers"} \cup DOMAIN Parent
            /\ segment' \in 0 .. 1
        BY <1>7 DEF relaunch
      <3>2. /\ guest' \in BOOLEAN /\ sucsess' \in BOOLEAN
            /\ requests' \subseteq Request
            /\ answers' \subseteq [request : Request, ok : BOOLEAN]
        BY <1>7, Zenon DEF relaunch
      <3>3. /\ uid' \in Users /\ fields' \in Fields
            /\ info' \in [players : 1 .. 2, color : 0 .. 1]
            /\ controls' \in [players : 0 .. 1, color : -1 .. 1, momentary : BOOLEAN]
            /\ blocks' \in 0 .. MaxBlocks
        BY <1>7, FreshFacts DEF relaunch
      <3>4. UNCHANGED <<currentUser, accounts, profiles, games, sent>>
        BY <1>7 DEF relaunch
      <3> QED BY <3>1, <3>2, <3>3, <3>4 DEF ScreensInv, TypeOK
    <2>2. RequestsAreFilled' /\ ProfilesMatchAccounts'
      BY <1>7 DEF relaunch, ScreensInv, RequestsAreFilled, ProfilesMatchAccounts
    <2>3. SetupIsWhatIsShown' /\ UserIsKnown' /\ OnlyGuestsMissTheUser'
      BY <1>7 DEF relaunch, SetupIsWhatIsShown, UserIsKnown, OnlyGuestsMissTheUser, NilUser
    <2> QED BY <2>1, <2>2, <2>3 DEF ScreensInv
  <1>8. ASSUME NEW index \in 0 .. 1, switchPlayer(index) \/ switchColor(index)
        PROVE  ScreensInv'
    <2>1. UNCHANGED <<main, screen, guest, uid, currentUser, fields, segment, requests,
                      answers, accounts, profiles, sent, games, blocks, sucsess>>
      BY <1>8 DEF switchPlayer, switchColor
    <2>2. screen = "StartTwo" /\ SetupIsWhatIsShown
      BY <1>8 DEF switchPlayer, switchColor, OnStartTwo, ScreensInv
    <2>3. /\ info \in [players : 1 .. 2, color : 0 .. 1]
          /\ controls \in [players : 0 .. 1, color : -1 .. 1, momentary : BOOLEAN]
          /\ info.color = 1 <=> controls.color = 1
          /\ info.players = controls.players + 1
          /\ controls.momentary <=> controls.players = 1
      BY <2>2 DEF ScreensInv, TypeOK, SetupIsWhatIsShown
    <2>4. /\ info' \in [players : 1 .. 2, color : 0 .. 1]
          /\ controls' \in [players : 0 .. 1, color : -1 .. 1, momentary : BOOLEAN]
          /\ SetupIsWhatIsShown'
      <3>1. CASE index = 1 /\ switchPlayer(index)
        <4>1. /\ controls' = [players |-> 1, color |-> -1, momentary |-> TRUE]
              /\ info' = [players |-> 2, color |-> 0]
          BY <3>1 DEF switchPlayer
        <4> QED BY <4>1 DEF SetupIsWhatIsShown
      <3>2. CASE index = 0 /\ switchPlayer(index)
        <4>1. /\ controls' = [players |-> 0, color |-> controls.color, momentary |-> FALSE]
              /\ info' = [players |-> 1, color |-> info.color]
          <5>1. /\ controls' = [controls EXCEPT !.players = 0, !.momentary = FALSE]
                /\ info' = [info EXCEPT !.players = 1]
            BY <3>2 DEF switchPlayer
          <5> QED BY <2>3, <5>1
        <4> QED BY <2>3, <4>1 DEF SetupIsWhatIsShown
      <3>3. CASE switchColor(index)
        <4>1. controls' = [players |-> controls.players,
                           color |-> IF controls.momentary THEN -1 ELSE index,
                           momentary |-> controls.momentary]
          BY <2>3, <3>3 DEF switchColor
        <4>2. info' = [players |-> info.players,
                       color |-> IF index = 1 /\ ~controls.momentary THEN 1 ELSE 0]
          BY <2>3, <3>3 DEF switchColor
        <4> QED BY <2>3, <4>1, <4>2 DEF SetupIsWhatIsShown
      <3> QED BY <1>8, <3>1, <3>2, <3>3
    <2>5. TypeOK'
      BY <2>1, <2>4 DEF ScreensInv, TypeOK
    <2> QED BY <2>1, <2>4, <2>5 DEF ScreensInv, RequestsAreFilled,
              ProfilesMatchAccounts, UserIsKnown, OnlyGuestsMissTheUser, NilUser
  <1>9. CASE goToTwoPlayerGame
    <2>1. UNCHANGED <<guest, uid, currentUser, fields, segment, requests, answers, accounts,
                      profiles, sent, info, controls, games, blocks, sucsess>>
      BY <1>9 DEF goToTwoPlayerGame
    <2>2. /\ screen = "StartTwo" /\ main = "running"
          /\ \/ currentUser = NoOne /\ main' = "trapped" /\ screen' = screen
             \/ screen' = "TwoPlayer" /\ main' = main
      BY <1>9 DEF goToTwoPlayerGame, OnStartTwo
    <2>3. TypeOK'
      BY <2>1, <2>2 DEF ScreensInv, TypeOK, Parent
    <2> QED BY <2>1, <2>2, <2>3 DEF ScreensInv, TypeOK, RequestsAreFilled,
              ProfilesMatchAccounts, SetupIsWhatIsShown, UserIsKnown,
              OnlyGuestsMissTheUser, NilUser
  <1>10. CASE pressedMakeGame
    <2>1. UNCHANGED <<guest, uid, currentUser, fields, segment, requests, answers, accounts,
                      profiles, sent, info, controls, blocks, sucsess>>
      BY <1>10 DEF pressedMakeGame
    <2>2. /\ screen = "StartFour" /\ main = "running"
          /\ \/ uid = NoOne /\ main' = "trapped" /\ UNCHANGED <<screen, games>>
             \/ /\ games < MaxGames /\ games' = games + 1
                /\ uid # NoOne /\ screen' = "FourPlayers" /\ main' = "spinning"
      BY <1>10 DEF pressedMakeGame
    <2>3. TypeOK'
      BY <2>1, <2>2, ScreenBoundsAssumption DEF ScreensInv, TypeOK, Parent
    <2> QED BY <2>1, <2>2, <2>3 DEF ScreensInv, TypeOK, RequestsAreFilled,
              ProfilesMatchAccounts, SetupIsWhatIsShown, UserIsKnown,
              OnlyGuestsMissTheUser, NilUser
  <1>11. CASE didSelectRow \/ waitPlayers
    <2>1. UNCHANGED <<screen, guest, uid, currentUser, fields, segment, requests, answers,
                      accounts, profiles, sent, info, controls, games, sucsess>>
      BY <1>11 DEF didSelectRow, waitPlayers
    <2>2. \/ screen = "Search" /\ main = "running" /\ main' = "trapped" /\ blocks' = blocks
          \/ /\ main = "spinning" /\ main' = "spinning"
             /\ blocks < MaxBlocks /\ blocks' = blocks + 1
      BY <1>11 DEF didSelectRow, waitPlayers, ScreensInv, UserIsKnown
    <2>3. TypeOK'
      BY <2>1, <2>2, ScreenBoundsAssumption DEF ScreensInv, TypeOK
    <2> QED BY <2>1, <2>2, <2>3 DEF ScreensInv, TypeOK, RequestsAreFilled,
              ProfilesMatchAccounts, SetupIsWhatIsShown, UserIsKnown,
              OnlyGuestsMissTheUser, NilUser
  <1>12. CASE UNCHANGED vars
    BY <1>12 DEF vars, ScreensInv, TypeOK, RequestsAreFilled,
           ProfilesMatchAccounts, SetupIsWhatIsShown, UserIsKnown,
           OnlyGuestsMissTheUser, NilUser
  <1> QED
    BY <1>1, <1>2, <1>3, <1>4, <1>5, <1>6, <1>7, <1>8, <1>9, <1>10, <1>11, <1>12 DEF Next

\* The invariant holds in every run of the app.
THEOREM ScreensInvariant == Spec => []ScreensInv
  BY ScreensInvInit, ScreensInvStep, PTL DEF Spec

\* The types of Screens, for any addresses, passwords and bounds.
THEOREM ScreensTypes == Spec => []TypeOK
  <1>1. ScreensInv => TypeOK BY DEF ScreensInv
  <1> QED BY <1>1, ScreensInvariant, PTL

\* register writes the profile with the values its closure captured: however
\* requests, answers and changes of the form interleave, a profile holds the
\* password of its account.
THEOREM ProfilesAlwaysMatch == Spec => []ProfilesMatchAccounts
  <1>1. ScreensInv => ProfilesMatchAccounts BY DEF ScreensInv
  <1> QED BY <1>1, ScreensInvariant, PTL

\* After any sequence of switchPlayer and switchColor, and of screens left and
\* entered again, info is what the two controls show.
THEOREM SetupIsAlwaysShown == Spec => []SetupIsWhatIsShown
  <1>1. ScreensInv => SetupIsWhatIsShown BY DEF ScreensInv
  <1> QED BY <1>1, ScreensInvariant, PTL

\* Whoever passes AuthController with a user known, whenever answers arrive,
\* alerts are up or the stack is dismissed, meets no forced unwrap of a missing
\* user in TwoPlayerGame.viewDidLoad or pressedMakeGame.
THEOREM KnownUsersAreNeverMissed == Spec => []OnlyGuestsMissTheUser
  <1>1. ScreensInv => OnlyGuestsMissTheUser BY DEF ScreensInv
  <1> QED BY <1>1, ScreensInvariant, PTL
=============================================================================
