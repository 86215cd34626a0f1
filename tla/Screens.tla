------------------------------ MODULE Screens ------------------------------
(***************************************************************************)
(* The screens of the app and what runs on its main thread between them:   *)
(* registration and sign-in (AuthController), the setup of a two-player    *)
(* game (StartTwoPlayerGame), the lobby (StartFourPlayerGame,              *)
(* SearchGameController) and the wait for players (FourPlayersGame).       *)
(*                                                                         *)
(* A request to the auth service is answered in two steps: the service     *)
(* acts, and later the callback runs on the main thread, if that thread is *)
(* free and the process still runs.                                        *)
(***************************************************************************)
EXTENDS Integers, FiniteSets

CONSTANTS Emails,       \* e-mail addresses that can be typed
          Passwords,    \* passwords that can be typed
          NoOne,        \* nobody, nothing
          MaxRequests,  \* bound on the requests made
          MaxGames,     \* bound on the games created in the lobby
          MaxBlocks     \* bound on the blocks waitPlayers posts

ASSUME NoOneAssumption == NoOne \notin Emails \cup Passwords
ASSUME ScreenBoundsAssumption ==
    MaxRequests \in Nat /\ MaxGames \in Nat /\ MaxBlocks \in Nat

VARIABLES
    main,         \* the main thread: running, spinning in waitPlayers, trapped
    screen,       \* the screen on top
    guest,        \* observer: AuthController was passed with nobody signed in
    uid,          \* StartFourPlayerGame.uid: read when the screen was created
    currentUser,  \* Auth.auth().currentUser, kept across launches
    fields,       \* the text fields of AuthController
    segment,      \* its segmented control: 0 registers, 1 signs in
    requests,     \* sent to the auth service, with what the closures captured
    answers,      \* answered, callback not run yet
    accounts,     \* the auth service: the password of every e-mail
    profiles,     \* the nodes users/<uid>
    info,         \* StartTwoPlayerGame.info: players and colour
    controls,     \* its two controls: players, colour, colour is momentary
    games,        \* the lobby: creators of the games under games
    blocks,       \* blocks posted by waitPlayers, waiting for the main thread
    sucsess,      \* FourPlayersGame.sucsess: ends the loop of waitPlayers
    sent          \* observer: how many requests were made

vars == <<main, screen, guest, uid, currentUser, fields, segment, requests, answers, accounts,
          profiles, info, controls, games, blocks, sucsess, sent>>

authVars  == <<requests, answers, accounts, profiles, sent>>
setupVars == <<info, controls>>
lobbyVars == <<games, blocks, sucsess>>

Users  == Emails \cup {NoOne}
Fields == [email : Emails \cup {NoOne}, password : Passwords \cup {NoOne}, name : BOOLEAN]
Request == [kind : {"register", "keyboard", "signIn"}, fields : Fields]

\* info and the controls of a new StartTwoPlayerGame.
FreshInfo     == [players |-> 1, color |-> 0]
FreshControls == [players |-> 0, color |-> 0, momentary |-> FALSE]

\* The screen the back button returns to, or the one under an alert.  No back
\* button returns from WelcomeScreen to AuthController.
Parent == [s \in {"StartTwo", "Load", "TwoPlayer", "Settings", "StartFour", "Search", "Alert"} |->
              CASE s = "Alert" -> "Auth"
                [] s \in {"StartTwo", "Settings", "StartFour"} -> "Welcome"
                [] s \in {"Load", "TwoPlayer"} -> "StartTwo"
                [] s = "Search" -> "StartFour"]

Launched ==
    /\ main = "running" /\ screen = "Auth" /\ uid = NoOne /\ guest = FALSE
    /\ fields = [email |-> NoOne, password |-> NoOne, name |-> FALSE]
    /\ segment = 0
    /\ requests = {} /\ answers = {}
    /\ info = FreshInfo /\ controls = FreshControls
    /\ blocks = 0 /\ sucsess = FALSE

Init ==
    /\ Launched
    /\ currentUser = NoOne
    /\ accounts = [e \in Emails |-> NoOne]
    /\ profiles = [e \in Emails |-> NoOne]
    /\ games = 0 /\ sent = 0

-----------------------------------------------------------------------------
(* AuthController.                                                         *)

OnAuth == main = "running" /\ screen = "Auth"

\* The user types.
type ==
    /\ OnAuth
    /\ \/ \E e \in Emails \cup {NoOne} : fields' = [fields EXCEPT !.email = e]
       \/ \E p \in Passwords \cup {NoOne} : fields' = [fields EXCEPT !.password = p]
       \/ fields' = [fields EXCEPT !.name = ~@]
    /\ UNCHANGED <<main, screen, guest, uid, currentUser, segment, authVars, setupVars, lobbyVars>>

segmentChanged ==
    /\ OnAuth
    /\ segment' = 1 - segment
    /\ UNCHANGED <<main, screen, guest, uid, currentUser, fields, authVars, setupVars, lobbyVars>>

\* The fields a request of this kind needs.
Filled(kind) ==
    /\ fields.email # NoOne /\ fields.password # NoOne
    /\ kind # "signIn" => fields.name

\* A request goes out with the fields as they are now; a field left empty
\* brings up an alert over AuthController instead.
ask(kind) ==
    \/ /\ Filled(kind)
       /\ sent < MaxRequests
       /\ sent' = sent + 1
       /\ requests' = requests \cup {[kind |-> kind, fields |-> fields]}
       /\ UNCHANGED screen
    \/ /\ ~Filled(kind)
       /\ screen' = "Alert"
       /\ UNCHANGED <<requests, sent>>

\* donePressed: register or signIn, by the segment.
donePressed ==
    /\ OnAuth
    /\ ask(IF segment = 0 THEN "register" ELSE "signIn")
    /\ UNCHANGED <<main, guest, uid, currentUser, fields, segment, answers, accounts, profiles,
                   setupVars, lobbyVars>>

\* The return key.  signup is never set, so it always registers.
textFieldShouldReturn ==
    /\ OnAuth
    /\ ask("keyboard")
    /\ UNCHANGED <<main, guest, uid, currentUser, fields, segment, answers, accounts, profiles,
                   setupVars, lobbyVars>>

\* The auth service handles a request: an e-mail can be registered once, and
\* opens only with its password.
handle(r) ==
    /\ requests' = requests \ {r}
    /\ LET e == r.fields.email
           ok == IF r.kind = "signIn" THEN accounts[e] = r.fields.password
                                      ELSE accounts[e] = NoOne
       IN  /\ accounts' = IF ok THEN [accounts EXCEPT ![e] = r.fields.password] ELSE accounts
           /\ answers' = answers \cup {[request |-> r, ok |-> ok]}
    /\ UNCHANGED <<main, screen, guest, uid, currentUser, fields, segment, profiles, sent,
                   setupVars, lobbyVars>>

\* performSegue from AuthController presents the navigation controller, and
\* does nothing once another screen or an alert covers AuthController.
leaveAuth ==
    IF screen = "Auth" THEN screen' = "Welcome" /\ guest' = FALSE
                       ELSE UNCHANGED <<screen, guest>>

\* dismiss on AuthController takes away what it has presented, the whole
\* navigation stack or an alert; AuthController is the root and stays.
dismiss == screen' = "Auth" /\ guest' = FALSE

profileWritten_fromFields(r) ==
    [profiles EXCEPT ![r.fields.email] = fields.password]

\* updateChildValues with the values captured when the request was made.
profileWritten(r) ==
    [profiles EXCEPT ![r.fields.email] = r.fields.password]

callback_whateverTheError(a) ==
    /\ main = "running"
    /\ answers' = answers \ {a}
    /\ currentUser' = IF a.ok THEN a.request.fields.email ELSE currentUser
    /\ profiles' = IF a.ok /\ a.request.kind # "signIn" THEN profileWritten(a.request)
                                                        ELSE profiles
    /\ IF a.request.kind = "keyboard" THEN dismiss ELSE leaveAuth
    /\ UNCHANGED <<main, uid, fields, segment, requests, accounts, sent, setupVars,
                   lobbyVars>>

\* The callback on the main thread.  An error is dropped.  The one of the
\* keyboard ends in dismiss, the others in the segue.
callback(a) ==
    /\ main = "running"
    /\ answers' = answers \ {a}
    /\ IF a.ok
       THEN /\ currentUser' = a.request.fields.email
            /\ profiles' = IF a.request.kind = "signIn" THEN profiles
                                                        ELSE profileWritten(a.request)
            /\ IF a.request.kind = "keyboard" THEN dismiss ELSE leaveAuth
       ELSE UNCHANGED <<currentUser, profiles, screen, guest>>
    /\ UNCHANGED <<main, uid, fields, segment, requests, accounts, sent, setupVars, lobbyVars>>

-----------------------------------------------------------------------------
(* Navigation.                                                             *)

push(from, to) == main = "running" /\ screen = from /\ screen' = to

\* The two buttons with the signs of social networks lead straight in.
skip ==
    /\ push("Auth", "Welcome")
    /\ guest' = (currentUser = NoOne)
    /\ UNCHANGED <<main, uid, currentUser, fields, segment, authVars, setupVars, lobbyVars>>

\* Welcome to its three children, StartTwo to the list of saves, StartFour to
\* the search.  A new controller starts with fresh properties.
open ==
    /\ \/ push("Welcome", "StartTwo") /\ info' = FreshInfo /\ controls' = FreshControls
          /\ UNCHANGED uid
       \/ push("Welcome", "StartFour") /\ uid' = currentUser /\ UNCHANGED setupVars
       \/ /\ \/ push("Welcome", "Settings")
             \/ push("StartTwo", "Load")
             \/ push("StartFour", "Search")
          /\ UNCHANGED <<uid, setupVars>>
    /\ UNCHANGED <<main, guest, currentUser, fields, segment, authVars, lobbyVars>>

\* The back button of the navigation bar, or the button of an alert.
back ==
    /\ main = "running" /\ screen \in DOMAIN Parent
    /\ screen' = Parent[screen]
    /\ UNCHANGED <<main, guest, uid, currentUser, fields, segment, authVars, setupVars,
                   lobbyVars>>

\* The process ends, by a trap or by the user, and is started again.  What
\* the auth service did not handle by then it never will.
relaunch ==
    /\ main' = "running" /\ screen' = "Auth" /\ uid' = NoOne /\ guest' = FALSE
    /\ fields' = [email |-> NoOne, password |-> NoOne, name |-> FALSE]
    /\ segment' = 0
    /\ requests' = {} /\ answers' = {}
    /\ info' = FreshInfo /\ controls' = FreshControls
    /\ blocks' = 0 /\ sucsess' = FALSE
    /\ UNCHANGED <<currentUser, accounts, profiles, games, sent>>

-----------------------------------------------------------------------------
(* StartTwoPlayerGame.                                                     *)

OnStartTwo == main = "running" /\ screen = "StartTwo"

switchPlayer_keepColor(index) ==
    /\ OnStartTwo /\ index # controls.players
    /\ IF index = 1
       THEN /\ controls' = [players |-> 1, color |-> -1, momentary |-> TRUE]
            /\ info' = [info EXCEPT !.players = 2]
       ELSE /\ controls' = [controls EXCEPT !.players = index, !.momentary = FALSE]
            /\ info' = [info EXCEPT !.players = 1]
    /\ UNCHANGED <<main, screen, guest, uid, currentUser, fields, segment, authVars, lobbyVars>>

switchPlayer_indexAsPlayers(index) ==
    /\ OnStartTwo /\ index # controls.players
    /\ IF index = 1
       THEN /\ controls' = [players |-> 1, color |-> -1, momentary |-> TRUE]
            /\ info' = [players |-> 2, color |-> 0]
       ELSE /\ controls' = [controls EXCEPT !.players = index, !.momentary = FALSE]
            /\ info' = [info EXCEPT !.players = index]
    /\ UNCHANGED <<main, screen, guest, uid, currentUser, fields, segment, authVars, lobbyVars>>

\* The value of PlayerQuantityControl changed.
switchPlayer(index) ==
    /\ OnStartTwo /\ index # controls.players
    /\ IF index = 1
       THEN /\ controls' = [players |-> 1, color |-> -1, momentary |-> TRUE]
            /\ info' = [players |-> 2, color |-> 0]
       ELSE /\ controls' = [controls EXCEPT !.players = index, !.momentary = FALSE]
            /\ info' = [info EXCEPT !.players = 1]
    /\ UNCHANGED <<main, screen, guest, uid, currentUser, fields, segment, authVars, lobbyVars>>

\* The value of FigureColorControl changed.  A momentary control forgets its
\* segment after the event.
switchColor(index) ==
    /\ OnStartTwo /\ index # controls.color
    /\ controls' = [controls EXCEPT !.color = IF controls.momentary THEN -1 ELSE index]
    /\ info' = [info EXCEPT !.color = IF index = 1 /\ ~controls.momentary THEN 1 ELSE 0]
    /\ UNCHANGED <<main, screen, guest, uid, currentUser, fields, segment, authVars, lobbyVars>>

\* The game starts with info as it is; viewDidLoad of TwoPlayerGame unwraps
\* the current user.
goToTwoPlayerGame ==
    /\ OnStartTwo
    /\ IF currentUser = NoOne
       THEN main' = "trapped" /\ UNCHANGED screen
       ELSE screen' = "TwoPlayer" /\ UNCHANGED main
    /\ UNCHANGED <<guest, uid, currentUser, fields, segment, authVars, setupVars, lobbyVars>>

-----------------------------------------------------------------------------
(* The lobby and the wait for players.                                     *)

\* createGame under the user the screen read when it was created, then
\* FourPlayersGame, whose viewDidLoad calls waitPlayers and does not return.
pressedMakeGame ==
    /\ main = "running" /\ screen = "StartFour"
    /\ IF uid = NoOne
       THEN main' = "trapped" /\ UNCHANGED <<screen, games>>
       ELSE /\ games < MaxGames
            /\ games' = games + 1
            /\ screen' = "FourPlayers"
            /\ main' = "spinning"
    /\ UNCHANGED <<guest, uid, currentUser, fields, segment, authVars, setupVars, blocks, sucsess>>

\* The list of games is never filled: selecting its one row indexes past it.
didSelectRow ==
    /\ main = "running" /\ screen = "Search"
    /\ main' = "trapped"
    /\ UNCHANGED <<screen, guest, uid, currentUser, fields, segment, authVars, setupVars,
                   lobbyVars>>

\* One turn of the loop of waitPlayers: it ends once sucsess is set, and
\* otherwise posts a block for the main thread, the thread it runs on.
waitPlayers ==
    /\ main = "spinning"
    /\ IF sucsess
       THEN main' = "running" /\ UNCHANGED blocks
       ELSE blocks < MaxBlocks /\ blocks' = blocks + 1 /\ UNCHANGED main
    /\ UNCHANGED <<screen, guest, uid, currentUser, fields, segment, authVars,
                   setupVars, games, sucsess>>

\* The main thread, when free, takes what was posted to it: a block of
\* waitPlayers, which unwraps the game nobody has set before it can come to
\* sucsess, or the callback of an answer.
mainQueue ==
    /\ main = "running"
    /\ IF blocks > 0
       THEN /\ blocks' = blocks - 1
            /\ main' = "trapped"
            /\ UNCHANGED <<screen, guest, uid, currentUser, fields, segment, authVars,
                           setupVars, games, sucsess>>
       ELSE \E a \in answers : callback(a)

Next ==
    \/ type \/ segmentChanged \/ donePressed \/ textFieldShouldReturn
    \/ \E r \in requests : handle(r)
    \/ mainQueue
    \/ skip \/ open \/ back \/ relaunch
    \/ \E index \in 0 .. 1 : switchPlayer(index) \/ switchColor(index)
    \/ goToTwoPlayerGame
    \/ pressedMakeGame \/ didSelectRow \/ waitPlayers

\* The auth service answers and the main thread runs what it is given; the
\* user does as he likes.
Fairness ==
    /\ WF_vars(\E r \in requests : handle(r))
    /\ WF_vars(mainQueue)
    /\ WF_vars(waitPlayers)

Spec == Init /\ [][Next]_vars /\ Fairness

-----------------------------------------------------------------------------
(* Properties.                                                             *)

\* Every variable keeps its type.
TypeOK ==
    /\ main \in {"running", "spinning", "trapped"}
    /\ screen \in {"Auth", "Welcome", "FourPlayers"} \cup DOMAIN Parent
    /\ guest \in BOOLEAN
    /\ uid \in Users /\ currentUser \in Users
    /\ fields \in Fields
    /\ segment \in 0 .. 1
    /\ requests \subseteq Request
    /\ answers \subseteq [request : Request, ok : BOOLEAN]
    /\ accounts \in [Emails -> Passwords \cup {NoOne}]
    /\ profiles \in [Emails -> Passwords \cup {NoOne}]
    /\ info \in [players : 1 .. 2, color : 0 .. 1]
    /\ controls \in [players : 0 .. 1, color : -1 .. 1, momentary : BOOLEAN]
    /\ sucsess \in BOOLEAN
    /\ games \in 0 .. MaxGames /\ blocks \in 0 .. MaxBlocks /\ sent \in 0 .. MaxRequests

\* A profile holds the password its account was created with, whatever the
\* user typed, pressed or sent between the press and the answer.
ProfilesMatchAccounts ==
    \A e \in Emails : profiles[e] # NoOne => profiles[e] = accounts[e]

\* The colour and the number of players a game is started with are the ones
\* the controls show, after any sequence of switches: with two players no
\* colour is shown and white is used.
SetupIsWhatIsShown ==
    screen \in {"StartTwo", "Load", "TwoPlayer"} =>
        /\ info.color = 1 <=> controls.color = 1
        /\ info.players = controls.players + 1
        /\ controls.momentary <=> controls.players = 1

\* The forced unwrap of a missing user, in TwoPlayerGame.viewDidLoad or in
\* pressedMakeGame, has ended the process.
NilUser == main = "trapped" /\ screen \in {"StartTwo", "StartFour"}

\* Whoever passes AuthController as somebody, by an answer or by a button that
\* skips the form while a user is known, never meets a missing user on the
\* screens behind it: only a stack of screens entered with nobody signed in
\* can.  A guest whom a late answer signs in is not covered: a lobby opened
\* before the answer keeps its nil uid.
OnlyGuestsMissTheUser == NilUser => guest

-----------------------------------------------------------------------------
(* What the user scripts say, and the code does not do.                    *)

\* A four-player game that was created starts: the wait for players ends.
GameStarts == main = "spinning" ~> main = "running"
=============================================================================
