------------------------------- MODULE TaskPage -------------------------------
(***************************************************************************)
(* The page of a task in a browser (TaskDetail.vue), with the session it   *)
(* lives in (http.js, Login.vue, the router's guard) and as much of the    *)
(* server as answers it.  The page asks for its task on a timer, when it   *)
(* is opened and when the route changes, without waiting for earlier       *)
(* answers or cancelling them: answers come in any order, some after the   *)
(* user has moved on, signed out or signed in again.  A 401, also the one  *)
(* that answers a wrong password, removes the token that is stored then.   *)
(*                                                                         *)
(* A refresh is two calls: getTask, then the six lists, here as one.  What *)
(* the server has of a task is a revision of it.                           *)
(***************************************************************************)
EXTENDS Naturals

CONSTANTS
  Tasks,        \* ids of tasks
  Login,        \* the login page, open to everybody
  Home,         \* the dashboard; the page of resources is like it
  List,         \* the pages without a timer: lists and forms
  Calls,        \* bound: the calls the browser may have under way
  MaxChanges,   \* bound: changes of tasks on the server
  MaxMoves,     \* bound: navigations by the user
  MaxLogins,    \* bound: sign-ins; also the tokens 1, 2, ...
  MaxFaults,    \* bound: calls that fail (time since, 5xx)
  Nothing,      \* nothing shown
  Waiting, Failed, Denied  \* no answer yet; an error; a 401

ASSUME RouteAssumption ==
  /\ Login # Home /\ Login # List /\ Home # List
  /\ {Login, Home, List} \cap Tasks = {}
ASSUME AnswerAssumption ==
  /\ Waiting # Failed /\ Waiting # Denied /\ Failed # Denied
  /\ {Waiting, Failed, Denied} \cap 0..MaxChanges = {}
ASSUME BoundsAssumption ==
  /\ MaxChanges \in Nat /\ MaxMoves \in Nat /\ MaxLogins \in Nat /\ MaxFaults \in Nat

VARIABLES
  rev,       \* server: revision of each task
  gone,      \* server: deleted tasks
  expired,   \* server: tokens it does not accept any more
  token,     \* localStorage.dast_token, 0 if none
  route,     \* the current route: a task, Home, List or Login
  signIn,    \* a sign-in: "no", "asked", or "stored" and on the way to Home
  task,      \* the task shown: id and revision
  parts,     \* the lists shown
  calls,     \* the calls under way
  live,      \* those whose component is still mounted
  since,     \* history: the first token of a sign-in with no call under way, 0
             \* if there is none after the last sign-out or wrong password
  logins, moves, changes, faults  \* how much of each bound is spent

server == <<rev, gone, expired>>
page   == <<token, route, signIn, task, parts>>
used   == <<logins, moves, changes, faults>>
vars   == <<server, page, calls, live, since, used>>

-----------------------------------------------------------------------------
\* The pages that refresh on their own.
Timed   == Tasks \cup {Home}
Routes  == Timed \cup {List, Login}
Tokens  == 1..MaxLogins

Shown   == [id : Tasks, rev : 0..MaxChanges] \cup {Nothing}
Idle    == [step |-> "idle", id |-> Home, token |-> 0, answer |-> Waiting]
Steps   == {"idle", "getTask", "lists", "other"}
Answers == 0..MaxChanges \cup {Waiting, Failed, Denied}

TypeOK ==
  /\ rev \in [Tasks -> 0..MaxChanges] /\ gone \subseteq Tasks /\ expired \subseteq Tokens
  /\ token \in Tokens \cup {0} /\ route \in Routes /\ signIn \in {"no", "asked", "stored"}
  /\ task \in Shown /\ parts \in Shown
  /\ calls \in [Calls -> [step : Steps, id : Routes, token : Tokens \cup {0}, answer : Answers]]
  /\ live \subseteq Calls
  /\ since \in Tokens \cup {0}

Init ==
  /\ rev = [t \in Tasks |-> 0] /\ gone = {} /\ expired = {}
  /\ token = 0 /\ route = Login /\ signIn = "no"
  /\ task = Nothing /\ parts = Nothing
  /\ calls = [c \in Calls |-> Idle] /\ live = {}
  /\ since = 0
  /\ logins = 0 /\ moves = 0 /\ changes = 0 /\ faults = 0

-----------------------------------------------------------------------------
(* Calls *)

\* Mutant: the header is made once, when the application loads.
BearerAtLoad == 0

\* The token a call carries: that of the moment (the request interceptor).
Bearer == token

\* Mutant: the page refreshes what it shows.
IdShown(r) == IF task # Nothing THEN task.id ELSE r

\* taskID at the start of a refresh.
TaskID(r) == r

Send(c, step, id) == [calls EXCEPT ![c] =
  [step |-> step, id |-> id, token |-> Bearer, answer |-> Waiting]]

\* refresh() of the page at r, one more call under way.
Refresh(r) ==
  \E c \in Calls :
    /\ calls[c].step = "idle"
    /\ calls' = IF r \in Tasks THEN Send(c, "getTask", TaskID(r)) ELSE Send(c, "other", Home)
    /\ live' = (IF r = route \/ {r, route} \subseteq Tasks THEN live ELSE {}) \cup {c}

\* The components of the route are gone; their calls are not.
Unmount ==
  /\ task' = Nothing
  /\ parts' = Nothing
  /\ live' = {}

\* A navigation ends the one under way.
Superseded == IF signIn = "stored" THEN "no" ELSE signIn

\* Mutant: the token is dropped and the page stays.
StaysThere == route

\* Where a 401 leads to.
SentTo == Login

\* The response interceptor, for a 401: whoever is signed in now is signed out.
Unauthorized ==
  /\ token' = 0
  /\ IF route = Login THEN UNCHANGED <<route, task, parts, live>>
     ELSE route' = SentTo /\ Unmount

-----------------------------------------------------------------------------
(* The user and the timer *)

Again == Refresh(route) /\ UNCHANGED <<server, page, since, used>>

\* setInterval, on the pages that have one.
Timer == route \in Timed /\ Again

\* The user asks for an action or a refresh.
Button == route # Login /\ Again

\* From task to task the component stays (watch), else it is a new one (onMounted).
\* Without a token the guard leads to the login page; that is open to everybody.
\* A move supersedes the one to the dashboard.
Visit(r) ==
  /\ route # r /\ moves < MaxMoves
  /\ moves' = moves + 1
  /\ IF r = Login \/ token = 0
       THEN route' = Login /\ Unmount /\ UNCHANGED calls
       ELSE /\ route' = r
            /\ Refresh(r)
            /\ IF {r, route} \subseteq Tasks THEN UNCHANGED <<task, parts>>
               ELSE task' = Nothing /\ parts' = Nothing
  /\ signIn' = Superseded
  /\ UNCHANGED <<server, token, since, logins, changes, faults>>

SignOut ==
  /\ route # Login
  /\ token' = 0
  /\ route' = Login
  /\ Unmount
  /\ signIn' = Superseded
  /\ since' = 0
  /\ UNCHANGED <<server, calls, used>>

-----------------------------------------------------------------------------
(* Signing in, also over a token that is stored *)

\* submit(), one at a time: the button waits for the answer.
SignIn ==
  /\ route = Login /\ signIn = "no" /\ logins < MaxLogins
  /\ signIn' = "asked"
  /\ UNCHANGED <<server, token, route, task, parts, calls, live, since, used>>

\* Mutant: a token the server never issued.
IssueTwo == logins + 2

Issue == logins + 1

\* The password is right: the token is stored, then the dashboard is loaded.
Admit ==
  /\ signIn = "asked"
  /\ logins' = logins + 1
  /\ token' = Issue
  /\ signIn' = "stored"
  /\ since' = IF \A c \in Calls : calls[c].step = "idle" THEN Issue ELSE since
  /\ UNCHANGED <<server, route, task, parts, calls, live, moves, changes, faults>>

\* The password is wrong: a 401 like any other.
Refuse ==
  /\ signIn = "asked"
  /\ signIn' = "no"
  /\ Unauthorized
  /\ since' = 0
  /\ UNCHANGED <<server, calls, used>>

\* No answer, or an error: nothing changes.
Unanswered ==
  /\ signIn = "asked"
  /\ signIn' = "no"
  /\ UNCHANGED <<server, token, route, task, parts, calls, live, since, used>>

Enter ==
  /\ signIn = "stored"
  /\ signIn' = "no"
  /\ IF route = Home THEN UNCHANGED <<route, task, parts, calls, live>>
     ELSE route' = Home /\ Refresh(Home) /\ task' = Nothing /\ parts' = Nothing
  /\ UNCHANGED <<server, token, since, used>>

-----------------------------------------------------------------------------
(* The server *)

\* Someone or the scheduler changes a task, deletes it, or a token comes of age.
Change ==
  /\ changes < MaxChanges
  /\ changes' = changes + 1
  /\ \/ \E t \in Tasks \ gone : rev' = [rev EXCEPT ![t] = @ + 1] /\ UNCHANGED <<gone, expired>>
     \/ \E t \in Tasks \ gone : gone' = gone \cup {t} /\ UNCHANGED <<rev, expired>>
     \/ \E k \in 1..logins : expired' = expired \cup {k} /\ UNCHANGED <<rev, gone>>
  /\ UNCHANGED <<page, calls, live, since, logins, moves, faults>>

Accepted(k) == k # 0 /\ k \notin expired

\* Get answers 404 for a task that is deleted, the lists are empty then.
TaskAnswer(t)  == IF t \in gone THEN Failed ELSE rev[t]
ListsAnswer(t) == rev[t]

\* JWTOrAPIToken, then the handler.
AnswerTo(c) ==
  IF ~Accepted(calls[c].token) THEN Denied
  ELSE CASE calls[c].step = "getTask"   -> TaskAnswer(calls[c].id)
         [] calls[c].step = "lists"     -> ListsAnswer(calls[c].id)
         [] calls[c].step = "other"     -> 0

UnderWay(c) == calls[c].step # "idle" /\ calls[c].answer = Waiting

Serve(c) ==
  /\ UnderWay(c)
  /\ calls' = [calls EXCEPT ![c].answer = AnswerTo(c)]
  /\ UNCHANGED <<server, page, live, since, used>>

Fail(c) ==
  /\ UnderWay(c)
  /\ faults < MaxFaults
  /\ faults' = faults + 1
  /\ calls' = [calls EXCEPT ![c].answer = Failed]
  /\ UNCHANGED <<server, page, live, since, logins, moves, changes>>

-----------------------------------------------------------------------------
(* Answers *)

ArriveDenied(c) ==
  /\ calls[c].answer = Denied
  /\ calls' = [calls EXCEPT ![c] = Idle]
  /\ Unauthorized
  /\ signIn' = IF route = Login THEN signIn ELSE Superseded
  /\ UNCHANGED <<server, since, used>>

\* catch (e) {}: what is shown stays.
ArriveFailed(c) ==
  /\ calls[c].answer = Failed
  /\ calls' = [calls EXCEPT ![c] = Idle]
  /\ live' = live \ {c}
  /\ UNCHANGED <<server, page, since, used>>

Show(c) == [id |-> calls[c].id, rev |-> calls[c].answer]

\* The task, whatever is shown, and the call of its lists; a component that is
\* gone goes on too, but shows nothing.
ArriveTask(c) ==
  /\ calls[c].step = "getTask" /\ calls[c].answer \in 0..MaxChanges
  /\ task' = IF c \in live THEN Show(c) ELSE task
  /\ calls' = Send(c, "lists", calls[c].id)
  /\ UNCHANGED <<server, token, route, signIn, parts, live, since, used>>

ArriveLast(c) ==
  /\ calls[c].step \in {"lists", "other"} /\ calls[c].answer \in 0..MaxChanges
  /\ parts' = IF c \in live /\ calls[c].step = "lists" THEN Show(c) ELSE parts
  /\ calls' = [calls EXCEPT ![c] = Idle]
  /\ live' = live \ {c}
  /\ UNCHANGED <<server, token, route, signIn, task, since, used>>

Arrive(c) == ArriveDenied(c) \/ ArriveFailed(c) \/ ArriveTask(c) \/ ArriveLast(c)

-----------------------------------------------------------------------------
Next ==
  \/ Timer \/ Button \/ SignOut \/ Change
  \/ SignIn \/ Admit \/ Refuse \/ Unanswered \/ Enter
  \/ \E r \in Routes : Visit(r)
  \/ \E c \in Calls : Serve(c) \/ Fail(c) \/ Arrive(c)

\* A timer runs, the server answers what it gets and the browser hands the answers
\* over.  Users, on the pages without a timer too, deletions and failures are
\* under no obligation, and neither is an answer to a sign-in.
Spec ==
  /\ Init /\ [][Next]_vars
  /\ WF_vars(Timer) /\ WF_vars(Enter)
  /\ \A c \in Calls : WF_vars(Serve(c)) /\ WF_vars(Arrive(c))

-----------------------------------------------------------------------------
(* Properties *)

\* A page that stays open comes to show its task, with its lists, as the server
\* has it, and goes on showing it: answers to old calls, calls for another task
\* and failures do not stay.  A deleted task is an exception: what was shown last
\* is shown for ever.
Settles ==
  \A t \in Tasks :
    <>[](route = t /\ t \notin gone)
      => <>[](task = [id |-> t, rev |-> rev[t]] /\ parts = task)

\* A page with a timer does not stay open on a token the server does not accept,
\* or on none: it gives way to the login page, if the user does not go to a page
\* without a timer or gets himself a new token meanwhile.  There are pages with no
\* token: a late 401 takes a new one away on the way to the dashboard.
Ejected ==
  route \in Timed /\ ~Accepted(token) ~> route \in {Login, List} \/ Accepted(token)

\* A user who signs in with no call under way has his newest token until he signs
\* out, mistypes his password or a token he got since then expires: no answer,
\* however late, to a call of any page, made with an older token of his or during
\* another sign-in, takes it away.
Unexpired == (since..logins) \cap expired = {}

StaysSignedIn == since # 0 /\ Unexpired => token = logins

\* What makes it inductive.  All calls under way carry tokens he got since, so that
\* none is answered by a 401.
Bearing ==
  \A c \in Calls : calls[c].step # "idle" => calls[c].token \in since..logins /\ calls[c].answer # Denied

SignedIn ==
  /\ since <= logins
  /\ \A c \in Calls : calls[c].step = "idle" => calls[c] = Idle
  /\ since # 0 /\ Unexpired => token = logins /\ Bearing

\* And the type invariant: the calls of a refresh are for a task, and revisions
\* and tokens are those counted.
CallsForTasks == \A c \in Calls : calls[c].step \in {"getTask", "lists"} => calls[c].id \in Tasks
Counted ==
  /\ logins \in 0..MaxLogins /\ changes \in 0..MaxChanges
  /\ signIn = "asked" => logins < MaxLogins
  /\ \A t \in Tasks : rev[t] <= changes
=============================================================================
