--------------------------- MODULE TaskPageProofs ---------------------------
(***************************************************************************)
(* Proofs about TaskPage for any tasks, calls and bounds: its types, and   *)
(* that no answer takes the newest token of a user away who signed in      *)
(* with no call under way.                                                 *)
(***************************************************************************)
EXTENDS TaskPage, TLAPS

-----------------------------------------------------------------------------
(* Types *)

PageTypes == TypeOK /\ CallsForTasks /\ Counted

Call == [step : Steps, id : Routes, token : Tokens \cup {0}, answer : Answers]

LEMMA SendType ==
  ASSUME PageTypes, NEW c \in Calls, NEW step \in Steps \ {"idle"}, NEW id \in Routes,
         step \in {"getTask", "lists"} => id \in Tasks, calls' = Send(c, step, id)
  PROVE  calls' \in [Calls -> Call] /\ CallsForTasks'
<1>1. calls \in [Calls -> Call] /\ token \in Tokens \cup {0} /\ CallsForTasks
  BY DEF PageTypes, TypeOK, Call
<1> DEFINE new == [step |-> step, id |-> id, token |-> token, answer |-> Waiting]
<1>2. new \in Call
  BY <1>1 DEF Call, Answers
<1>3. calls' = [calls EXCEPT ![c] = new]
  BY DEF Send, Bearer
<1>4. calls' \in [Calls -> Call]
  BY <1>1, <1>2, <1>3
<1>5. CallsForTasks'
  BY <1>1, <1>3 DEF CallsForTasks
<1> QED
  BY <1>4, <1>5

LEMMA RefreshType ==
  ASSUME PageTypes, NEW r \in Routes, Refresh(r)
  PROVE  calls' \in [Calls -> Call] /\ CallsForTasks' /\ live' \subseteq Calls
<1>1. PICK c \in Calls :
        /\ calls' = IF r \in Tasks THEN Send(c, "getTask", TaskID(r)) ELSE Send(c, "other", Home)
        /\ live' = (IF r = route \/ {r, route} \subseteq Tasks THEN live ELSE {}) \cup {c}
  BY DEF Refresh
<1>2. live' \subseteq Calls
  BY <1>1 DEF PageTypes, TypeOK
<1>3. CASE r \in Tasks
  BY <1>1, <1>2, <1>3, SendType DEF TaskID, Steps
<1>4. CASE r \notin Tasks
  BY <1>1, <1>2, <1>4, SendType DEF Routes, Timed, Steps
<1> QED
  BY <1>3, <1>4

\* The end of a call.
LEMMA IdleType ==
  ASSUME PageTypes, NEW c \in Calls, calls' = [calls EXCEPT ![c] = Idle]
  PROVE  calls' \in [Calls -> Call] /\ CallsForTasks'
<1>1. calls \in [Calls -> Call] /\ CallsForTasks
  BY DEF PageTypes, TypeOK, Call
<1>2. Idle \in Call
  BY DEF Idle, Call, Steps, Routes, Timed, Answers
<1>3. calls' \in [Calls -> Call]
  BY <1>1, <1>2
<1>4. CallsForTasks'
  BY <1>1 DEF CallsForTasks, Idle
<1> QED
  BY <1>3, <1>4

\* An answer to a call.
LEMMA AnswerType ==
  ASSUME PageTypes, NEW c \in Calls, NEW a \in Answers, calls' = [calls EXCEPT ![c].answer = a]
  PROVE  calls' \in [Calls -> Call] /\ CallsForTasks'
<1>1. calls \in [Calls -> Call] /\ CallsForTasks
  BY DEF PageTypes, TypeOK, Call
<1>2. calls' \in [Calls -> Call]
  BY <1>1 DEF Call
<1>3. \A d \in Calls : calls'[d].step = calls[d].step /\ calls'[d].id = calls[d].id
  BY <1>1 DEF Call
<1>4. CallsForTasks'
  BY <1>1, <1>3 DEF CallsForTasks
<1> QED
  BY <1>2, <1>4

LEMMA AnswerToType ==
  ASSUME PageTypes, NEW c \in Calls, UnderWay(c) PROVE AnswerTo(c) \in Answers
<1>1. calls[c].step \in {"getTask", "lists", "other"}
  BY DEF UnderWay, PageTypes, TypeOK, Steps
<1>2. CASE calls[c].step = "other"
  BY <1>2, BoundsAssumption DEF AnswerTo, Answers
<1>3. CASE calls[c].step \in {"getTask", "lists"}
  <2>1. rev[calls[c].id] \in 0..MaxChanges
    BY <1>3 DEF PageTypes, CallsForTasks, TypeOK
  <2> QED
    BY <1>3, <2>1 DEF AnswerTo, TaskAnswer, ListsAnswer, Answers
<1> QED
  BY <1>1, <1>2, <1>3

LEMMA ShowType ==
  ASSUME PageTypes, NEW c \in Calls, calls[c].step \in {"getTask", "lists"}, calls[c].answer \in 0..MaxChanges
  PROVE  Show(c) \in Shown
BY DEF Show, Shown, PageTypes, CallsForTasks

LEMMA ServerType == ASSUME PageTypes, Change PROVE PageTypes'
<1> USE DEF PageTypes, TypeOK, CallsForTasks, Counted
<1>0. UNCHANGED <<page, calls, live, since, logins>>
  BY DEF Change
<1>a. changes' = changes + 1 /\ changes' \in 0..MaxChanges /\ changes \in 0..MaxChanges
  BY BoundsAssumption DEF Change
<1>1. CASE \E t \in Tasks \ gone : rev' = [rev EXCEPT ![t] = @ + 1] /\ UNCHANGED <<gone, expired>>
  <2>1. PICK t \in Tasks : rev' = [rev EXCEPT ![t] = rev[t] + 1] /\ UNCHANGED <<gone, expired>>
    BY <1>1
  <2>2. \A u \in Tasks : rev'[u] \in Nat /\ rev'[u] <= changes'
    BY <1>a, <2>1, BoundsAssumption
  <2>3. rev' \in [Tasks -> 0..MaxChanges]
    BY <1>a, <2>1, <2>2, BoundsAssumption
  <2> QED
    BY <1>0, <1>a, <2>1, <2>2, <2>3 DEF page
<1>2. CASE \E t \in Tasks \ gone : gone' = gone \cup {t} /\ UNCHANGED <<rev, expired>>
  <2>1. \A t \in Tasks : rev'[t] <= changes'
    BY <1>a, <1>2, BoundsAssumption
  <2> QED
    BY <1>0, <1>a, <1>2, <2>1 DEF page
<1>3. CASE \E k \in 1..logins : expired' = expired \cup {k} /\ UNCHANGED <<rev, gone>>
  <2>1. \A t \in Tasks : rev'[t] <= changes'
    BY <1>a, <1>3, BoundsAssumption
  <2>2. expired' \subseteq Tokens
    BY <1>3, BoundsAssumption DEF Tokens
  <2> QED
    BY <1>0, <1>a, <1>3, <2>1, <2>2 DEF page
<1> QED
  BY <1>1, <1>2, <1>3 DEF Change

LEMMA AgainType == ASSUME PageTypes, Timer \/ Button PROVE PageTypes'
<1>1. Again
  BY DEF Timer, Button
<1>2. calls' \in [Calls -> Call] /\ CallsForTasks' /\ live' \subseteq Calls
  BY <1>1, RefreshType DEF Again, PageTypes, TypeOK
<1> QED
  BY <1>1, <1>2 DEF Again, server, page, used, Call, PageTypes, TypeOK, Counted

\* Whatever a 401 answers, the page shows something or nothing afterwards.
LEMMA UnauthorizedType ==
  ASSUME PageTypes, Unauthorized
  PROVE  token' \in Tokens \cup {0} /\ route' \in Routes /\ task' \in Shown /\ parts' \in Shown /\ live' \subseteq Calls
BY DEF Unauthorized, Unmount, SentTo, Routes, Shown, PageTypes, TypeOK

LEMMA SignInType == ASSUME PageTypes, SignIn \/ Admit \/ Refuse \/ Unanswered \/ Enter PROVE PageTypes'
<1> USE DEF PageTypes, TypeOK, Counted
<1>1. CASE SignIn
  BY <1>1 DEF SignIn, server, used, CallsForTasks
<1>2. CASE Admit
  <2>0. logins' = logins + 1 /\ logins \in 0..MaxLogins /\ logins < MaxLogins
    BY <1>2 DEF Admit
  <2>1. logins' = logins + 1 /\ logins' \in Tokens
    BY <2>0, BoundsAssumption DEF Tokens
  <2>2. logins' \in 0..MaxLogins /\ token' \in Tokens /\ since' \in Tokens \cup {0}
    BY <1>2, <2>1, BoundsAssumption DEF Admit, Issue, Tokens
  <2> QED
    BY <1>2, <2>2 DEF Admit, server, CallsForTasks
<1>3. CASE Refuse
  BY <1>3, UnauthorizedType DEF Refuse, server, used, CallsForTasks
<1>4. CASE Unanswered
  BY <1>4 DEF Unanswered, server, used, CallsForTasks
<1>5. CASE Enter
  <2>1. calls' \in [Calls -> Call] /\ CallsForTasks' /\ live' \subseteq Calls
    BY <1>5, RefreshType DEF Enter, Routes, Timed, Call, CallsForTasks
  <2>2. route' \in Routes /\ task' \in Shown /\ parts' \in Shown
    BY <1>5 DEF Enter, Routes, Timed, Shown
  <2> QED
    BY <1>5, <2>1, <2>2 DEF Enter, server, used, Call
<1> QED
  BY <1>1, <1>2, <1>3, <1>4, <1>5

LEMMA SignOutType == ASSUME PageTypes, SignOut PROVE PageTypes'
BY DEF SignOut, Unmount, Superseded, server, used, Routes, Shown, CallsForTasks, PageTypes, TypeOK, Counted

LEMMA VisitType == ASSUME PageTypes, NEW r \in Routes, Visit(r) PROVE PageTypes'
<1> USE DEF PageTypes, TypeOK, Counted
<1>0. signIn' \in {"no", "asked", "stored"} /\ (signIn' = "asked" => signIn = "asked") /\ UNCHANGED <<logins, changes, rev>>
  BY DEF Visit, Superseded, server
<1>a. Counted'
  BY <1>0
<1>1. CASE r = Login \/ token = 0
  BY <1>0, <1>a, <1>1 DEF Visit, Unmount, server, Routes, Shown, CallsForTasks
<1>2. CASE r # Login /\ token # 0
  <2>1. calls' \in [Calls -> Call] /\ CallsForTasks' /\ live' \subseteq Calls
    BY <1>2, RefreshType DEF Visit
  <2>2. task' \in Shown /\ parts' \in Shown
    BY <1>2 DEF Visit, Shown
  <2> QED
    BY <1>0, <1>a, <1>2, <2>1, <2>2 DEF Visit, server, Call
<1> QED
  BY <1>1, <1>2

LEMMA CallType == ASSUME PageTypes, NEW c \in Calls, Serve(c) \/ Fail(c) \/ Arrive(c) PROVE PageTypes'
<1> USE DEF PageTypes, TypeOK, Counted
<1>1. CASE Serve(c)
  <2>1. calls' \in [Calls -> Call] /\ CallsForTasks'
    BY <1>1, AnswerToType, AnswerType DEF Serve
  <2> QED
    BY <1>1, <2>1 DEF Serve, server, page, used, Call
<1>2. CASE Fail(c)
  <2>1. Failed \in Answers
    BY DEF Answers
  <2>2. calls' \in [Calls -> Call] /\ CallsForTasks'
    BY <1>2, <2>1, AnswerType DEF Fail
  <2> QED
    BY <1>2, <2>2 DEF Fail, server, page, Call
<1>3. CASE ArriveDenied(c)
  <2>1. calls' \in [Calls -> Call] /\ CallsForTasks'
    BY <1>3, IdleType DEF ArriveDenied
  <2>2. signIn' \in {"no", "asked", "stored"} /\ (signIn' = "asked" => signIn = "asked") /\ UNCHANGED <<used, server>>
    BY <1>3 DEF ArriveDenied, Superseded
  <2>3. Counted'
    BY <2>2 DEF used, server
  <2> QED
    BY <1>3, <2>1, <2>2, <2>3, UnauthorizedType DEF ArriveDenied, server, used, Call
<1>4. CASE ArriveFailed(c)
  <2>1. calls' \in [Calls -> Call] /\ CallsForTasks'
    BY <1>4, IdleType DEF ArriveFailed
  <2> QED
    BY <1>4, <2>1 DEF ArriveFailed, server, page, used, Call
<1>5. CASE ArriveTask(c)
  <2>1. calls[c].id \in Tasks
    BY <1>5 DEF ArriveTask, CallsForTasks
  <2>2. calls' \in [Calls -> Call] /\ CallsForTasks'
    BY <1>5, <2>1, SendType DEF ArriveTask, Routes, Steps
  <2>3. task' \in Shown
    BY <1>5, ShowType DEF ArriveTask
  <2> QED
    BY <1>5, <2>2, <2>3 DEF ArriveTask, server, used, Call
<1>6. CASE ArriveLast(c)
  <2>1. calls' \in [Calls -> Call] /\ CallsForTasks'
    BY <1>6, IdleType DEF ArriveLast
  <2>2. parts' \in Shown
    BY <1>6, ShowType DEF ArriveLast
  <2> QED
    BY <1>6, <2>1, <2>2 DEF ArriveLast, server, used, Call
<1> QED
  BY <1>1, <1>2, <1>3, <1>4, <1>5, <1>6 DEF Arrive

LEMMA PageTypesInductive == PageTypes /\ [Next]_vars => PageTypes'
<1> SUFFICES ASSUME PageTypes, [Next]_vars PROVE PageTypes'
  OBVIOUS
<1>1. CASE UNCHANGED vars
  BY <1>1 DEF vars, server, page, used, PageTypes, TypeOK, CallsForTasks, Counted
<1> QED
  BY <1>1, ServerType, AgainType, SignInType, SignOutType, VisitType, CallType DEF Next

LEMMA PageTypesInit == Init => PageTypes
<1> SUFFICES ASSUME Init PROVE PageTypes
  OBVIOUS
<1>1. Idle \in Call /\ Idle.step = "idle"
  BY DEF Idle, Call, Steps, Routes, Timed, Answers
<1>2. calls \in [Calls -> Call] /\ CallsForTasks
  BY <1>1 DEF Init, CallsForTasks
<1>3. 0 \in 0..MaxChanges /\ 0 \in 0..MaxLogins
  BY BoundsAssumption
<1>4. rev \in [Tasks -> 0..MaxChanges] /\ Counted
  BY <1>3 DEF Init, Counted
<1> QED
  BY <1>2, <1>4 DEF Init, PageTypes, TypeOK, Call, Tokens, Routes, Timed, Shown

\* Whatever answers come late, the page shows a task or nothing, and a browser has
\* no token but one that was issued.
THEOREM PageTyped == Spec => []TypeOK
<1> QED
  BY PageTypesInit, PageTypesInductive, PTL DEF Spec, PageTypes

-----------------------------------------------------------------------------
(* Staying signed in                                                       *)

\* The calls of a step are those before it, some of them ended or answered, and
\* new ones with the token of the moment.
CallsGoOn ==
  \A c \in Calls :
     \/ calls'[c] = calls[c] \/ calls'[c] = Idle
     \/ calls'[c].step # "idle" /\ calls'[c].token = token /\ calls'[c].answer = Waiting
     \/ /\ calls[c].step # "idle" /\ calls'[c].step = calls[c].step
        /\ calls'[c].token = calls[c].token /\ calls'[c].answer \in {AnswerTo(c), Failed}

LEMMA SendGoesOn ==
  ASSUME PageTypes, NEW c \in Calls, NEW step, step # "idle", NEW id, calls' = Send(c, step, id)
  PROVE  CallsGoOn
<1>1. calls \in [Calls -> Call]
  BY DEF PageTypes, TypeOK, Call
<1> QED
  BY <1>1 DEF Send, Bearer, CallsGoOn

LEMMA CallChanges == ASSUME PageTypes, [Next]_vars PROVE CallsGoOn
<1>0. calls \in [Calls -> Call]
  BY DEF PageTypes, TypeOK, Call
<1>1. CASE UNCHANGED calls
  BY <1>1 DEF CallsGoOn
<1>2. ASSUME NEW r, Refresh(r) PROVE CallsGoOn
  BY <1>2, SendGoesOn DEF Refresh
<1>3. ASSUME NEW c \in Calls, Serve(c) \/ Fail(c) PROVE CallsGoOn
  BY <1>0, <1>3 DEF Serve, Fail, UnderWay, CallsGoOn, Call
<1>4. ASSUME NEW c \in Calls, Arrive(c) PROVE CallsGoOn
  <2>1. CASE ArriveTask(c)
    BY <2>1, SendGoesOn DEF ArriveTask
  <2>2. CASE ArriveDenied(c) \/ ArriveFailed(c) \/ ArriveLast(c)
    BY <1>0, <2>2 DEF ArriveDenied, ArriveFailed, ArriveLast, CallsGoOn
  <2> QED
    BY <1>4, <2>1, <2>2 DEF Arrive
<1>5. CASE Timer \/ Button \/ Enter \/ \E r \in Routes : Visit(r)
  BY <1>1, <1>2, <1>5 DEF Timer, Button, Again, Enter, Visit
<1>6. \/ UNCHANGED calls
      \/ Timer \/ Button \/ Enter \/ \E r \in Routes : Visit(r)
      \/ \E c \in Calls : Serve(c) \/ Fail(c) \/ Arrive(c)
  BY DEF Next, vars, SignIn, Admit, Refuse, Unanswered, SignOut, Change
<1> QED
  BY <1>1, <1>3, <1>4, <1>5, <1>6

\* What becomes of the token: it stays, or a sign-in replaces it, or it is dropped
\* by the user, a wrong password or a 401.  Tokens that expired stay so.
LEMMA TokenChanges ==
  ASSUME [Next]_vars
  PROVE  /\ expired \subseteq expired'
         /\ \/ UNCHANGED <<token, logins, since>>
            \/ Admit /\ UNCHANGED calls
            \/ since' = 0 /\ UNCHANGED logins
            \/ \E c \in Calls : ArriveDenied(c) /\ UNCHANGED <<logins, since>>
<1>1. expired \subseteq expired'
  BY DEF Next, vars, server, Timer, Button, Again, SignIn, Admit, Refuse, Unanswered, Enter, SignOut, Change, Visit,
         Serve, Fail, Arrive, ArriveDenied, ArriveFailed, ArriveTask, ArriveLast
<1>2. CASE \E c \in Calls : ArriveDenied(c)
  BY <1>1, <1>2 DEF ArriveDenied, used
<1>3. CASE Admit
  BY <1>1, <1>3 DEF Admit
<1>4. CASE Refuse \/ SignOut
  BY <1>1, <1>4 DEF Refuse, SignOut, used
<1>5. CASE ~Admit /\ ~Refuse /\ ~SignOut /\ ~\E c \in Calls : ArriveDenied(c)
  <2>1. UNCHANGED <<token, logins, since>>
    BY <1>5 DEF Next, vars, page, used, Timer, Button, Again, SignIn, Unanswered, Enter, Change, Visit,
                Serve, Fail, Arrive, ArriveFailed, ArriveTask, ArriveLast
  <2> QED
    BY <1>1, <2>1
<1> QED
  BY <1>2, <1>3, <1>4, <1>5

\* A slot without a call stays empty until it has a new one.
LEMMA EmptyStays ==
  ASSUME PageTypes, SignedIn, [Next]_vars
  PROVE  \A c \in Calls : calls'[c].step = "idle" => calls'[c] = Idle
<1> SUFFICES ASSUME NEW c \in Calls, calls'[c].step = "idle" PROVE calls'[c] = Idle
  OBVIOUS
<1>1. calls'[c] = calls[c] \/ calls'[c] = Idle
  BY CallChanges DEF CallsGoOn
<1> QED
  BY <1>1 DEF SignedIn

LEMMA SignedInInductive == PageTypes /\ SignedIn /\ [Next]_vars => SignedIn'
<1> SUFFICES ASSUME PageTypes, SignedIn, [Next]_vars PROVE SignedIn'
  OBVIOUS
<1>0. /\ token \in Nat /\ logins \in Nat /\ since \in Nat /\ since <= logins
      /\ PageTypes' /\ logins' \in Nat /\ since' \in Nat
  BY PageTypesInductive, BoundsAssumption DEF SignedIn, PageTypes, TypeOK, Counted, Tokens
<1>1. since' <= logins'
  BY <1>0, TokenChanges DEF Admit, Issue
<1>2. ASSUME since' # 0, Unexpired' PROVE token' = logins' /\ Bearing'
  <2>1. CASE Admit /\ \A c \in Calls : calls[c].step = "idle"
    BY <2>1 DEF Admit, Issue, Bearing
  <2>2. CASE ~(Admit /\ \A c \in Calls : calls[c].step = "idle")
    <3>1. since' = since /\ logins <= logins'
      BY <1>0, <1>2, <2>2, TokenChanges DEF Admit
    <3>2. since..logins \subseteq since'..logins'
      BY <1>0, <3>1
    <3>3. Unexpired
      BY <1>2, <3>2, TokenChanges DEF Unexpired
    <3>4. token = logins /\ Bearing
      BY <1>2, <3>1, <3>3 DEF SignedIn
    <3>5. ASSUME NEW c \in Calls PROVE ~ArriveDenied(c)
      <4>1. Idle.answer # Denied
        BY AnswerAssumption DEF Idle
      <4> QED
        BY <3>4, <4>1 DEF ArriveDenied, Bearing, SignedIn
    <3>6. token' = logins'
      BY <1>2, <3>4, <3>5, TokenChanges DEF Admit, Issue
    <3>7. token \in since'..logins'
      BY <1>0, <3>1, <3>4
    <3>8. Bearing'
      <4> SUFFICES ASSUME NEW c \in Calls, calls'[c].step # "idle"
                   PROVE  calls'[c].token \in since'..logins' /\ calls'[c].answer # Denied
        BY DEF Bearing
      <4>1. CASE calls'[c] = calls[c]
        BY <3>2, <3>4, <4>1 DEF Bearing
      <4>2. CASE calls'[c].token = token /\ calls'[c].answer = Waiting
        BY <3>7, <4>2, AnswerAssumption
      <4>3. CASE calls[c].step # "idle" /\ calls'[c].token = calls[c].token /\ calls'[c].answer \in {AnswerTo(c), Failed}
        <5>1. calls[c].token \in since..logins /\ calls[c].token \notin expired /\ calls[c].token # 0
          BY <1>0, <1>2, <3>1, <3>3, <3>4, <4>3 DEF Bearing, Unexpired
        <5>2. Accepted(calls[c].token)
          BY <5>1 DEF Accepted
        <5>3. calls[c].step \in {"getTask", "lists", "other"}
          BY <4>3 DEF PageTypes, TypeOK, Steps
        <5>4. AnswerTo(c) \in 0..MaxChanges \cup {Failed}
          BY <5>2, <5>3, BoundsAssumption DEF AnswerTo, TaskAnswer, ListsAnswer, PageTypes, CallsForTasks, TypeOK
        <5> QED
          BY <3>2, <4>3, <5>1, <5>4, AnswerAssumption
      <4>4. Idle.step = "idle"
        BY DEF Idle
      <4> QED
        BY <4>1, <4>2, <4>3, <4>4, CallChanges DEF CallsGoOn
    <3> QED
      BY <3>6, <3>8
  <2> QED
    BY <2>1, <2>2
<1> QED
  BY <1>1, <1>2, EmptyStays DEF SignedIn

\* Calls carry the token of their moment, and a 401 answers a call without a good
\* one only.  So who signs in with no call under way keeps his newest token until he
\* drops it or one he got since expires, however many sign-ins follow each other
\* over calls of the last one and in whatever order answers arrive.
THEOREM SignedInStays == Spec => []StaysSignedIn
<1>1. Init => SignedIn
  BY DEF Init, SignedIn
<1>2. SignedIn => StaysSignedIn
  BY DEF SignedIn, StaysSignedIn
<1> QED
  BY <1>1, <1>2, PageTypesInit, PageTypesInductive, SignedInInductive, PTL DEF Spec
=============================================================================
