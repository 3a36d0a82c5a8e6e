--------------------------- MODULE AccountsProofs ---------------------------
(***************************************************************************)
(* Theorems about Accounts, for every set of names and passwords, every    *)
(* size of the table and every limit of connections.                       *)
(***************************************************************************)
EXTENDS Accounts, TLAPS

USE RowsAssumption, OpenAssumption DEF RowsAssumption, OpenAssumption

\* What each statement may rely on: a comparison and an UPDATE are of a change that
\* is not verified yet, a nested VerifyLogin of one that is written, or failed to be;
\* past the first query the connection in use is open.
PlaceInv ==
    /\ pc \in {"same", "update"} => request.change /\ ~nested
    /\ pc = "date" /\ request.change => nested
    /\ pc \in {"same", "update", "date"} => working
    /\ nested => request.change /\ pc \in {"match", "date", "dead"}

\* Every open connection is in use, or was lost to a date that could not be read.
CountInv ==
    connections = unclosed
        + (IF pc = "idle" THEN 0 ELSE (IF nested THEN 1 ELSE 0) + (IF working THEN 1 ELSE 0))

TypeInv == TypeOK /\ PlaceInv /\ CountInv

-----------------------------------------------------------------------------
(* Lemmas.                                                                   *)

\* What a request consists of.
LEMMA RequestFields ==
    ASSUME NEW r \in Logins \cup Changes
    PROVE  /\ r.change \in BOOLEAN /\ r.username \in Usernames /\ r.password \in Passwords
           /\ r.change => r.new \in Passwords
  BY DEF Logins, Changes

\* An UPDATE leaves the rows where they are, with every field in its range.
LEMMA RenewedRows ==
    ASSUME NEW name, NEW pw \in Passwords, \A i \in DOMAIN user : user[i] \in Rows
    PROVE  /\ DOMAIN Renewed(name, pw) = DOMAIN user
           /\ \A i \in DOMAIN user :
                /\ Renewed(name, pw)[i] \in Rows
                /\ Renewed(name, pw)[i].username = user[i].username
                /\ user[i].username = name =>
                      /\ Renewed(name, pw)[i].password = pw
                      /\ Renewed(name, pw)[i].created_at = "fresh"
  BY DEF Renewed, Rows, Dates

\* Opening a connection: its success is in working', and counted.
LEMMA OpenCounts ==
    ASSUME connections \in 0 .. MaxOpen, Open
    PROVE  /\ connections' \in 0 .. MaxOpen /\ working' \in BOOLEAN
           /\ connections' = connections + (IF working' THEN 1 ELSE 0)
<1>1. connections' \in 0 .. MaxOpen
  BY DEF Open
<1>2. working' \in BOOLEAN
  BY DEF Open
<1>3. connections' = connections + (IF working' THEN 1 ELSE 0)
  BY DEF Open
<1> QED BY <1>1, <1>2, <1>3

\* A request is answered: both connections are closed, and no others.
LEMMA AnswerKeeps ==
    ASSUME TypeInv, pc # "idle", NEW result \in {"LOGIN_OK", "LOGIN_FAIL", "DATE_EXPIRED"},
           result = "DATE_EXPIRED" /\ request.change => nested,
           disturbed' \in BOOLEAN,
           Answer(result)
    PROVE  TypeInv'
<1> USE DEF TypeInv, Answer, Return, Close
<1>1. TypeOK'
  <2>1. connections' \in 0 .. MaxOpen
    BY DEF TypeOK, CountInv
  <2>2. unclosed' \in 0 .. MaxOpen
    BY DEF TypeOK
  <2>3. login_state' \in {"LOGIN_UNKNOWN", "LOGIN_OK", "LOGIN_FAIL", "DATE_EXPIRED"}
    OBVIOUS
  <2>4. request'.change => login_state' # "DATE_EXPIRED"
    OBVIOUS
  <2>5. DOMAIN user' \subseteq 1 .. MaxRows /\ \A i \in DOMAIN user' : user'[i] \in Rows
    BY DEF TypeOK
  <2>6. pc' = "idle" /\ nested' = FALSE /\ UNCHANGED <<request, working, changed>>
    OBVIOUS
  <2>7. request' \in Logins \cup Changes /\ working' \in BOOLEAN /\ changed' \in BOOLEAN
    BY <2>6 DEF TypeOK
  <2> HIDE DEF TypeInv, Answer, Return, Close
  <2> QED BY <2>1, <2>2, <2>3, <2>4, <2>5, <2>6, <2>7 DEF TypeOK
<1>2. PlaceInv'
  BY DEF TypeOK, PlaceInv
<1>3. CountInv'
  BY DEF TypeOK, CountInv
<1> QED BY <1>1, <1>2, <1>3

\* The server goes on to its next statement.
LEMMA ContinueKeeps ==
    ASSUME TypeInv, pc # "idle",
           NEW next \in {"same", "update", "date", "dead"},
           next # "dead" => working,
           next \in {"same", "update"} => request.change /\ ~nested,
           next = "date" /\ request.change => nested,
           disturbed' \in BOOLEAN,
           Continue(next)
    PROVE  TypeInv'
<1> USE DEF TypeInv, Continue
<1>1. TypeOK'
  BY DEF TypeOK
<1>2. PlaceInv'
  BY DEF TypeOK, PlaceInv
<1>3. CountInv'
  BY DEF TypeOK, CountInv
<1> QED BY <1>1, <1>2, <1>3

\* A write of the tool, or time, touches only the table.
LEMMA ToolKeeps ==
    ASSUME TypeInv, NEW rows, ToolWrites(rows),
           DOMAIN rows \subseteq 1 .. MaxRows, \A i \in DOMAIN rows : rows[i] \in Rows
    PROVE  TypeInv'
  BY DEF TypeInv, TypeOK, PlaceInv, CountInv, ToolWrites, server

-----------------------------------------------------------------------------
(* Types, places and connections.                                            *)

LEMMA InitTypeInv == Init => TypeInv
<1> SUFFICES ASSUME Init PROVE TypeInv
  OBVIOUS
<1>1. DOMAIN user \subseteq 1 .. MaxRows /\ \A i \in DOMAIN user : user[i] \in Rows
  BY DEF Init
<1>2. request \in Logins
  BY DEF Init
<1>3. connections \in 0 .. MaxOpen /\ unclosed \in 0 .. MaxOpen
  BY DEF Init
<1>4. TypeOK
  BY <1>1, <1>2, <1>3 DEF Init, TypeOK
<1>5. PlaceInv /\ CountInv
  BY DEF Init, PlaceInv, CountInv
<1> QED BY <1>4, <1>5 DEF TypeInv

LEMMA NextTypeInv == TypeInv /\ [Next]_vars => TypeInv'
<1> SUFFICES ASSUME TypeInv, [Next]_vars PROVE TypeInv'
  OBVIOUS
<1>1. ASSUME ProcessLogin PROVE TypeInv'
  <2>1. TypeOK'
    BY <1>1, OpenCounts DEF ProcessLogin, TypeInv, TypeOK
  <2>2. PlaceInv'
    BY <1>1 DEF ProcessLogin, TypeInv, TypeOK, PlaceInv
  <2>3. CountInv'
    BY <1>1, OpenCounts DEF ProcessLogin, TypeInv, TypeOK, CountInv
  <2> QED BY <2>1, <2>2, <2>3 DEF TypeInv
<1>2. ASSUME Match PROVE TypeInv'
  <2>1. pc # "idle" /\ disturbed' \in BOOLEAN
    BY <1>2 DEF Match, Nameless, Executed, Failed, TypeInv, TypeOK
  <2>2. CASE Answer("LOGIN_FAIL")
    BY <2>1, <2>2, AnswerKeeps
  <2>3. CASE working /\ Continue(IF request.change /\ ~nested THEN "same" ELSE "date")
    <3>1. CASE request.change /\ ~nested
      BY <2>1, <2>3, <3>1, ContinueKeeps
    <3>2. CASE ~(request.change /\ ~nested)
      BY <2>1, <2>3, <3>2, ContinueKeeps
    <3> QED BY <3>1, <3>2
  <2>4. CASE Continue("dead")
    BY <2>1, <2>4, ContinueKeeps
  <2> QED BY <1>2, <2>2, <2>3, <2>4 DEF Match, Nameless, Executed
<1>3. ASSUME Same PROVE TypeInv'
  <2>1. pc # "idle" /\ disturbed' \in BOOLEAN /\ working /\ request.change /\ ~nested
    BY <1>3 DEF Same, Executed, Failed, TypeInv, TypeOK, PlaceInv
  <2>2. CASE Answer("LOGIN_FAIL")
    BY <2>1, <2>2, AnswerKeeps
  <2>3. CASE Continue("update")
    BY <2>1, <2>3, ContinueKeeps
  <2> QED BY <1>3, <2>2, <2>3 DEF Same
<1>4. ASSUME Update PROVE TypeInv'
  <2>1. /\ pc = "update" /\ request.change /\ ~nested /\ working
        /\ pc' = "match" /\ nested' = TRUE
        /\ UNCHANGED <<request, login_state, unclosed>>
    BY <1>4 DEF Update, TypeInv, PlaceInv
  <2>2. Open /\ connections \in 0 .. MaxOpen
    BY <1>4 DEF Update, TypeInv, TypeOK
  <2>3. /\ connections' \in 0 .. MaxOpen /\ working' \in BOOLEAN
        /\ connections' = connections + (IF working' THEN 1 ELSE 0)
    BY <2>2, OpenCounts
  <2>4. request.new \in Passwords
    BY <2>1, RequestFields DEF TypeInv, TypeOK
  <2>5. DOMAIN user' = DOMAIN user /\ \A i \in DOMAIN user' : user'[i] \in Rows
    BY <1>4, <2>4, RenewedRows DEF Update, TypeInv, TypeOK
  <2>6. changed' \in BOOLEAN /\ disturbed' \in BOOLEAN
    BY <1>4 DEF Update, Failed, TypeInv, TypeOK
  <2>7. TypeOK'
    BY <2>1, <2>5, <2>6, <2>3 DEF TypeInv, TypeOK
  <2>8. PlaceInv'
    BY <2>1 DEF PlaceInv
  <2>9. CountInv'
    BY <2>1, <2>3 DEF TypeInv, TypeOK, CountInv
  <2> QED BY <2>7, <2>8, <2>9 DEF TypeInv
<1>5. ASSUME Date PROVE TypeInv'
  <2>1. /\ pc = "date" /\ pc # "idle" /\ disturbed' \in BOOLEAN /\ working
        /\ request.change => nested
    BY <1>5 DEF Date, Executed, Failed, TypeInv, TypeOK, PlaceInv
  <2>2. CASE Answer("LOGIN_OK") \/ Answer("DATE_EXPIRED")
    BY <2>1, <2>2, AnswerKeeps
  <2>3. CASE Continue("dead")
    BY <2>1, <2>3, ContinueKeeps
  <2>4. CASE /\ Return("LOGIN_FAIL")
             /\ connections' = connections - (IF nested THEN 1 ELSE 0)
             /\ unclosed' = unclosed + 1
    <3>1. TypeOK'
      <4>1. connections' \in 0 .. MaxOpen /\ unclosed' \in 0 .. MaxOpen
        BY <2>1, <2>4 DEF TypeInv, TypeOK, CountInv
      <4>2. /\ login_state' = "LOGIN_FAIL" /\ pc' = "idle" /\ nested' = FALSE
            /\ UNCHANGED <<user, request, working, changed>>
        BY <2>4 DEF Return
      <4> QED BY <2>1, <4>1, <4>2 DEF TypeInv, TypeOK
    <3>2. PlaceInv'
      BY <2>1, <2>4 DEF Return, PlaceInv
    <3>3. CountInv'
      BY <2>1, <2>4 DEF Return, TypeInv, TypeOK, CountInv
    <3> QED BY <3>1, <3>2, <3>3 DEF TypeInv
  <2> QED BY <1>5, <2>2, <2>3, <2>4 DEF Date
<1>6. ASSUME ToolInserts PROVE TypeInv'
  <2>1. PICK new \in 1 .. MaxRows, row \in Rows :
            ToolWrites([i \in DOMAIN user \cup {new} |-> IF i = new THEN row ELSE user[i]])
    BY <1>6 DEF ToolInserts
  <2> QED BY <2>1, ToolKeeps DEF TypeInv, TypeOK
<1>7. ASSUME ToolSetsPassword PROVE TypeInv'
  <2>1. PICK name \in Names, pw \in Passwords : ToolWrites(Renewed(name, pw))
    BY <1>7 DEF ToolSetsPassword
  <2> QED BY <2>1, ToolKeeps, RenewedRows DEF TypeInv, TypeOK
<1>8. ASSUME ToolDeletes PROVE TypeInv'
  <2>1. PICK name \in Names : ToolWrites([i \in DOMAIN user \ Of(name) |-> user[i]])
    BY <1>8 DEF ToolDeletes
  <2> QED BY <2>1, ToolKeeps DEF TypeInv, TypeOK
<1>9. ASSUME GrowsOld PROVE TypeInv'
  <2>1. PICK i \in DOMAIN user : ToolWrites([user EXCEPT ![i].created_at = "old"])
    BY <1>9 DEF GrowsOld
  <2>2. [user[i] EXCEPT !.created_at = "old"] \in Rows
    BY DEF TypeInv, TypeOK, Rows, Dates
  <2> QED BY <2>1, <2>2, ToolKeeps DEF TypeInv, TypeOK
<1>10. ASSUME UNCHANGED vars PROVE TypeInv'
  BY <1>10 DEF vars, server, TypeInv, TypeOK, PlaceInv, CountInv
<1> QED BY <1>1, <1>2, <1>3, <1>4, <1>5, <1>6, <1>7, <1>8, <1>9, <1>10 DEF Next, Server

LEMMA AlwaysTypeInv == Spec => []TypeInv
  BY InitTypeInv, NextTypeInv, PTL DEF Spec

\* Every variable keeps its range, and a change of password is never answered with
\* DATE_EXPIRED.
THEOREM TypeCorrect == Spec => []TypeOK
<1>1. TypeInv => TypeOK
  BY DEF TypeInv
<1> QED BY <1>1, AlwaysTypeInv, PTL

\* However a request ends, the server holds no connection of it but one lost to an
\* unreadable date.
THEOREM NoConnectionLeft == Spec => []ConnectionsReturned
<1>1. TypeInv => ConnectionsReturned
  BY DEF TypeInv, TypeOK, CountInv, ConnectionsReturned
<1> QED BY <1>1, AlwaysTypeInv, PTL

-----------------------------------------------------------------------------
(* What an undisturbed request has found out by the time it is at a statement. *)

DataInv ==
    ~disturbed =>
      /\ pc = "dead" => request.username = ""
      /\ pc \in {"same", "update"} => Has(request.username, request.password)
      /\ pc = "date" => Of(request.username) # {}
      /\ pc = "update" \/ nested => request.new # request.password
      /\ nested => /\ Of(request.username) # {}
                   /\ \A i \in Of(request.username) :
                        user[i].password = request.new /\ user[i].created_at = "fresh"
      /\ pc # "idle" /\ ~nested => ~changed

\* An answer leaves nothing to know.
LEMMA AnswerKeepsData ==
    ASSUME NEW result, Answer(result)
    PROVE  DataInv'
  BY DEF Answer, Return, DataInv

\* The tool's write, in the middle of a request, disturbs it.
LEMMA ToolKeepsData ==
    ASSUME TypeInv, NEW rows, ToolWrites(rows)
    PROVE  DataInv'
  BY DEF ToolWrites, server, DataInv, TypeInv, TypeOK

LEMMA NextDataInv == TypeInv /\ DataInv /\ [Next]_vars => DataInv'
<1> SUFFICES ASSUME TypeInv, DataInv, [Next]_vars PROVE DataInv'
  OBVIOUS
<1>1. ASSUME ProcessLogin PROVE DataInv'
  BY <1>1 DEF ProcessLogin, DataInv, TypeInv, TypeOK
<1>2. ASSUME Match PROVE DataInv'
  <2>1. CASE Answer("LOGIN_FAIL")
    BY <2>1, AnswerKeepsData
  <2>2. ASSUME Executed, Has(request.username, Given),
               Continue(IF request.change /\ ~nested THEN "same" ELSE "date")
        PROVE  DataInv'
    <3>1. UNCHANGED <<user, request, nested, changed, disturbed>> /\ pc = "match"
      BY <1>2, <2>2 DEF Match, Executed, Continue
    <3>2. Of(request.username) # {}
      BY <2>2 DEF Has
    <3>3. CASE request.change /\ ~nested
      <4>1. pc' = "same" /\ Given = request.password
        BY <2>2, <3>3 DEF Continue, Given
      <4> QED BY <2>2, <3>1, <3>3, <4>1 DEF DataInv, Has, Of
    <3>4. CASE ~(request.change /\ ~nested)
      <4>1. pc' = "date"
        BY <2>2, <3>4 DEF Continue
      <4> QED BY <3>1, <3>2, <4>1 DEF DataInv, Of
    <3> QED BY <3>3, <3>4
  <2>3. CASE Nameless
    BY <1>2, <2>3 DEF Match, Nameless, Continue, DataInv, Of
  <2> QED BY <1>2, <2>1, <2>2, <2>3 DEF Match
<1>3. ASSUME Same PROVE DataInv'
  <2>1. CASE Answer("LOGIN_FAIL")
    BY <2>1, AnswerKeepsData
  <2>2. CASE Failed /\ Continue("update")
    BY <2>2 DEF Failed, DataInv
  <2>3. ASSUME Executed, ~Has(request.username, request.new), Continue("update")
        PROVE  DataInv'
    <3>1. UNCHANGED <<user, request, nested, changed, disturbed>> /\ pc = "same" /\ pc' = "update"
      BY <1>3, <2>3 DEF Same, Executed, Continue
    <3>2. ~nested
      BY <3>1 DEF TypeInv, PlaceInv
    <3>3. ~disturbed => Has(request.username, request.password)
      BY <3>1 DEF DataInv
    <3>4. ~disturbed => request.new # request.password
      BY <2>3, <3>3
    <3> QED BY <3>1, <3>2, <3>3, <3>4 DEF DataInv, Has, Of
  <2> QED BY <1>3, <2>1, <2>2, <2>3 DEF Same
<1>4. ASSUME Update PROVE DataInv'
  <2>1. CASE Failed
    BY <2>1 DEF Failed, DataInv
  <2>2. ASSUME user' = Renewed(request.username, request.new),
               disturbed' = (disturbed \/ ~working')
        PROVE  DataInv'
    <3>1. pc = "update" /\ pc' = "match" /\ nested' = TRUE /\ UNCHANGED request
      BY <1>4 DEF Update
    <3>2. /\ request.new \in Passwords
          /\ \A i \in DOMAIN user : user[i] \in Rows
      BY <3>1, RequestFields DEF TypeInv, TypeOK, PlaceInv
    <3>3. /\ DOMAIN user' = DOMAIN user
          /\ \A i \in DOMAIN user :
               /\ user'[i].username = user[i].username
               /\ user[i].username = request.username =>
                    user'[i].password = request.new /\ user'[i].created_at = "fresh"
      BY <2>2, <3>2, RenewedRows
    <3>4. Of(request.username)' = Of(request.username)
      BY <3>1, <3>3 DEF Of
    <3>5. \A i \in Of(request.username)' :
            user'[i].password = request'.new /\ user'[i].created_at = "fresh"
      BY <3>1, <3>3, <3>4 DEF Of
    <3>6. ~disturbed' => ~disturbed
      BY <2>2
    <3>7. ~disturbed => Of(request.username) # {} /\ request.new # request.password
      BY <3>1 DEF DataInv, Has
    <3> QED BY <3>1, <3>4, <3>5, <3>6, <3>7 DEF DataInv
  <2> QED BY <1>4, <2>1, <2>2 DEF Update
<1>5. ASSUME Date PROVE DataInv'
  <2>1. CASE Answer("LOGIN_OK") \/ Answer("DATE_EXPIRED")
    BY <2>1, AnswerKeepsData
  <2>2. CASE Return("LOGIN_FAIL")
    BY <2>2 DEF Return, DataInv
  <2>3. CASE Failed /\ Continue("dead")
    BY <2>3 DEF Failed, DataInv
  <2>4. CASE Executed /\ Of(request.username) = {}
    BY <1>5, <2>4 DEF Date, Executed, DataInv
  <2> QED BY <1>5, <2>1, <2>2, <2>3, <2>4 DEF Date
<1>6. ASSUME ToolInserts \/ ToolSetsPassword \/ ToolDeletes \/ GrowsOld PROVE DataInv'
  BY <1>6, ToolKeepsData DEF ToolInserts, ToolSetsPassword, ToolDeletes, GrowsOld
<1>7. ASSUME UNCHANGED vars PROVE DataInv'
  BY <1>7 DEF vars, server, DataInv, Has, Of
<1> QED BY <1>1, <1>2, <1>3, <1>4, <1>5, <1>6, <1>7 DEF Next, Server

LEMMA AlwaysDataInv == Spec => [](TypeInv /\ DataInv)
<1>1. Init => DataInv
  BY DEF Init, DataInv
<1> QED BY <1>1, InitTypeInv, NextTypeInv, NextDataInv, PTL DEF Spec

\* Only a request without a name, or one that was disturbed, by the tool or by a
\* statement that failed, can end the server.
THEOREM EndsExplained == Spec => []EndsOnlyNamelessOrDisturbed
<1>1. DataInv => EndsOnlyNamelessOrDisturbed
  BY DEF DataInv, EndsOnlyNamelessOrDisturbed
<1> QED BY <1>1, AlwaysDataInv, PTL

\* How a request that nothing disturbed is answered: with LOGIN_OK, by the date of
\* the first row, or with no UPDATE done.
LEMMA Answers ==
    ASSUME TypeInv, DataInv, [Next]_vars, Answered, ~disturbed'
    PROVE  /\ ~disturbed
           /\ \/ ~nested /\ login_state' # "LOGIN_OK"
              \/ /\ pc = "date"
                 /\ \E i \in First(request.username) : user[i].created_at = "fresh"
                 /\ login_state' = "LOGIN_OK"
<1>1. CASE Match
  <2>1. Executed /\ ~Has(request.username, Given) /\ Answer("LOGIN_FAIL") /\ ~disturbed
    <3>1. ~disturbed' /\ pc' = "idle"
      BY DEF Answered
    <3>2. ~Nameless
      BY <3>1 DEF Nameless, Continue
    <3>3. Executed /\ ~Has(request.username, Given) /\ Answer("LOGIN_FAIL")
      BY <1>1, <3>1, <3>2 DEF Match, Continue, Failed
    <3> QED BY <3>1, <3>3 DEF Executed
  <2>2. ~nested
    <3>1. nested => Has(request.username, request.new)
      BY <2>1 DEF DataInv, Has
    <3> QED BY <2>1, <3>1 DEF Given
  <2> QED BY <2>1, <2>2 DEF Answer, Return
<1>2. CASE Same
  <2>1. Executed /\ Answer("LOGIN_FAIL")
    BY <1>2 DEF Same, Answered, Continue, Failed
  <2> QED BY <1>2, <2>1 DEF Same, Executed, Answer, Return, TypeInv, PlaceInv
<1>3. CASE Date
  <2>1. PICK i \in First(request.username) :
          /\ Executed
          /\ \/ user[i].created_at = "fresh" /\ Answer("LOGIN_OK")
             \/ user[i].created_at = "old" /\ Answer("DATE_EXPIRED")
             \/ user[i].created_at = "unreadable" /\ Return("LOGIN_FAIL")
    BY <1>3 DEF Date, Answered, Continue, Failed
  <2>2. ~disturbed /\ pc = "date"
    BY <1>3, <2>1 DEF Date, Executed
  <2>3. nested => user[i].created_at = "fresh"
    BY <2>2 DEF DataInv, First
  <2> QED BY <2>1, <2>2, <2>3 DEF Answer, Return
<1> QED
  BY <1>1, <1>2, <1>3 DEF Next, Server, Answered, ProcessLogin, Update, ToolInserts,
     ToolSetsPassword, ToolDeletes, GrowsOld, ToolWrites, server, vars

\* A change of password that nothing disturbed is all or nothing.
THEOREM AllOrNothing == Spec => ChangeIsAllOrNothing
<1>1. ASSUME TypeInv /\ DataInv, [Next]_vars, Answered, request.change, ~disturbed'
      PROVE  IF login_state' = "LOGIN_OK"
             THEN \A i \in DOMAIN user : user[i].username = request.username =>
                      user[i].password = request.new /\ user[i].created_at = "fresh"
             ELSE ~changed
  <2>1. CASE ~nested /\ login_state' # "LOGIN_OK"
    BY <1>1, <2>1, Answers DEF DataInv, Answered
  <2>2. CASE pc = "date"
    BY <1>1, <2>2, Answers DEF DataInv, TypeInv, PlaceInv, Of
  <2> QED BY <1>1, <2>1, <2>2, Answers
<1>2. TypeInv /\ DataInv /\ [Next]_vars =>
        [Answered /\ request.change /\ ~disturbed' =>
            IF login_state' = "LOGIN_OK"
            THEN \A i \in DOMAIN user : user[i].username = request.username =>
                     user[i].password = request.new /\ user[i].created_at = "fresh"
            ELSE ~changed]_vars
  BY <1>1
<1> QED BY <1>2, AlwaysDataInv, PTL DEF Spec, ChangeIsAllOrNothing

\* A password that has expired lets nobody in who has one row, and a change does not
\* renew a password by itself.
THEOREM ExpiredIsKeptOut == Spec => ExpiredStaysOut
<1>1. ASSUME TypeInv /\ DataInv, [Next]_vars, Answered, login_state' = "LOGIN_OK", ~disturbed'
      PROVE  \/ \E i, j \in Of(request.username) : i # j
             \/ /\ \A i \in Of(request.username) : user[i].created_at = "fresh"
                /\ request.change => request.new # request.password
  <2>1. PICK i \in First(request.username) : user[i].created_at = "fresh"
    BY <1>1, Answers
  <2>2. i \in Of(request.username)
    BY <2>1 DEF First
  <2>3. request.change => request.new # request.password
    BY <1>1, Answers DEF DataInv, TypeInv, PlaceInv
  <2> QED BY <2>1, <2>2, <2>3
<1>2. TypeInv /\ DataInv /\ [Next]_vars =>
        [Answered /\ login_state' = "LOGIN_OK" /\ ~disturbed' =>
            \/ \E i, j \in Of(request.username) : i # j
            \/ /\ \A i \in Of(request.username) : user[i].created_at = "fresh"
               /\ request.change => request.new # request.password]_vars
  BY <1>1
<1> QED BY <1>2, AlwaysDataInv, PTL DEF Spec, ExpiredStaysOut
=============================================================================
