------------------------------ MODULE Accounts ------------------------------
(***************************************************************************)
(* The accounts: the user table, the server's check of a login and its     *)
(* change of a password, and the database tool, a second program with the  *)
(* same file open.                                                         *)
(*                                                                         *)
(* The server sends one SQL statement after another with no transaction    *)
(* around them, so the tool's statements fall in between.  A statement     *)
(* that fails, because the tool has the file locked or no connection could *)
(* be opened, looks like one that found nothing.  A password stands for    *)
(* its salted hash.                                                        *)
(***************************************************************************)
EXTENDS Naturals

CONSTANTS
    Names, Passwords,   \* the users and the passwords tried
    MaxRows,            \* bounds the rowids of the table
    MaxOpen             \* how many connections the server's process may hold

ASSUME AccountsAssumption == Names # {} /\ "" \notin Names /\ Passwords # {}
ASSUME RowsAssumption == MaxRows \in Nat \ {0}
ASSUME OpenAssumption == MaxOpen \in Nat \ {0}

VARIABLES
    user,         \* the rows of the table by their rowid, the order a SELECT finds them
    request,      \* the login request being handled, or the last one
    pc,           \* the statement the server sends next
    nested,       \* VerifyLogin runs inside UpdatePassword
    connections,  \* how many connections the server has open
    working,      \* the connection in use could be opened
    login_state,  \* the last answer
    changed,      \* history: the UPDATE of this request was done
    disturbed,    \* history: the tool wrote during this request, or a statement failed
    unclosed      \* history: how many logins met a date they could not read

server == <<request, pc, nested, connections, working, login_state>>
vars == <<user, server, changed, disturbed, unclosed>>

\* created_at: within the last 30 days, earlier, or a text that is no date.
Dates == {"fresh", "old", "unreadable"}
Rows == [username : Names, password : Passwords, created_at : Dates]

\* A request can come without a name, which the client lets pass; no row has none.
Usernames == Names \cup {""}
Logins == [change : {FALSE}, username : Usernames, password : Passwords]
Changes == [change : {TRUE}, username : Usernames, password : Passwords, new : Passwords]

Of(name) == {i \in DOMAIN user : user[i].username = name}
Has(name, pw) == \E i \in Of(name) : user[i].password = pw

\* The row a SELECT finds first, if there is one.
First(name) == {i \in Of(name) : \A j \in Of(name) : i <= j}

\* The password VerifyLogin is called with.
Given == IF nested THEN request.new ELSE request.password

\* Every variable keeps its range, and a change of password is never answered with
\* DATE_EXPIRED, which the client takes for a request to change it.
TypeOK ==
    /\ DOMAIN user \subseteq 1 .. MaxRows /\ \A i \in DOMAIN user : user[i] \in Rows
    /\ request \in Logins \cup Changes
    /\ pc \in {"idle", "match", "same", "update", "date", "dead"}
    /\ nested \in BOOLEAN /\ working \in BOOLEAN
    /\ connections \in 0 .. MaxOpen
    /\ login_state \in {"LOGIN_UNKNOWN", "LOGIN_OK", "LOGIN_FAIL", "DATE_EXPIRED"}
    /\ changed \in BOOLEAN /\ disturbed \in BOOLEAN
    /\ unclosed \in 0 .. MaxOpen
    /\ nested => request.change /\ pc # "idle"
    /\ pc = "idle" /\ request.change => login_state # "DATE_EXPIRED"

Init ==
    /\ user \in [{} -> Rows] \cup [{1} -> Rows]
    /\ request \in Logins
    /\ pc = "idle" /\ nested = FALSE
    /\ connections = 0 /\ working = FALSE
    /\ login_state = "LOGIN_UNKNOWN"
    /\ changed = FALSE /\ disturbed = FALSE /\ unclosed = 0

-----------------------------------------------------------------------------
(* The server.                                                               *)

\* new SQLHandler: beyond the process's limit its statements find nothing.
Open ==
    IF connections < MaxOpen
    THEN connections' = connections + 1 /\ working' = TRUE
    ELSE UNCHANGED connections /\ working' = FALSE

\* VerifyLogin or UpdatePassword begins.
ProcessLogin ==
    /\ pc = "idle"
    /\ request' \in Logins \cup Changes
    /\ pc' = "match"
    /\ Open
    /\ disturbed' = ~working' /\ changed' = FALSE
    /\ UNCHANGED <<user, nested, login_state, unclosed>>

\* Mutant of Close: a nested VerifyLogin that fails keeps its connection.
CloseInner(result) ==
    connections' = connections - (IF working THEN 1 ELSE 0)

\* sql_handler->close() of VerifyLogin, and of UpdatePassword around it.
Close(result) ==
    connections' = connections - (IF nested THEN 1 ELSE 0) - (IF working THEN 1 ELSE 0)

\* The end of VerifyLogin and of UpdatePassword, for which only LOGIN_OK of the
\* nested call is a success.
Return(result) ==
    /\ login_state' = IF nested /\ result # "LOGIN_OK" THEN "LOGIN_FAIL" ELSE result
    /\ pc' = "idle" /\ nested' = FALSE
    /\ UNCHANGED <<user, request, working, changed>>

Answer(result) == Return(result) /\ Close(result) /\ UNCHANGED unclosed

Continue(next) ==
    /\ pc' = next
    /\ UNCHANGED <<user, request, nested, connections, working, login_state, changed, unclosed>>

\* A statement is carried out, or fails: the file is locked, or was not opened.
Executed == working /\ UNCHANGED disturbed
Failed == disturbed' = TRUE

\* Without a name at(0) throws before the statement is sent: the program ends.
Nameless == request.username = "" /\ Continue("dead") /\ UNCHANGED disturbed

\* Mutant of Match: whether a row was found is not looked at.
MatchUnchecked ==
    /\ pc = "match"
    /\ \/ Nameless
       \/ /\ Executed /\ request.username # ""
          /\ Continue(IF request.change /\ ~nested THEN "same" ELSE "date")
       \/ Failed /\ request.username # "" /\ Answer("LOGIN_FAIL")

\* SELECT * FROM user WHERE username = ? AND password = ?
Match ==
    /\ pc = "match"
    /\ \/ Nameless
       \/ /\ Executed /\ Has(request.username, Given)
          /\ Continue(IF request.change /\ ~nested THEN "same" ELSE "date")
       \/ /\ Executed /\ request.username # "" /\ ~Has(request.username, Given)
          /\ Answer("LOGIN_FAIL")
       \/ Failed /\ request.username # "" /\ Answer("LOGIN_FAIL")

\* Mutant of Same: the new password is not compared with the present one.
SameUnchecked == pc = "same" /\ Continue("update") /\ UNCHANGED disturbed

\* The same query with the new password, which no row may have yet.
Same ==
    /\ pc = "same"
    /\ \/ Executed /\ Has(request.username, request.new) /\ Answer("LOGIN_FAIL")
       \/ Executed /\ ~Has(request.username, request.new) /\ Continue("update")
       \/ Failed /\ Continue("update")

\* Mutant of Renewed: the date is left alone.
RenewedKeepsDate(name, pw) ==
    [i \in DOMAIN user |->
        IF user[i].username = name THEN [user[i] EXCEPT !.password = pw] ELSE user[i]]

\* UPDATE user SET password = ?, created_at = CURRENT_TIMESTAMP WHERE username = ?
Renewed(name, pw) ==
    [i \in DOMAIN user |->
        IF user[i].username = name
        THEN [user[i] EXCEPT !.password = pw, !.created_at = "fresh"] ELSE user[i]]

\* The UPDATE, whose failure nobody looks at, and the call of VerifyLogin with a
\* connection of its own.
Update ==
    /\ pc = "update"
    /\ \/ /\ user' = Renewed(request.username, request.new)
          /\ changed' = TRUE
          /\ Open
          /\ disturbed' = (disturbed \/ ~working')
       \/ UNCHANGED <<user, changed>> /\ Open /\ Failed
    /\ pc' = "match" /\ nested' = TRUE
    /\ UNCHANGED <<request, login_state, unclosed>>

\* SELECT created_at FROM user WHERE username = ?, of which the first row counts,
\* whichever row had the password.  An answer without rows ends the program:
\* at(0) throws.
Date ==
    /\ pc = "date"
    /\ \/ /\ Executed
          /\ \E i \in First(request.username) :
             \/ user[i].created_at = "fresh" /\ Answer("LOGIN_OK")
             \/ user[i].created_at = "old" /\ Answer("DATE_EXPIRED")
             \/ /\ user[i].created_at = "unreadable"
                /\ Return("LOGIN_FAIL")
                /\ connections' = connections - (IF nested THEN 1 ELSE 0)
                /\ unclosed' = unclosed + 1
       \/ Executed /\ Of(request.username) = {} /\ Continue("dead")
       \/ Failed /\ Continue("dead")

Server == ProcessLogin \/ Match \/ Same \/ Update \/ Date

-----------------------------------------------------------------------------
(* The database tool, and time.                                              *)

ToolWrites(rows) ==
    /\ user' = rows
    /\ disturbed' = (disturbed \/ pc # "idle")
    /\ UNCHANGED <<server, changed, unclosed>>

\* Commands i and c: the row gets the rowid after the last one, and a second row of
\* a name is not refused.
ToolInserts ==
    \E new \in 1 .. MaxRows, row \in Rows :
        /\ \A i \in DOMAIN user : i < new
        /\ new = 1 \/ new - 1 \in DOMAIN user
        /\ ToolWrites([i \in DOMAIN user \cup {new} |-> IF i = new THEN row ELSE user[i]])

\* Command p.
ToolSetsPassword == \E name \in Names, pw \in Passwords : ToolWrites(Renewed(name, pw))

\* Command d.
ToolDeletes ==
    \E name \in Names : ToolWrites([i \in DOMAIN user \ Of(name) |-> user[i]])

\* Thirty days pass for a row; within a request, as if just before or after it.
GrowsOld ==
    /\ pc = "idle"
    /\ \E i \in DOMAIN user :
         /\ user[i].created_at = "fresh"
         /\ ToolWrites([user EXCEPT ![i].created_at = "old"])

Next == Server \/ ToolInserts \/ ToolSetsPassword \/ ToolDeletes \/ GrowsOld

Spec == Init /\ [][Next]_vars

-----------------------------------------------------------------------------
(* Properties.                                                               *)

Answered == pc # "idle" /\ pc' = "idle"

\* A change of password that nothing disturbed is all or nothing, although it is
\* five statements: when it is accepted the new password is the only one of that
\* user and is fresh, when it is refused nothing was written.
ChangeIsAllOrNothing ==
    [][Answered /\ request.change /\ ~disturbed' =>
        IF login_state' = "LOGIN_OK"
        THEN \A i \in DOMAIN user : user[i].username = request.username =>
                 user[i].password = request.new /\ user[i].created_at = "fresh"
        ELSE ~changed]_vars

\* A password that has expired lets nobody in, and neither does renewing it by
\* itself, if the user has one row: with several, the date of the first one counts.
ExpiredStaysOut ==
    [][Answered /\ login_state' = "LOGIN_OK" /\ ~disturbed' =>
        \/ \E i, j \in Of(request.username) : i # j
        \/ /\ \A i \in Of(request.username) : user[i].created_at = "fresh"
           /\ request.change => request.new # request.password]_vars

\* The two reads of a login find the same user: only a request without a name, what
\* the tool does between the reads, or a read that fails ends the server.
EndsOnlyNamelessOrDisturbed == pc = "dead" => request.username = "" \/ disturbed

\* Between requests the server holds only the connections it lost to dates that
\* it could not read, however a request ended.
ConnectionsReturned == pc = "idle" => connections = unclosed

=============================================================================
