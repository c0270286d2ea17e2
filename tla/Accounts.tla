------------------------------ MODULE Accounts ------------------------------
(***************************************************************************)
(* Users, what they are called, and how they log in: users.service.ts,     *)
(* with auth.service.ts where it registers users.  admin.service.ts does   *)
(* the same with the table of administrators, which has one unique column. *)
(*                                                                         *)
(* A call looks whether the names it is given are free, one query after    *)
(* the other, and writes its row in a statement or a transaction of its    *)
(* own.  Between any two of these others may write; what they write is     *)
(* refused by the unique indexes, if it must be.                           *)
(*                                                                         *)
(* A user and its user_meta are one row here: they are created together.   *)
(* Emails are compared and stored in lower case.  Hashing, the names of    *)
(* people and the form of a username are left out; that a code was right   *)
(* is Otp's.                                                               *)
(***************************************************************************)
EXTENDS Integers, Sequences, FiniteSets

CONSTANTS
    Emails, Usernames, Mobiles, Googles, Passwords,
    Null,
    Forms,      \* the inputs the model offers, of all Data
    Calls,      \* bound: calls under way at a time
    MaxUsers    \* bound: rows

ASSUME AccountsAssumption ==
    Null \notin Emails \cup Usernames \cup Mobiles \cup Googles \cup Passwords

VARIABLES user, call

vars == <<user, call>>

-----------------------------------------------------------------------------
(* Rows and calls.                                                         *)

\* The columns with a unique index.
Unique == {"email", "username", "mobile", "googleId"}

\* What a call is given, or has read; Null is undefined.
Data ==
    [email : Emails \cup {Null}, username : Usernames \cup {Null},
     mobile : Mobiles \cup {Null}, googleId : Googles \cup {Null},
     password : Passwords \cup {Null}]

NoData ==
    [email |-> Null, username |-> Null, mobile |-> Null, googleId |-> Null, password |-> Null]

ASSUME FormsAssumption == Forms \subseteq Data

User == {d \in Data : d.email # Null}

(* write: the statement the call has ahead of it; findEmail: it is a Google *)
(* login that has yet to see which.  todo: the columns to look at before.   *)
(* id: the row to update.  meanwhile is history: the rows others have       *)
(* written since the call began.                                            *)
Call ==
    [write : {"none", "findEmail", "link", "create", "update"}, todo : Seq(Unique),
     id : Nat, data : Data, read : Data, meanwhile : SUBSET Nat]

NewCall(write, todo, id, data, read) ==
    [write |-> write, todo |-> todo, id |-> id, data |-> data, read |-> read,
     meanwhile |-> {}]

Idle == NewCall("none", <<>>, 0, NoData, NoData)

TypeOK ==
    /\ user \in Seq(User)
    /\ call \in [Calls -> Call]
    /\ \A c \in Calls :
           /\ call[c].write = "update" <=> call[c].id # 0
           /\ call[c].id \in DOMAIN user \cup {0}
           /\ call[c].write \in {"findEmail", "link", "create"} => call[c].data \in User

Init ==
    /\ user = <<>>
    /\ call = [c \in Calls |-> Idle]

-----------------------------------------------------------------------------
(* Slips that are easy to make in the definitions below.                   *)

\* IsExist that finds names of calls under way as well, as if they were reserved.
IsWanted(column, value, id) ==
    /\ value # Null
    /\ \/ \E i \in DOMAIN user \ {id} : user[i][column] = value
       \/ Cardinality({c \in Calls : call[c].data[column] = value}) > 1

\* ProfileChecks without the mobile.
EmailChecks(d) == IF d.email = Null THEN <<>> ELSE <<"email">>

-----------------------------------------------------------------------------
(* Reads.                                                                  *)

\* isEmailExist, isUsernameExist, isMobileExist, the last two with the id to
\* leave out; 0 is none.
IsExist(column, value, id) ==
    value # Null /\ \E i \in DOMAIN user \ {id} : user[i][column] = value

\* A name that is not given is not looked for.
IfGiven(column, d) == IF d[column] = Null THEN <<>> ELSE <<column>>

RegistrationChecks(d) == IfGiven("email", d) \o IfGiven("mobile", d)

ProfileChecks(d) == IfGiven("email", d) \o IfGiven("username", d) \o IfGiven("mobile", d)

Begin(c, new) ==
    /\ call[c] = Idle
    /\ call' = [call EXCEPT ![c] = new]
    /\ UNCHANGED user

MayGrow ==
    Len(user) + Cardinality({c \in Calls : call[c].write \in {"findEmail", "create"}}) < MaxUsers

Registrations ==
    {d \in Forms :
        d.email # Null /\ d.password # Null /\ d.username = Null /\ d.googleId = Null}

GoogleAccounts ==
    {d \in Data :
        /\ d.email # Null /\ d.googleId # Null
        /\ d.username = Null /\ d.mobile = Null /\ d.password = Null}

\* registerUser once its codes are verified, and create.
RegisterUser(c, d) ==
    /\ MayGrow
    /\ Begin(c, NewCall("create", RegistrationChecks(d), 0, d, NoData))

\* getOrCreateByGoogle of an account that no user has; of one that a user has
\* it writes nothing.
LoginByGoogle(c, d) ==
    /\ MayGrow
    /\ ~IsExist("googleId", d.googleId, 0)
    /\ Begin(c, NewCall("findEmail", <<"email">>, 0, d, NoData))

\* By the user, or by an administrator, who may set a password with it.
UpdateProfileDetails(c, i, d) ==
    /\ d # NoData /\ d.googleId = Null
    /\ Begin(c, NewCall("update", ProfileChecks(d), i, d, NoData))

ChangePassword(c, i, oldPassword, newPassword) ==
    /\ user[i].password = oldPassword
    /\ Begin(c, NewCall("update", <<>>, i, [NoData EXCEPT !.password = newPassword],
                        [NoData EXCEPT !.password = oldPassword]))

\* The user with that email, or else with that mobile; then the code is verified.
ResetPassword(c, i, column, newPassword) ==
    /\ user[i][column] # Null
    /\ Begin(c, NewCall("update", <<>>, i, [NoData EXCEPT !.password = newPassword],
                        [NoData EXCEPT ![column] = user[i][column]]))

-----------------------------------------------------------------------------
(* Looking at one name after the other.                                    *)

IsNextTaken(c) ==
    LET column == Head(call[c].todo) IN
    IsExist(column, call[c].data[column], call[c].id)

LookedAt(k) == [k EXCEPT !.todo = Tail(@)]

Look(c) ==
    /\ call[c].todo # <<>>
    /\ call[c].write # "findEmail"
    /\ call' = [call EXCEPT ![c] =
                   IF IsNextTaken(c) THEN Idle ELSE LookedAt(call[c])]
    /\ UNCHANGED user

\* create looks at the email again.
EmailFound(k) == [k EXCEPT !.write = "link", !.todo = <<>>]

NoEmailFound(k) == [k EXCEPT !.write = "create"]

FindEmail(c) ==
    /\ call[c].write = "findEmail"
    /\ call' = [call EXCEPT ![c] =
                   IF IsNextTaken(c) THEN EmailFound(call[c]) ELSE NoEmailFound(call[c])]
    /\ UNCHANGED user

-----------------------------------------------------------------------------
(* Writing.                                                                *)

IsReady(c) == call[c].write # "none" /\ call[c].todo = <<>>

\* The rows that the call's names are those of, among the others than i.
Clashes(c, i) ==
    {j \in DOMAIN user \ {i} :
        \E column \in Unique : call[c].data[column] # Null /\ user[j][column] = call[c].data[column]}

\* The row a link is for, that with the email, if there is one still.
LinkRows(c) == {i \in DOMAIN user : user[i].email = call[c].data.email}

\* The call c has written row i.
Done(c, i) ==
    call' = [d \in Calls |->
                IF d = c \/ call[d] = Idle THEN Idle
                ELSE [call[d] EXCEPT !.meanwhile = @ \cup {i}]]

Create(c) ==
    /\ IsReady(c) /\ call[c].write = "create"
    /\ Clashes(c, 0) = {}
    /\ user' = Append(user, call[c].data)
    /\ Done(c, Len(user) + 1)

Link(c) ==
    /\ call[c].write = "link"
    /\ \E i \in LinkRows(c) :
           /\ Clashes(c, i) = {}
           /\ user' = [user EXCEPT ![i].googleId = call[c].data.googleId]
           /\ Done(c, i)

\* Columns that were not given stay as they are.
Updated(row, d) ==
    [column \in DOMAIN row |-> IF d[column] = Null THEN row[column] ELSE d[column]]

Update(c) ==
    /\ IsReady(c) /\ call[c].write = "update"
    /\ Clashes(c, call[c].id) = {}
    /\ user' = [user EXCEPT ![call[c].id] = Updated(@, call[c].data)]
    /\ Done(c, call[c].id)

\* A unique index refuses the row, or there is no row to link.
Refused(c) ==
    /\ IsReady(c)
    /\ \/ call[c].write = "create" /\ Clashes(c, 0) # {}
       \/ call[c].write = "update" /\ Clashes(c, call[c].id) # {}
       \/ call[c].write = "link" /\ \A i \in LinkRows(c) : Clashes(c, i) # {}
    /\ call' = [call EXCEPT ![c] = Idle]
    /\ UNCHANGED user

\* The code was not the right one, or the administrator's transaction took too long.
GiveUp(c) ==
    /\ call[c].write = "update"
    /\ call' = [call EXCEPT ![c] = Idle]
    /\ UNCHANGED user

-----------------------------------------------------------------------------
Ask(c) ==
    \/ \E d \in Registrations : RegisterUser(c, d)
    \/ \E d \in GoogleAccounts : LoginByGoogle(c, d)
    \/ \E i \in DOMAIN user :
           \/ \E d \in Forms : UpdateProfileDetails(c, i, d)
           \/ \E password \in Passwords :
                  \/ \E oldPassword \in Passwords : ChangePassword(c, i, oldPassword, password)
                  \/ \E column \in {"email", "mobile"} : ResetPassword(c, i, column, password)

Step(c) == Look(c) \/ FindEmail(c) \/ Create(c) \/ Link(c) \/ Update(c) \/ Refused(c)

Next == \E c \in Calls : Ask(c) \/ Step(c) \/ GiveUp(c)

Spec == Init /\ [][Next]_vars

\* A statement that was sent is answered.
Fairness == \A c \in Calls : WF_vars(Step(c))

LiveSpec == Spec /\ Fairness

-----------------------------------------------------------------------------
(* What must hold.                                                         *)

\* What a call is about to write can clash only with rows written while it was
\* under way, and so can what it has read of its own row have changed: the
\* password that was proved, or the email or mobile that a code was sent to.
\* A call that nobody interferes with is never refused by an index, and its
\* checks leave out no column that has one.
ChecksSuffice ==
    \A c \in Calls : IsReady(c) =>
        /\ \A i \in IF call[c].write = "link" THEN LinkRows(c) ELSE {call[c].id} :
               Clashes(c, i) \subseteq call[c].meanwhile
        /\ call[c].write = "link" /\ LinkRows(c) = {} => call[c].meanwhile # {}
        /\ \A column \in DOMAIN call[c].read :
               call[c].read[column] # Null =>
                   \/ user[call[c].id][column] = call[c].read[column]
                   \/ call[c].id \in call[c].meanwhile

\* Calls that want to create a user with the same name do not refuse each other
\* all: somebody has the email, the mobile or the Google account in the end.
OneCreationWins ==
    \A c \in Calls, d \in Registrations \cup GoogleAccounts :
        call[c].write = "create" /\ call[c].data = d
        ~> \E i \in DOMAIN user, column \in Unique :
               d[column] # Null /\ user[i][column] = d[column]
=============================================================================
