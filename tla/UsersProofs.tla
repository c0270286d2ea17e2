---------------------------- MODULE UsersProofs -----------------------------
(* Theorems of Accounts and ProfileImage, for any number of users, files    *)
(* and calls under way, and of Settings, for any settings, batches and      *)
(* number of workers.                                                       *)
EXTENDS Accounts, ProfileImage, Settings, FiniteSetTheorems, TLAPS

-----------------------------------------------------------------------------
(* Accounts.                                                                *)

(* The inductive invariant: of every call, that the names it has looked at  *)
(* are free and what it has read is so, but for rows written meanwhile.     *)

\* What the indexes of the database keep.
NamesUnique ==
    \A i, j \in DOMAIN user, column \in Unique :
        user[i][column] # Null /\ user[i][column] = user[j][column] => i = j

\* The columns that the call k has not looked at, or does not mind.
Unseen(k) ==
    {k.todo[n] : n \in DOMAIN k.todo} \cup IF k.write = "link" THEN {"email"} ELSE {}

SeenIsFree(k) ==
    \A column \in Unique \ Unseen(k), j \in DOMAIN user \ {k.id} :
        k.data[column] # Null /\ user[j][column] = k.data[column] => j \in k.meanwhile

ReadIsSo(k) ==
    \A column \in DOMAIN k.read :
        k.read[column] # Null =>
            \/ user[k.id][column] = k.read[column]
            \/ k.id \in k.meanwhile

LinkHasRow(k) ==
    k.write = "link" =>
        (\E i \in DOMAIN user : user[i].email = k.data.email) \/ k.meanwhile # {}

CallTypeOK(k) ==
    /\ k \in Call
    /\ k.write = "update" <=> k.id # 0
    /\ k.id \in DOMAIN user \cup {0}
    /\ k.write \in {"findEmail", "link", "create"} => k.data \in User
    /\ k.write \in {"findEmail", "link"} => k.data.username = Null /\ k.data.mobile = Null
    /\ k.write = "findEmail" => k.todo # <<>> /\ \A n \in DOMAIN k.todo : k.todo[n] = "email"
    /\ k.id = 0 => k.read = NoData

Fits(k) ==
    /\ CallTypeOK(k)
    /\ k.write # "none" => SeenIsFree(k) /\ ReadIsSo(k)
    /\ LinkHasRow(k)

IInv ==
    /\ user \in Seq(User)
    /\ NamesUnique
    /\ call \in [Calls -> Call]
    /\ \A c \in Calls : Fits(call[c])

-----------------------------------------------------------------------------
LEMMA IdleFits == ASSUME user \in Seq(User) PROVE Fits(Idle)
  BY DEF Fits, CallTypeOK, LinkHasRow, Idle, NewCall, NoData, Call, Data

LEMMA InitInv == Init => IInv
<1> SUFFICES ASSUME Init PROVE IInv
  OBVIOUS
<1>1. user \in Seq(User) /\ NamesUnique
  BY DEF Init, NamesUnique
<1>2. Idle \in Call
  BY DEF Idle, NewCall, NoData, Call, Data
<1> QED
  BY <1>1, <1>2, IdleFits DEF Init, IInv

\* A call begins, looks or gives up: only its own record changes.
LEMMA OneCallStep ==
    ASSUME IInv, NEW c \in Calls, NEW new, Fits(new),
           call' = [call EXCEPT ![c] = new], UNCHANGED user
    PROVE  IInv'
<1>1. new \in Call
  BY DEF Fits, CallTypeOK
<1>3. ASSUME NEW d \in Calls PROVE Fits(call[d])'
  <2>1. call'[d] = IF d = c THEN new ELSE call[d]
    BY DEF IInv
  <2>2. Fits(call[d])
    BY DEF IInv
  <2> QED
    BY <2>1, <2>2 DEF Fits, CallTypeOK, SeenIsFree, ReadIsSo, LinkHasRow, Unseen
<1> QED
  BY <1>1, <1>3 DEF IInv, NamesUnique

\* A call writes row i: the records of the others remember it.
LEMMA WriteStep ==
    ASSUME IInv, NEW c \in Calls, NEW i \in DOMAIN user', Done(c, i),
           user' \in Seq(User), DOMAIN user \subseteq DOMAIN user', NamesUnique',
           \A j \in DOMAIN user' : j # i => j \in DOMAIN user /\ user'[j] = user[j]
    PROVE  IInv'
<1>1. i \in Nat
  BY DEF IInv
<1>2. ASSUME NEW d \in Calls PROVE Fits(call[d])' /\ call'[d] \in Call
  <2>1. CASE d = c \/ call[d] = Idle
    <3>1. Fits(Idle)'
      BY DEF Fits, CallTypeOK, LinkHasRow, Idle, NewCall, NoData, Call, Data
    <3>2. call'[d] = Idle
      BY <2>1 DEF Done
    <3> QED
      BY <3>1, <3>2 DEF Fits, CallTypeOK
  <2>2. CASE d # c /\ call[d] # Idle
    <3>1. call'[d] = [call[d] EXCEPT !.meanwhile = @ \cup {i}]
      BY <2>2 DEF Done
    <3>2. Fits(call[d])
      BY DEF IInv
    <3>3. /\ call'[d] \in Call
          /\ call'[d].write = call[d].write /\ call'[d].todo = call[d].todo
          /\ call'[d].id = call[d].id /\ call'[d].data = call[d].data
          /\ call'[d].read = call[d].read
          /\ call'[d].meanwhile = call[d].meanwhile \cup {i}
      BY <1>1, <3>1, <3>2 DEF Fits, CallTypeOK, Call
    <3>4. CallTypeOK(call[d])'
      BY <3>2, <3>3 DEF Fits, CallTypeOK
    <3>5. ASSUME call'[d].write # "none" PROVE SeenIsFree(call[d])'
      BY <3>2, <3>3, <3>5 DEF Fits, CallTypeOK, SeenIsFree, Unseen
    <3>6. ASSUME call'[d].write # "none" PROVE ReadIsSo(call[d])'
      <4>1. ReadIsSo(call[d])
        BY <3>2, <3>3, <3>6 DEF Fits
      <4>2. CASE call[d].id = 0
        BY <3>2, <3>3, <4>2 DEF ReadIsSo, Fits, CallTypeOK, NoData
      <4>3. CASE call[d].id \in DOMAIN user
        BY <3>3, <4>1, <4>3 DEF ReadIsSo
      <4> QED
        BY <3>2, <4>2, <4>3 DEF Fits, CallTypeOK
    <3>7. LinkHasRow(call[d])'
      BY <3>3 DEF LinkHasRow
    <3> QED
      BY <3>3, <3>4, <3>5, <3>6, <3>7 DEF Fits
  <2> QED
    BY <2>1, <2>2
<1>3. call' \in [Calls -> Call]
  BY <1>2 DEF Done
<1> QED
  BY <1>2, <1>3 DEF IInv

-----------------------------------------------------------------------------
(* Calls begin.                                                             *)

LEMMA IfGivenIs ==
    ASSUME NEW d, NEW column \in Unique
    PROVE  /\ IfGiven(column, d) \in Seq(Unique)
           /\ d[column] # Null => Len(IfGiven(column, d)) = 1 /\ IfGiven(column, d)[1] = column
<1>1. CASE d[column] = Null
  BY <1>1 DEF IfGiven
<1>2. CASE d[column] # Null
  <2>1. IfGiven(column, d) = <<column>>
    BY <1>2 DEF IfGiven
  <2> QED
    BY <2>1
<1> QED
  BY <1>1, <1>2

LEMMA ChecksType ==
    ASSUME NEW d
    PROVE  RegistrationChecks(d) \in Seq(Unique) /\ ProfileChecks(d) \in Seq(Unique)
<1>1. /\ IfGiven("email", d) \in Seq(Unique) /\ IfGiven("username", d) \in Seq(Unique)
      /\ IfGiven("mobile", d) \in Seq(Unique)
  BY IfGivenIs DEF Unique
<1> QED
  BY <1>1 DEF RegistrationChecks, ProfileChecks

\* Whatever is given is looked for.
LEMMA ChecksAll ==
    ASSUME NEW d
    PROVE  /\ \A column \in {"email", "mobile"} :
                  d[column] # Null =>
                      \E n \in DOMAIN RegistrationChecks(d) : RegistrationChecks(d)[n] = column
           /\ \A column \in {"email", "username", "mobile"} :
                  d[column] # Null =>
                      \E n \in DOMAIN ProfileChecks(d) : ProfileChecks(d)[n] = column
<1> DEFINE e == IfGiven("email", d)  u == IfGiven("username", d)  m == IfGiven("mobile", d)
<1>1. /\ e \in Seq(Unique) /\ u \in Seq(Unique) /\ m \in Seq(Unique)
      /\ d.email # Null => Len(e) = 1 /\ e[1] = "email"
      /\ d.username # Null => Len(u) = 1 /\ u[1] = "username"
      /\ d.mobile # Null => Len(m) = 1 /\ m[1] = "mobile"
  BY IfGivenIs DEF Unique
<1> HIDE DEF e, u, m
<1>2. /\ d.email # Null => (e \o m)[1] = "email" /\ 1 \in DOMAIN (e \o m)
      /\ d.mobile # Null => (e \o m)[Len(e) + 1] = "mobile" /\ Len(e) + 1 \in DOMAIN (e \o m)
  BY <1>1
<1>3. /\ d.email # Null => (e \o u)[1] = "email" /\ 1 \in DOMAIN (e \o u)
      /\ d.username # Null =>
             (e \o u)[Len(e) + 1] = "username" /\ Len(e) + 1 \in DOMAIN (e \o u)
      /\ e \o u \in Seq(Unique)
  BY <1>1
<1> DEFINE p == e \o u
<1> HIDE DEF p
<1>4. /\ p \in Seq(Unique)
      /\ \A n \in DOMAIN p : (p \o m)[n] = p[n] /\ n \in DOMAIN (p \o m)
      /\ d.mobile # Null => (p \o m)[Len(p) + 1] = "mobile" /\ Len(p) + 1 \in DOMAIN (p \o m)
  <2>1. p \in Seq(Unique)
    BY <1>3 DEF p
  <2> QED
    BY <1>1, <2>1
<1>5. /\ d.email # Null => p[1] = "email" /\ 1 \in DOMAIN p
      /\ d.username # Null => p[Len(e) + 1] = "username" /\ Len(e) + 1 \in DOMAIN p
  BY <1>3 DEF p
<1>6. RegistrationChecks(d) = e \o m /\ ProfileChecks(d) = p \o m
  BY DEF RegistrationChecks, ProfileChecks, e, u, m, p
<1>7. ASSUME NEW column \in {"email", "mobile"}, d[column] # Null
      PROVE  \E n \in DOMAIN RegistrationChecks(d) : RegistrationChecks(d)[n] = column
  <2>1. CASE column = "email"
    BY <1>2, <1>6, <1>7, <2>1
  <2>2. CASE column = "mobile"
    BY <1>2, <1>6, <1>7, <2>2
  <2> QED
    BY <2>1, <2>2
<1>8. ASSUME NEW column \in {"email", "username", "mobile"}, d[column] # Null
      PROVE  \E n \in DOMAIN ProfileChecks(d) : ProfileChecks(d)[n] = column
  <2>1. CASE column = "email"
    BY <1>4, <1>5, <1>6, <1>8, <2>1
  <2>2. CASE column = "username"
    BY <1>4, <1>5, <1>6, <1>8, <2>2
  <2>3. CASE column = "mobile"
    BY <1>4, <1>6, <1>8, <2>3
  <2> QED
    BY <2>1, <2>2, <2>3
<1> QED
  BY <1>7, <1>8

LEMMA NoDataType == NoData \in Data
  BY DEF NoData, Data

\* A call may begin that has yet to look at what it is given, or found it free.
LEMMA BeginInv ==
    ASSUME IInv, NEW c \in Calls,
           NEW write, NEW todo, NEW id, NEW data, NEW read,
           write \in {"findEmail", "create", "update"}, todo \in Seq(Unique),
           id \in DOMAIN user \cup {0}, data \in Data, read \in Data,
           write = "update" <=> id # 0,
           write # "update" => data \in User /\ read = NoData,
           write = "findEmail" =>
               /\ data.username = Null /\ data.mobile = Null
               /\ todo # <<>> /\ \A n \in DOMAIN todo : todo[n] = "email",
           \A column \in Unique : data[column] # Null =>
               \/ \E n \in DOMAIN todo : todo[n] = column
               \/ \A j \in DOMAIN user \ {id} : user[j][column] # data[column],
           \A column \in DOMAIN read : read[column] # Null => user[id][column] = read[column],
           Begin(c, NewCall(write, todo, id, data, read))
    PROVE  IInv'
<1> DEFINE new == NewCall(write, todo, id, data, read)
<1>1. /\ new.write = write /\ new.todo = todo /\ new.data = data
      /\ new.id = id /\ new.read = read /\ new.meanwhile = {}
  BY DEF NewCall
<1>2. new \in Call
  BY DEF NewCall, Call, IInv
<1>3. call' = [call EXCEPT ![c] = new] /\ UNCHANGED user
  BY DEF Begin
<1> HIDE DEF new
<1>4. SeenIsFree(new)
  BY <1>1 DEF SeenIsFree, Unseen
<1>5. ReadIsSo(new) /\ LinkHasRow(new)
  BY <1>1 DEF ReadIsSo, LinkHasRow
<1>6. CallTypeOK(new)
  BY <1>1, <1>2 DEF CallTypeOK
<1>7. Fits(new)
  BY <1>4, <1>5, <1>6 DEF Fits
<1> QED
  BY <1>3, <1>7, OneCallStep

LEMMA RegisterUserInv ==
    ASSUME IInv, NEW c \in Calls, NEW d \in Registrations, RegisterUser(c, d)
    PROVE  IInv'
<1>1. d \in Data /\ d \in User /\ d.username = Null /\ d.googleId = Null
  BY FormsAssumption DEF Registrations, User
<1>2. ASSUME NEW column \in Unique, d[column] # Null
      PROVE  \E n \in DOMAIN RegistrationChecks(d) : RegistrationChecks(d)[n] = column
  BY <1>1, <1>2, ChecksAll DEF Unique
<1>3. Begin(c, NewCall("create", RegistrationChecks(d), 0, d, NoData))
  BY DEF RegisterUser
<1> QED
  BY <1>1, <1>2, <1>3, ChecksType, NoDataType, BeginInv DEF NoData

LEMMA LoginByGoogleInv ==
    ASSUME IInv, NEW c \in Calls, NEW d \in GoogleAccounts, LoginByGoogle(c, d)
    PROVE  IInv'
<1>1. d \in Data /\ d \in User /\ d.username = Null /\ d.mobile = Null
  BY DEF GoogleAccounts, User
<1>2. <<"email">> \in Seq(Unique) /\ <<"email">>[1] = "email" /\ 1 \in DOMAIN <<"email">>
  BY DEF Unique
<1>3. ASSUME NEW column \in Unique, d[column] # Null
      PROVE  \/ \E n \in DOMAIN <<"email">> : <<"email">>[n] = column
             \/ \A j \in DOMAIN user \ {0} : user[j][column] # d[column]
  <2>1. CASE column = "email"
    BY <1>2, <2>1
  <2>2. CASE column = "googleId"
    BY <1>3, <2>2 DEF LoginByGoogle, IsExist
  <2> QED
    BY <1>1, <1>3, <2>1, <2>2 DEF Unique
<1>4. Begin(c, NewCall("findEmail", <<"email">>, 0, d, NoData))
  BY DEF LoginByGoogle
<1>5. \A column \in DOMAIN NoData : NoData[column] = Null
  BY DEF NoData
<1> DEFINE todo == <<"email">>
<1>6. /\ todo \in Seq(Unique) /\ Begin(c, NewCall("findEmail", todo, 0, d, NoData))
      /\ todo # <<>> /\ \A n \in DOMAIN todo : todo[n] = "email"
      /\ \A column \in Unique : d[column] # Null =>
             \/ \E n \in DOMAIN todo : todo[n] = column
             \/ \A j \in DOMAIN user \ {0} : user[j][column] # d[column]
  BY <1>2, <1>3, <1>4
<1> HIDE DEF todo
<1> QED
  BY <1>1, <1>5, <1>6, NoDataType, BeginInv

LEMMA UpdateProfileDetailsInv ==
    ASSUME IInv, NEW c \in Calls, NEW i \in DOMAIN user, NEW d \in Forms,
           UpdateProfileDetails(c, i, d)
    PROVE  IInv'
<1>1. d \in Data /\ d.googleId = Null /\ i # 0
  BY FormsAssumption DEF UpdateProfileDetails, IInv
<1>2. ASSUME NEW column \in Unique, d[column] # Null
      PROVE  \E n \in DOMAIN ProfileChecks(d) : ProfileChecks(d)[n] = column
  BY <1>1, <1>2, ChecksAll DEF Unique
<1>3. Begin(c, NewCall("update", ProfileChecks(d), i, d, NoData))
  BY DEF UpdateProfileDetails
<1> QED
  BY <1>1, <1>2, <1>3, ChecksType, NoDataType, BeginInv DEF NoData

\* A new password for row i, of which a column was read.
LEMMA PasswordInv ==
    ASSUME IInv, NEW c \in Calls, NEW i \in DOMAIN user, NEW password \in Passwords,
           NEW column \in {"email", "mobile", "password"}, NEW value,
           value = user[i][column],
           Begin(c, NewCall("update", <<>>, i, [NoData EXCEPT !.password = password],
                            [NoData EXCEPT ![column] = value]))
    PROVE  IInv'
<1> DEFINE data == [NoData EXCEPT !.password = password]
           read == [NoData EXCEPT ![column] = value]
           todo == <<>>
<1>1. i # 0 /\ user[i] \in Data
  BY DEF IInv, User
<1>2. data \in Data /\ read \in Data
  <2>1. column = "email" => value \in Emails \cup {Null}
    BY <1>1 DEF Data
  <2>2. column = "mobile" => value \in Mobiles \cup {Null}
    BY <1>1 DEF Data
  <2>3. column = "password" => value \in Passwords \cup {Null}
    BY <1>1 DEF Data
  <2> QED
    BY <2>1, <2>2, <2>3 DEF NoData, Data
<1>3. \A name \in Unique : data[name] = Null
  BY DEF NoData, Unique
<1>4. \A name \in DOMAIN read : read[name] # Null => user[i][name] = read[name]
  BY DEF NoData
<1>5. todo \in Seq(Unique) /\ Begin(c, NewCall("update", todo, i, data, read))
  OBVIOUS
<1> HIDE DEF data, read, todo
<1>6. \A name \in Unique : data[name] # Null =>
          \/ \E n \in DOMAIN todo : todo[n] = name
          \/ \A j \in DOMAIN user \ {i} : user[j][name] # data[name]
  BY <1>3
<1> QED
  BY <1>1, <1>2, <1>4, <1>5, <1>6, BeginInv

-----------------------------------------------------------------------------
(* Calls look, give up or are refused.                                      *)

LEMMA TailHasTheRest ==
    ASSUME NEW s \in Seq(Unique), s # <<>>
    PROVE  /\ Tail(s) \in Seq(Unique)
           /\ \A n \in DOMAIN s : s[n] = Head(s) \/ \E m \in DOMAIN Tail(s) : Tail(s)[m] = s[n]
<1>1. /\ Tail(s) \in Seq(Unique) /\ Len(Tail(s)) = Len(s) - 1
      /\ \A m \in 1..Len(s) - 1 : Tail(s)[m] = s[m + 1]
  OBVIOUS
<1>2. ASSUME NEW n \in DOMAIN s, n # 1 PROVE \E m \in DOMAIN Tail(s) : Tail(s)[m] = s[n]
  <2>1. n - 1 \in DOMAIN Tail(s) /\ Tail(s)[n - 1] = s[n]
    BY <1>1, <1>2
  <2> QED
    BY <2>1
<1>3. s[1] = Head(s)
  OBVIOUS
<1> QED
  BY <1>1, <1>2, <1>3

\* A call that ends without a write.
LEMMA EndInv ==
    ASSUME IInv, NEW c \in Calls, call' = [call EXCEPT ![c] = Idle], UNCHANGED user
    PROVE  IInv'
<1>1. Fits(Idle)
  BY IdleFits DEF IInv
<1> QED
  BY <1>1, OneCallStep

LEMMA LookInv ==
    ASSUME IInv, NEW c \in Calls, Look(c)
    PROVE  IInv'
<1> DEFINE k == call[c]  column == Head(k.todo)
<1>1. CASE IsNextTaken(c)
  BY <1>1, EndInv DEF Look
<1>2. CASE ~IsNextTaken(c)
  <2> DEFINE new == LookedAt(k)
  <2>1. call' = [call EXCEPT ![c] = new] /\ UNCHANGED user
    BY <1>2 DEF Look
  <2>2. Fits(k) /\ k \in Call /\ k.todo \in Seq(Unique) /\ k.todo # <<>> /\ k.write # "findEmail"
    BY DEF IInv, Fits, CallTypeOK, Call, Look
  <2>3. Tail(k.todo) \in Seq(Unique)
    BY <2>2, TailHasTheRest
  <2>4. /\ new \in Call
        /\ new.write = k.write /\ new.todo = Tail(k.todo) /\ new.id = k.id
        /\ new.data = k.data /\ new.read = k.read /\ new.meanwhile = k.meanwhile
    BY <2>2, <2>3 DEF Call, LookedAt
  <2>5. column # "none" /\ \A j \in DOMAIN user \ {k.id} :
            k.data[column] # Null => user[j][column] # k.data[column]
    BY <1>2, <2>2 DEF IsNextTaken, IsExist, Unique
  <2>6. \A name \in Unique \ Unseen(new) : name \notin Unseen(k) \/ name = column
    <3>1. \A n \in DOMAIN k.todo :
              k.todo[n] = column \/ \E m \in DOMAIN new.todo : new.todo[m] = k.todo[n]
      BY <2>2, <2>4, TailHasTheRest
    <3> HIDE DEF new, k, column
    <3> QED
      BY <2>4, <3>1 DEF Unseen
  <2> HIDE DEF new, k, column
  <2>7. new.write # "none" => SeenIsFree(new) /\ ReadIsSo(new)
    BY <2>2, <2>4, <2>5, <2>6 DEF Fits, SeenIsFree, ReadIsSo
  <2>8. CallTypeOK(new) /\ LinkHasRow(new)
    BY <2>2, <2>4 DEF Fits, CallTypeOK, LinkHasRow
  <2>9. Fits(new)
    BY <2>7, <2>8 DEF Fits
  <2> QED
    BY <2>1, <2>9, OneCallStep
<1> QED
  BY <1>1, <1>2

LEMMA FindEmailInv ==
    ASSUME IInv, NEW c \in Calls, FindEmail(c)
    PROVE  IInv'
<1> DEFINE k == call[c]
           new == IF IsNextTaken(c) THEN EmailFound(k) ELSE NoEmailFound(k)
<1>1. call' = [call EXCEPT ![c] = new] /\ UNCHANGED user
  BY DEF FindEmail
<1>2. Fits(k) /\ k \in Call /\ k.write = "findEmail" /\ k.id = 0 /\ k.todo \in Seq(Unique)
  BY DEF IInv, Fits, CallTypeOK, Call, FindEmail
<1>3. /\ new \in Call /\ new.id = k.id /\ new.data = k.data /\ new.read = k.read
      /\ new.meanwhile = k.meanwhile
      /\ IsNextTaken(c) => new.write = "link" /\ new.todo = <<>>
      /\ ~IsNextTaken(c) => new.write = "create" /\ new.todo = k.todo
  <2>1. CASE IsNextTaken(c)
    <3>1. new = EmailFound(k) /\ <<>> \in Seq(Unique)
      BY <2>1
    <3> QED
      BY <1>2, <2>1, <3>1 DEF Call, EmailFound
  <2>2. CASE ~IsNextTaken(c)
    BY <1>2, <2>2 DEF Call, NoEmailFound
  <2> QED
    BY <2>1, <2>2
<1>4. IsNextTaken(c) => \E i \in DOMAIN user : user[i].email = k.data.email
  <2>1. Head(k.todo) = "email"
    BY <1>2 DEF Fits, CallTypeOK
  <2> QED
    BY <2>1 DEF IsNextTaken, IsExist
<1>5. Unseen(k) \subseteq Unseen(new)
  <2>1. Unseen(k) \subseteq {"email"}
    BY <1>2 DEF Fits, CallTypeOK, Unseen
  <2>2. CASE IsNextTaken(c)
    BY <1>3, <2>1, <2>2 DEF Unseen
  <2>3. CASE ~IsNextTaken(c)
    BY <1>2, <1>3, <2>3 DEF Unseen
  <2> QED
    BY <2>2, <2>3
<1> HIDE DEF new, k
<1>6. new.write # "none" => SeenIsFree(new) /\ ReadIsSo(new)
  BY <1>2, <1>3, <1>5 DEF Fits, SeenIsFree, ReadIsSo
<1>7. CallTypeOK(new) /\ LinkHasRow(new)
  BY <1>2, <1>3, <1>4 DEF Fits, CallTypeOK, LinkHasRow
<1>8. Fits(new)
  BY <1>6, <1>7 DEF Fits
<1> QED
  BY <1>1, <1>8, OneCallStep

-----------------------------------------------------------------------------
(* Calls write.                                                             *)

LEMMA CreateInv ==
    ASSUME IInv, NEW c \in Calls, Create(c)
    PROVE  IInv'
<1> DEFINE d == call[c].data  i == Len(user) + 1
<1>1. user \in Seq(User) /\ d \in User /\ user' = Append(user, d) /\ Done(c, i)
  BY DEF IInv, Fits, CallTypeOK, Create
<1> HIDE DEF d
<1>2. /\ user' \in Seq(User) /\ i \in DOMAIN user' /\ user'[i] = d
      /\ DOMAIN user' = DOMAIN user \cup {i} /\ i \notin DOMAIN user
      /\ \A j \in DOMAIN user : user'[j] = user[j]
  BY <1>1
<1>3. \A j \in DOMAIN user, column \in Unique : d[column] # Null => user[j][column] # d[column]
  <2>1. 0 \notin DOMAIN user
    BY <1>1
  <2> QED
    BY <2>1 DEF Create, Clashes, d
<1>4. NamesUnique'
  BY <1>2, <1>3 DEF IInv, NamesUnique
<1> HIDE DEF i
<1> QED
  BY <1>1, <1>2, <1>4, WriteStep

\* Row i of user becomes row, whose names no other row has.
LEMMA RowInv ==
    ASSUME IInv, NEW c \in Calls, NEW i \in DOMAIN user, NEW row \in User, Done(c, i),
           user' = [user EXCEPT ![i] = row],
           \A j \in DOMAIN user \ {i}, column \in Unique :
               row[column] # Null => user[j][column] # row[column]
    PROVE  IInv'
<1>1. /\ user' \in Seq(User) /\ DOMAIN user' = DOMAIN user /\ user'[i] = row
      /\ \A j \in DOMAIN user \ {i} : user'[j] = user[j]
  BY DEF IInv
<1>2. NamesUnique'
  BY <1>1 DEF IInv, NamesUnique
<1> QED
  BY <1>1, <1>2, WriteStep

LEMMA LinkInv ==
    ASSUME IInv, NEW c \in Calls, Link(c)
    PROVE  IInv'
<1> DEFINE d == call[c].data
<1>1. d \in Data
  BY DEF IInv, Call
<1>2. PICK i \in LinkRows(c) :
          /\ Clashes(c, i) = {} /\ user' = [user EXCEPT ![i].googleId = d.googleId] /\ Done(c, i)
  BY DEF Link
<1>3. i \in DOMAIN user /\ user[i] \in User
  BY <1>2 DEF LinkRows, IInv
<1> DEFINE row == [user[i] EXCEPT !.googleId = d.googleId]
<1>4. /\ row \in User /\ row.googleId = d.googleId
      /\ \A column \in Unique \ {"googleId"} : row[column] = user[i][column]
  BY <1>1, <1>3 DEF User, Data, Unique
<1>5. user' = [user EXCEPT ![i] = row]
  BY <1>2
<1> HIDE DEF row
<1>6. \A j \in DOMAIN user \ {i}, column \in Unique :
          row[column] # Null => user[j][column] # row[column]
  BY <1>2, <1>3, <1>4 DEF Clashes, IInv, NamesUnique, Unique
<1> QED
  BY <1>2, <1>3, <1>4, <1>5, <1>6, RowInv

LEMMA UpdatedRow ==
    ASSUME NEW row \in User, NEW d \in Data
    PROVE  /\ Updated(row, d) \in User
           /\ \A column \in Unique :
                  Updated(row, d)[column] = IF d[column] = Null THEN row[column] ELSE d[column]
  BY DEF Updated, User, Data, Unique

LEMMA UpdateInv ==
    ASSUME IInv, NEW c \in Calls, Update(c)
    PROVE  IInv'
<1> DEFINE d == call[c].data  i == call[c].id  row == Updated(user[i], d)
<1>1. d \in Data /\ i \in DOMAIN user /\ user[i] \in User
  BY DEF IInv, Fits, CallTypeOK, Call, Update
<1>2. user' = [user EXCEPT ![i] = row] /\ Clashes(c, i) = {} /\ Done(c, i)
  BY DEF Update
<1>3. row \in User /\ \A column \in Unique :
          row[column] = IF d[column] = Null THEN user[i][column] ELSE d[column]
  BY <1>1, UpdatedRow
<1> HIDE DEF row
<1>4. \A j \in DOMAIN user \ {i}, column \in Unique :
          row[column] # Null => user[j][column] # row[column]
  BY <1>1, <1>2, <1>3 DEF Clashes, IInv, NamesUnique
<1> QED
  BY <1>1, <1>2, <1>3, <1>4, RowInv

-----------------------------------------------------------------------------
LEMMA AskInv ==
    ASSUME IInv, NEW c \in Calls, Ask(c)
    PROVE  IInv'
<1>1. CASE \E d \in Registrations : RegisterUser(c, d)
  BY <1>1, RegisterUserInv
<1>2. CASE \E d \in GoogleAccounts : LoginByGoogle(c, d)
  BY <1>2, LoginByGoogleInv
<1>3. CASE \E i \in DOMAIN user, d \in Forms : UpdateProfileDetails(c, i, d)
  BY <1>3, UpdateProfileDetailsInv
<1>4. ASSUME NEW i \in DOMAIN user, NEW password \in Passwords, NEW oldPassword \in Passwords,
             ChangePassword(c, i, oldPassword, password)
      PROVE  IInv'
  BY <1>4, PasswordInv DEF ChangePassword
<1>5. ASSUME NEW i \in DOMAIN user, NEW password \in Passwords, NEW column \in {"email", "mobile"},
             ResetPassword(c, i, column, password)
      PROVE  IInv'
  BY <1>5, PasswordInv DEF ResetPassword
<1> QED
  BY <1>1, <1>2, <1>3, <1>4, <1>5 DEF Ask

LEMMA NextInv ==
    ASSUME IInv, [Next]_vars
    PROVE  IInv'
<1>1. CASE UNCHANGED vars
  BY <1>1 DEF vars, IInv, NamesUnique, Fits, CallTypeOK, SeenIsFree, ReadIsSo, LinkHasRow, Unseen
<1>2. ASSUME NEW c \in Calls, Ask(c) \/ Step(c) \/ GiveUp(c) PROVE IInv'
  <2>1. CASE Ask(c)
    BY <2>1, AskInv
  <2>2. CASE Look(c)
    BY <2>2, LookInv
  <2>3. CASE FindEmail(c)
    BY <2>3, FindEmailInv
  <2>4. CASE Create(c)
    BY <2>4, CreateInv
  <2>5. CASE Link(c)
    BY <2>5, LinkInv
  <2>6. CASE Update(c)
    BY <2>6, UpdateInv
  <2>7. CASE Refused(c)
    BY <2>7, EndInv DEF Refused
  <2>8. CASE GiveUp(c)
    BY <2>8, EndInv DEF GiveUp
  <2> QED
    BY <1>2, <2>1, <2>2, <2>3, <2>4, <2>5, <2>6, <2>7, <2>8 DEF Step
<1> QED
  BY <1>1, <1>2 DEF Next

-----------------------------------------------------------------------------
LEMMA Invariance == Spec => []IInv
  BY InitInv, NextInv, PTL DEF Spec

\* Rows and calls keep their types: an email is never lost, and a call that is
\* to update a row names one.
THEOREM TypeCorrect == Spec => []TypeOK
<1>1. IInv => TypeOK
  BY DEF IInv, Fits, CallTypeOK, TypeOK
<1> QED
  BY <1>1, Invariance, PTL

\* However many calls overlap, what a call is about to write clashes only with
\* rows written while it was under way, and only then is what it has read stale.
THEOREM ChecksAreEnough == Spec => []ChecksSuffice
<1>1. ASSUME IInv, NEW c \in Calls, IsReady(c)
      PROVE  /\ \A i \in IF call[c].write = "link" THEN LinkRows(c) ELSE {call[c].id} :
                    Clashes(c, i) \subseteq call[c].meanwhile
             /\ call[c].write = "link" /\ LinkRows(c) = {} => call[c].meanwhile # {}
             /\ \A column \in DOMAIN call[c].read :
                    call[c].read[column] # Null =>
                        \/ user[call[c].id][column] = call[c].read[column]
                        \/ call[c].id \in call[c].meanwhile
  <2>1. Fits(call[c]) /\ SeenIsFree(call[c]) /\ ReadIsSo(call[c]) /\ call[c].todo = <<>>
    BY <1>1 DEF IInv, IsReady, Fits
  <2>2. ASSUME NEW i \in LinkRows(c), call[c].write = "link"
        PROVE  Clashes(c, i) \subseteq call[c].meanwhile
    <3>1. ASSUME NEW j \in Clashes(c, i) PROVE j \in call[c].meanwhile
      <4>1. PICK column \in Unique :
                call[c].data[column] # Null /\ user[j][column] = call[c].data[column]
        BY <3>1 DEF Clashes
      <4>2. j \in DOMAIN user \ {i} /\ i \in DOMAIN user /\ user[i].email = call[c].data.email
        BY DEF Clashes, LinkRows
      <4>3. column # "email"
        BY <1>1, <4>1, <4>2 DEF IInv, NamesUnique
      <4>4. column \notin Unseen(call[c]) /\ j \in DOMAIN user \ {call[c].id}
        BY <1>1, <2>1, <2>2, <4>2, <4>3 DEF Unseen, Fits, CallTypeOK, IInv
      <4> QED
        BY <2>1, <4>1, <4>4 DEF SeenIsFree
    <3> QED
      BY <3>1
  <2>3. ASSUME call[c].write # "link"
        PROVE  Clashes(c, call[c].id) \subseteq call[c].meanwhile
    <3>1. Unseen(call[c]) = {}
      BY <2>1, <2>3 DEF Unseen
    <3> QED
      BY <2>1, <3>1 DEF SeenIsFree, Clashes
  <2>4. call[c].write = "link" /\ LinkRows(c) = {} => call[c].meanwhile # {}
    BY <2>1 DEF Fits, LinkHasRow, LinkRows
  <2> QED
    BY <2>1, <2>2, <2>3, <2>4 DEF ReadIsSo
<1>2. IInv => ChecksSuffice
  BY <1>1 DEF ChecksSuffice
<1> QED
  BY <1>2, Invariance, PTL

-----------------------------------------------------------------------------
(* Profile images.  The inductive invariant: what the call that holds the   *)
(* lock has moved is in its directory, or was lost.                         *)

\* The image that a transaction is about to commit has been moved, unless a call
\* that went on after its timeout has removed it.
NextIsStored ==
    lock # None /\ update[lock].phase = "moved" =>
        update[lock].next \in stored \cup lost

\* What is inductive of the image, whatever calls do.
ImageInv == ImageTypeOK /\ NextIsStored /\ ImageMissingHasCause

\* While no call overlaps another or fails, there is nothing in storage but the
\* image of the row, or of the call that runs.
LeftBehindInv ==
    ~disturbed =>
        /\ \A c, d \in Updates : update[c].phase # "idle" /\ update[d].phase # "idle" => c = d
        /\ (\A c \in Updates : update[c].phase = "idle") => stored \subseteq {profileImage}
        /\ \A c \in Updates :
               /\ update[c].phase # "idle" => update[c].previous = profileImage
               /\ update[c].phase \in {"read", "updated"} => stored \subseteq {profileImage}
               /\ update[c].phase = "removed" => stored = {}
               /\ update[c].phase = "moved" => stored \subseteq {update[c].next}

LEMMA ImagesAtFirst == ImageInit => ImageInv /\ LeftBehindInv
<1> SUFFICES ASSUME ImageInit PROVE ImageInv /\ LeftBehindInv
  OBVIOUS
<1>1. /\ profileImage = None /\ lock = None
      /\ uploads = {} /\ stored = {} /\ used = {} /\ lost = {} /\ disturbed = FALSE
      /\ update = [c \in Updates |-> NoUpdate]
  BY DEF ImageInit
<1>2. NoUpdate \in UpdateCall
  BY DEF NoUpdate, UpdateCall, Phases
<1>3. ImageTypeOK
  BY <1>1, <1>2 DEF ImageTypeOK
<1>4. NoUpdate.phase = "idle"
  BY DEF NoUpdate
<1>5. NextIsStored /\ ImageMissingHasCause
  BY <1>1 DEF NextIsStored, ImageMissingHasCause
<1>6. LeftBehindInv
  BY <1>1, <1>4 DEF LeftBehindInv
<1>7. QED BY <1>3, <1>5, <1>6 DEF ImageInv

LEMMA ImageTypesStep == ImageTypeOK /\ [ImageNext]_ivars => ImageTypeOK'
<1> SUFFICES ASSUME ImageTypeOK, [ImageNext]_ivars
             PROVE  ImageTypeOK'
  OBVIOUS
<1> USE ProfileImageAssumption DEF ImageTypeOK, UpdateCall, Phases
<1>1. ASSUME NEW f \in Files, Upload(f) PROVE ImageTypeOK'
  BY <1>1 DEF Upload
<1>2. ASSUME NEW c \in Updates, NEW f \in Files, ReadUser(c, f) PROVE ImageTypeOK'
  BY <1>2 DEF ReadUser
<1>3. ASSUME NEW c \in Updates, UpdateRow(c) PROVE ImageTypeOK'
  BY <1>3 DEF UpdateRow, Advance
<1>4. ASSUME NEW c \in Updates, RemovePrevious(c) PROVE ImageTypeOK'
  BY <1>4 DEF RemovePrevious, Advance, ToRemove
<1>5. ASSUME NEW c \in Updates, Move(c) PROVE ImageTypeOK'
  BY <1>5 DEF Move, Advance, UploadsAfter
<1>6. ASSUME NEW c \in Updates, Commit(c) PROVE ImageTypeOK'
  BY <1>6 DEF Commit, NoUpdate
<1>7. ASSUME NEW c \in Updates, MoveFails(c) PROVE ImageTypeOK'
  BY <1>7 DEF MoveFails, Rollback, RemovedInVain, NoUpdate
<1>8. ASSUME NEW c \in Updates, Fail(c) PROVE ImageTypeOK'
  BY <1>8 DEF Fail, Rollback, RemovedInVain, NoUpdate
<1>9. ASSUME NEW c \in Updates, Expire(c) PROVE ImageTypeOK'
  BY <1>9 DEF Expire, Rollback, RemovedInVain
<1>10. CASE UNCHANGED ivars
  BY <1>10 DEF ivars
<1>11. QED
  BY <1>1, <1>2, <1>3, <1>4, <1>5, <1>6, <1>7, <1>8, <1>9, <1>10
  DEF ImageNext, UpdateProfileImage

LEMMA ImagesStep ==
    ImageInv /\ [ImageNext]_ivars => ImageInv'
<1> SUFFICES ASSUME ImageInv, [ImageNext]_ivars
             PROVE  ImageInv'
  OBVIOUS
<1> DEFINE Holds == NextIsStored /\ ImageMissingHasCause
<1>0. ImageTypeOK /\ ImageTypeOK' /\ None \notin Updates
  BY ImageTypesStep, ProfileImageAssumption DEF ImageInv
<1> USE DEF ImageInv, NextIsStored, ImageMissingHasCause, ImageTypeOK, UpdateCall
<1>1. ASSUME NEW f \in Files, Upload(f) PROVE Holds'
  BY <1>0, <1>1 DEF Upload
<1>2. ASSUME NEW c \in Updates, NEW f \in Files, ReadUser(c, f) PROVE Holds'
  BY <1>0, <1>2 DEF ReadUser
<1>3. ASSUME NEW c \in Updates, UpdateRow(c) PROVE Holds'
  BY <1>0, <1>3 DEF UpdateRow, Advance
<1>4. ASSUME NEW c \in Updates, RemovePrevious(c) PROVE Holds'
  BY <1>0, <1>4 DEF RemovePrevious, Advance, ToRemove
<1>5. ASSUME NEW c \in Updates, Move(c) PROVE Holds'
  BY <1>0, <1>5 DEF Move, Advance, UploadsAfter
<1>6. ASSUME NEW c \in Updates, Commit(c) PROVE Holds'
  BY <1>0, <1>6 DEF Commit
<1>7. ASSUME NEW c \in Updates, Rollback(c),
             UNCHANGED <<profileImage, uploads, stored, used>>,
             update' = update \/ update' = [update EXCEPT ![c] = NoUpdate]
      PROVE  Holds'
  BY <1>0, <1>7 DEF Rollback, RemovedInVain
<1>8. ASSUME NEW c \in Updates, MoveFails(c) \/ Fail(c) \/ Expire(c)
      PROVE  Holds'
  <2>1. /\ Rollback(c)
        /\ UNCHANGED <<profileImage, uploads, stored, used>>
        /\ update' = update \/ update' = [update EXCEPT ![c] = NoUpdate]
    BY <1>8 DEF MoveFails, Fail, Expire
  <2>2. QED BY <1>7, <2>1
<1>9. CASE UNCHANGED ivars
  BY <1>9 DEF ivars
<1>10. Holds'
  BY <1>1, <1>2, <1>3, <1>4, <1>5, <1>6, <1>8, <1>9 DEF ImageNext, UpdateProfileImage
<1>11. QED BY <1>0, <1>10

LEMMA LeftBehindStep ==
    ImageTypeOK /\ LeftBehindInv /\ [ImageNext]_ivars
        => LeftBehindInv'
<1> SUFFICES ASSUME ImageTypeOK, LeftBehindInv,
                    [ImageNext]_ivars, ~disturbed'
             PROVE  LeftBehindInv'
  BY DEF LeftBehindInv
<1> USE DEF LeftBehindInv, ImageTypeOK, UpdateCall, Phases
<1>1. ASSUME NEW f \in Files, Upload(f) PROVE LeftBehindInv'
  BY <1>1 DEF Upload
<1>2. ASSUME NEW c \in Updates, NEW f \in Files, ReadUser(c, f) PROVE LeftBehindInv'
  BY <1>2 DEF ReadUser
<1>3. ASSUME NEW c \in Updates, UpdateRow(c) PROVE LeftBehindInv'
  BY <1>3 DEF UpdateRow, Advance
<1>4. ASSUME NEW c \in Updates, RemovePrevious(c) PROVE LeftBehindInv'
  BY <1>4 DEF RemovePrevious, Advance, ToRemove
<1>5. ASSUME NEW c \in Updates, Move(c) PROVE LeftBehindInv'
  BY <1>5 DEF Move, Advance, UploadsAfter
<1>6. ASSUME NEW c \in Updates, Commit(c) PROVE LeftBehindInv'
  BY <1>6 DEF Commit, NoUpdate
<1>7. ASSUME NEW c \in Updates, MoveFails(c) PROVE LeftBehindInv'
  BY <1>7 DEF MoveFails, NoUpdate
<1>8. ASSUME NEW c \in Updates, Fail(c) \/ Expire(c) PROVE LeftBehindInv'
  BY <1>8 DEF Fail, Expire
<1>9. CASE UNCHANGED ivars
  BY <1>9 DEF ivars
<1>10. QED
  BY <1>1, <1>2, <1>3, <1>4, <1>5, <1>6, <1>7, <1>8, <1>9 DEF ImageNext, UpdateProfileImage

\* The row, the files and the calls keep their types, no file is in two places,
\* and a lock is held only by a call that has updated the row.
THEOREM ImagesTypeCorrect == ImageSpec => []ImageTypeOK
<1>1. ImageInv => ImageTypeOK
  BY DEF ImageInv
<1> QED
  BY <1>1, ImagesAtFirst, ImagesStep, PTL DEF ImageSpec

\* However the calls overlap, fail and time out, an image that the row names is
\* missing only while it is being replaced, or when a call that did not commit
\* has removed it.
THEOREM MissingHasCause == ImageSpec => []ImageMissingHasCause
<1>1. ImageInv => ImageMissingHasCause
  BY DEF ImageInv
<1> QED
  BY <1>1, ImagesAtFirst, ImagesStep, PTL DEF ImageSpec

\* Calls that follow each other and do not fail leave no image behind.
THEOREM NothingLeftBehind == ImageSpec => []NoImageLeftBehind
<1>1. ImageInv => ImageTypeOK
  BY DEF ImageInv
<1>2. LeftBehindInv => NoImageLeftBehind
  BY DEF LeftBehindInv, NoImageLeftBehind
<1> QED
  BY <1>1, <1>2, ImagesAtFirst, ImagesStep, LeftBehindStep, PTL DEF ImageSpec

-----------------------------------------------------------------------------
(* Settings.  The inductive invariant of a batch: the elements before       *)
(* currentIndex have been taken once and the others never; a worker that is *)
(* over has failed or has found none left; and as long as no error is       *)
(* answered, an element that was taken is written or being written.         *)

\* The workers of a batch: its elements at most, and BatchSize at most.
WorkersOf(r) == 1..IF Len(r.elements) < BatchSize THEN Len(r.elements) ELSE BatchSize

\* A batch of n elements.
Batch(n, workers) ==
    [elements : Seq(Items), currentIndex : 1..(n + 1), running : [workers -> 0..n],
     failed : SUBSET workers, results : SUBSET (1..n), runs : [1..n -> 0..1],
     answer : {Undefined, "success", "error"}]

TakenOnce(r) ==
    \A i \in 1..Len(r.elements) : r.runs[i] = 1 <=> i < r.currentIndex

\* A worker is at an element, has failed, or has found none left.
WorkersAtIt(r) ==
    \A w \in WorkersOf(r) :
        /\ r.running[w] < r.currentIndex
        /\ r.running[w] = 0 /\ w \notin r.failed => r.currentIndex = Len(r.elements) + 1
        /\ w \in r.failed => r.running[w] = 0

\* Every element taken is written or being written.
NoneForgotten(r) ==
    /\ r.failed = {}
    /\ \A i \in 1..Len(r.elements) : i < r.currentIndex =>
           i \in r.results \/ \E w \in WorkersOf(r) : r.running[w] = i

BatchInv(r) ==
    /\ r \in Batch(Len(r.elements), WorkersOf(r))
    /\ TakenOnce(r)
    /\ WorkersAtIt(r)
    /\ r.answer # "error" => NoneForgotten(r)
    /\ r.answer = "success" => Stopped(r)

\* So it is with the batch of every request.
BatchesInv ==
    /\ request = [c \in Requests |-> request[c]]
    /\ \A c \in Requests : BatchInv(request[c])

\* Each step of a batch keeps its invariant.
LEMMA NoRequestFits == BatchInv(NoRequest)
<1>1. /\ NoRequest.elements = <<>> /\ NoRequest.running = <<>> /\ NoRequest.runs = <<>>
      /\ NoRequest.currentIndex = 1 /\ NoRequest.failed = {} /\ NoRequest.results = {}
      /\ NoRequest.answer = Undefined
  BY DEF NoRequest
<1>2. Len(NoRequest.elements) = 0 /\ WorkersOf(NoRequest) = {}
  BY <1>1, SettingsAssumption DEF WorkersOf
<1>3. NoRequest \in Batch(0, {})
  BY <1>1 DEF Batch, NoRequest
<1>4. QED
  BY <1>1, <1>2, <1>3, SettingsAssumption
  DEF BatchInv, TakenOnce, WorkersAtIt, NoneForgotten, Stopped

LEMMA StartedFits == ASSUME NEW batch \in Batches PROVE BatchInv(Started(batch))
<1> DEFINE r       == Started(batch)
           workers == IF Len(batch) < BatchSize THEN Len(batch) ELSE BatchSize
<1>1. batch \in Seq(Items) /\ Len(batch) \in Nat /\ workers \in 0..Len(batch)
  BY SettingsAssumption
<1>2. r = [elements |-> batch, currentIndex |-> workers + 1,
           running |-> [w \in 1..workers |-> w], failed |-> {}, results |-> {},
           runs |-> [i \in 1..Len(batch) |-> IF i <= workers THEN 1 ELSE 0],
           answer |-> Undefined]
  <2> DEFINE running == [w \in 1..workers |-> w]
             runs == [i \in 1..Len(batch) |-> IF i <= workers THEN 1 ELSE 0]
  <2>1. r = [NoRequest EXCEPT !.elements = batch, !.currentIndex = workers + 1,
                              !.running = running, !.runs = runs]
    BY DEF Started
  <2> HIDE DEF running, runs, r, workers
  <2>2. QED
    BY <2>1 DEF NoRequest, running, runs
<1>3. WorkersOf(r) = 1..workers
  BY <1>2 DEF WorkersOf
<1>4. r \in Batch(Len(batch), 1..workers)
  BY <1>1, <1>2 DEF Batch
<1>5. QED
  <2>1. /\ r.elements = batch /\ r.currentIndex = workers + 1
        /\ r.running = [w \in 1..workers |-> w] /\ r.failed = {} /\ r.results = {}
        /\ r.runs = [i \in 1..Len(batch) |-> IF i <= workers THEN 1 ELSE 0]
        /\ r.answer = Undefined
    BY <1>2
  <2>2. \A w \in 1..workers : r.running[w] = w
    BY <2>1
  <2>3. \A i \in 1..Len(batch) : r.runs[i] = 1 <=> i < r.currentIndex
    BY <1>1, <2>1
  <2> HIDE DEF r
  <2>4. \A i \in 1..Len(batch) : i < r.currentIndex => i \in 1..workers
    BY <1>1, <2>1
  <2>5. r.answer # "success"
    BY <2>1, SettingsAssumption
  <2>6. \A w \in WorkersOf(r) :
            /\ r.running[w] < r.currentIndex
            /\ r.running[w] # 0
    BY <1>1, <1>3, <2>1, <2>2
  <2>7. \A i \in 1..Len(batch) : i < r.currentIndex =>
            \E w \in WorkersOf(r) : r.running[w] = i
    BY <1>3, <2>2, <2>4
  <2>8. r \in Batch(Len(r.elements), WorkersOf(r))
    BY <1>3, <1>4, <2>1
  <2> HIDE DEF workers
  <2>9. TakenOnce(r)
    BY <2>1, <2>3 DEF TakenOnce
  <2>10. WorkersAtIt(r)
    BY <2>1, <2>6 DEF WorkersAtIt
  <2>11. NoneForgotten(r)
    BY <2>1, <2>7 DEF NoneForgotten
  <2>12. QED
    BY <2>5, <2>8, <2>9, <2>10, <2>11 DEF BatchInv, r

LEMMA RunFits ==
    ASSUME NEW r, BatchInv(r), NEW w \in DOMAIN r.running, r.running[w] # 0
    PROVE  BatchInv(Took([r EXCEPT !.results = @ \cup {r.running[w]}], w))
<1> DEFINE n == Len(r.elements)
           s == Took([r EXCEPT !.results = @ \cup {r.running[w]}], w)
<1>1. /\ r \in Batch(n, WorkersOf(r)) /\ n \in Nat /\ w \in WorkersOf(r)
      /\ r.currentIndex \in 1..(n + 1) /\ r.running \in [WorkersOf(r) -> 0..n]
      /\ r.runs \in [1..n -> 0..1] /\ r.results \subseteq 1..n
      /\ n = Len(r.elements)
  BY DEF BatchInv, Batch
<1>2. r.running[w] \in 1..n /\ r.running[w] < r.currentIndex /\ w \notin r.failed
  BY <1>1 DEF BatchInv, WorkersAtIt
<1>3. r.answer # "success"
  BY DEF BatchInv, Stopped
<1>4. CASE r.currentIndex <= n
  <2> DEFINE running == [r.running EXCEPT ![w] = r.currentIndex]
             runs == [r.runs EXCEPT ![r.currentIndex] = @ + 1]
             results == r.results \cup {r.running[w]}
  <2>1. s = [[r EXCEPT !.results = @ \cup {r.running[w]}]
                EXCEPT !.running[w] = r.currentIndex, !.runs[r.currentIndex] = @ + 1,
                       !.currentIndex = @ + 1]
    BY <1>1, <1>4 DEF Took, Batch
  <2>2. s = [elements |-> r.elements, currentIndex |-> r.currentIndex + 1,
             running |-> running, failed |-> r.failed, results |-> results,
             runs |-> runs, answer |-> r.answer]
    BY <1>1, <2>1 DEF Batch
  <2>3. r.runs[r.currentIndex] = 0
    BY <1>1, <1>4 DEF BatchInv, TakenOnce
  <2>4. running \in [WorkersOf(r) -> 0..n] /\ runs \in [1..n -> 0..1] /\ results \subseteq 1..n
    BY <1>1, <1>2, <1>4, <2>3
  <2>5. /\ \A v \in WorkersOf(r) : running[v] = IF v = w THEN r.currentIndex ELSE r.running[v]
        /\ \A i \in 1..n : runs[i] = IF i = r.currentIndex THEN 1 ELSE r.runs[i]
    BY <1>1, <2>3
  <2>6. /\ s.elements = r.elements /\ s.currentIndex = r.currentIndex + 1
        /\ s.running = running /\ s.failed = r.failed /\ s.results = results
        /\ s.runs = runs /\ s.answer = r.answer
    BY <2>2
  <2> HIDE DEF running, runs, results, s, n
  <2>7. s \in Batch(n, WorkersOf(r)) /\ WorkersOf(s) = WorkersOf(r)
    BY <1>1, <1>4, <2>2, <2>4, <2>6 DEF Batch, WorkersOf
  <2>8. TakenOnce(s)
    BY <1>1, <1>4, <2>5, <2>6 DEF TakenOnce, BatchInv
  <2>9. WorkersAtIt(s)
    BY <1>1, <1>2, <1>4, <2>5, <2>6, <2>7 DEF WorkersAtIt, BatchInv
  <2>10. ASSUME s.answer # "error" PROVE NoneForgotten(s)
    <3>1. NoneForgotten(r)
      BY <2>6, <2>10 DEF BatchInv
    <3>2. ASSUME NEW i \in 1..n, i < s.currentIndex
          PROVE  i \in s.results \/ \E v \in WorkersOf(s) : s.running[v] = i
      <4>1. CASE i = r.currentIndex
        BY <1>1, <2>5, <2>6, <2>7, <4>1
      <4>2. CASE i # r.currentIndex
        <5>1. i < r.currentIndex
          BY <1>1, <2>6, <3>2, <4>2
        <5>2. CASE i \in r.results
          BY <2>6, <5>2 DEF results
        <5>3. ASSUME NEW v \in WorkersOf(r), r.running[v] = i
              PROVE  i \in s.results \/ s.running[v] = i
          BY <2>5, <2>6, <5>3 DEF results
        <5>4. QED
          BY <1>1, <2>7, <3>1, <3>2, <5>1, <5>2, <5>3 DEF NoneForgotten
      <4>3. QED
        BY <4>1, <4>2
    <3>3. QED
      BY <1>1, <2>6, <3>1, <3>2 DEF NoneForgotten
  <2>11. QED
    BY <1>1, <1>3, <2>6, <2>7, <2>8, <2>9, <2>10 DEF BatchInv, s
<1>5. CASE r.currentIndex > n
  <2> DEFINE running == [r.running EXCEPT ![w] = 0]
             results == r.results \cup {r.running[w]}
  <2>1. s = [[r EXCEPT !.results = @ \cup {r.running[w]}] EXCEPT !.running[w] = 0]
    BY <1>1, <1>5 DEF Took, Batch
  <2>2. s = [elements |-> r.elements, currentIndex |-> r.currentIndex,
             running |-> running, failed |-> r.failed, results |-> results,
             runs |-> r.runs, answer |-> r.answer]
    BY <1>1, <2>1 DEF Batch
  <2>3. running \in [WorkersOf(r) -> 0..n] /\ results \subseteq 1..n
    BY <1>1, <1>2
  <2>4. \A v \in WorkersOf(r) : running[v] = IF v = w THEN 0 ELSE r.running[v]
    BY <1>1
  <2>5. /\ s.elements = r.elements /\ s.currentIndex = r.currentIndex
        /\ s.running = running /\ s.failed = r.failed /\ s.results = results
        /\ s.runs = r.runs /\ s.answer = r.answer
    BY <2>2
  <2> HIDE DEF running, results, s, n
  <2>6. s \in Batch(n, WorkersOf(r)) /\ WorkersOf(s) = WorkersOf(r)
    BY <1>1, <2>2, <2>3, <2>5 DEF Batch, WorkersOf
  <2>7. TakenOnce(s)
    BY <2>5 DEF TakenOnce, BatchInv
  <2>8. WorkersAtIt(s)
    BY <1>1, <1>2, <1>5, <2>4, <2>5, <2>6 DEF WorkersAtIt, BatchInv
  <2>9. ASSUME s.answer # "error" PROVE NoneForgotten(s)
    <3>1. NoneForgotten(r)
      BY <2>5, <2>9 DEF BatchInv
    <3>2. ASSUME NEW i \in 1..n, i < s.currentIndex
          PROVE  i \in s.results \/ \E v \in WorkersOf(s) : s.running[v] = i
      <4>1. CASE i \in r.results
        BY <2>5, <4>1 DEF results
      <4>2. ASSUME NEW v \in WorkersOf(r), r.running[v] = i
            PROVE  i \in s.results \/ s.running[v] = i
        BY <2>4, <2>5, <4>2 DEF results
      <4>3. QED
        BY <1>1, <2>5, <2>6, <3>1, <3>2, <4>1, <4>2 DEF NoneForgotten
    <3>3. QED
      BY <1>1, <2>5, <3>1, <3>2 DEF NoneForgotten
  <2>10. QED
    BY <1>1, <1>3, <2>5, <2>6, <2>7, <2>8, <2>9 DEF BatchInv, s
<1>6. QED
  BY <1>1, <1>4, <1>5

LEMMA FailFits ==
    ASSUME NEW r, BatchInv(r), NEW w \in DOMAIN r.running, r.running[w] # 0
    PROVE  BatchInv(Rejected(r, w))
<1> DEFINE s       == Rejected(r, w)
           n       == Len(r.elements)
           running == [r.running EXCEPT ![w] = 0]
<1>1. /\ r \in Batch(n, WorkersOf(r)) /\ w \in WorkersOf(r) /\ n \in Nat
      /\ r.running \in [WorkersOf(r) -> 0..n] /\ n = Len(r.elements)
      /\ r.currentIndex \in 1..(n + 1)
  BY DEF BatchInv, Batch
<1>2. r.answer \in {Undefined, "error"}
  BY <1>1 DEF BatchInv, Stopped, Batch
<1>3. s = [elements |-> r.elements, currentIndex |-> r.currentIndex,
           running |-> running, failed |-> r.failed \cup {w}, results |-> r.results,
           runs |-> r.runs, answer |-> "error"]
  <2>1. s = [r EXCEPT !.running[w] = 0, !.failed = @ \cup {w}, !.answer = "error"]
    BY <1>1, <1>2 DEF Rejected, Batch
  <2>2. QED
    BY <1>1, <2>1 DEF Batch
<1>4. \A v \in WorkersOf(r) : running[v] = IF v = w THEN 0 ELSE r.running[v]
  BY <1>1
<1>5. /\ s.elements = r.elements /\ s.currentIndex = r.currentIndex
      /\ s.running = running /\ s.failed = r.failed \cup {w} /\ s.results = r.results
      /\ s.runs = r.runs /\ s.answer = "error"
  BY <1>3
<1>6. running \in [WorkersOf(r) -> 0..n]
  BY <1>1
<1> HIDE DEF running, s, n
<1>7. s \in Batch(n, WorkersOf(r)) /\ WorkersOf(s) = WorkersOf(r)
  BY <1>1, <1>3, <1>6 DEF Batch, WorkersOf
<1>8. TakenOnce(s)
  BY <1>5 DEF TakenOnce, BatchInv
<1>9. WorkersAtIt(s)
  BY <1>1, <1>4, <1>5, <1>7 DEF WorkersAtIt, BatchInv
<1>10. QED
  BY <1>1, <1>5, <1>7, <1>8, <1>9 DEF BatchInv, s

LEMMA SuccessFits ==
    ASSUME NEW r, BatchInv(r), r.answer = Undefined, Stopped(r)
    PROVE  BatchInv([r EXCEPT !.answer = "success"])
<1> DEFINE s == [r EXCEPT !.answer = "success"]
<1>1. r \in Batch(Len(r.elements), WorkersOf(r))
  BY DEF BatchInv
<1>2. /\ s.elements = r.elements /\ s.currentIndex = r.currentIndex
      /\ s.running = r.running /\ s.failed = r.failed /\ s.results = r.results
      /\ s.runs = r.runs /\ s.answer = "success"
  BY <1>1 DEF Batch
<1>3. s \in Batch(Len(r.elements), WorkersOf(r)) /\ WorkersOf(s) = WorkersOf(r)
  BY <1>1, <1>2 DEF Batch, WorkersOf
<1>4. QED
  BY <1>1, <1>2, <1>3, SettingsAssumption
  DEF BatchInv, Stopped, TakenOnce, WorkersAtIt, NoneForgotten

\* One request changes, the others stay.
LEMMA OneRequestStep ==
    ASSUME BatchesInv, NEW c \in Requests, NEW new, BatchInv(new),
           request' = [request EXCEPT ![c] = new]
    PROVE  BatchesInv'
<1>1. \A d \in Requests : request'[d] = IF d = c THEN new ELSE request[d]
  BY DEF BatchesInv
<1>2. request' = [d \in Requests |-> request'[d]]
  BY DEF BatchesInv
<1>3. \A d \in Requests : BatchInv(request'[d])
  BY <1>1 DEF BatchesInv
<1>4. QED
  BY <1>2, <1>3 DEF BatchesInv

LEMMA BatchesAtFirst == SettingsInit => BatchesInv /\ SettingsTypeOK
<1> SUFFICES ASSUME SettingsInit PROVE BatchesInv /\ SettingsTypeOK
  OBVIOUS
<1>1. BatchesInv
  BY NoRequestFits DEF SettingsInit, BatchesInv
<1>2. SettingsTypeOK
  BY DEF SettingsInit, SettingsTypeOK
<1>3. QED
  BY <1>1, <1>2

LEMMA BatchesStep == BatchesInv /\ [SettingsNext]_svars => BatchesInv'
<1> SUFFICES ASSUME BatchesInv, [SettingsNext]_svars PROVE BatchesInv'
  OBVIOUS
<1>1. ASSUME NEW c \in Requests, NEW batch \in Batches, UpdateSettings(c, batch)
      PROVE  BatchesInv'
  BY <1>1, StartedFits, OneRequestStep DEF UpdateSettings
<1>2. ASSUME NEW c \in Requests, NEW w \in DOMAIN request[c].running, RunElement(c, w)
      PROVE  BatchesInv'
  <2>1. BatchInv(request[c]) /\ request[c].running[w] # 0
    BY <1>2 DEF BatchesInv, RunElement
  <2>2. BatchInv(Took([request[c] EXCEPT !.results = @ \cup {request[c].running[w]}], w))
    BY <2>1, RunFits
  <2>3. QED
    BY <1>2, <2>2, OneRequestStep DEF RunElement
<1>3. ASSUME NEW c \in Requests, NEW w \in DOMAIN request[c].running, FailElement(c, w)
      PROVE  BatchesInv'
  <2>1. BatchInv(request[c]) /\ request[c].running[w] # 0
    BY <1>3 DEF BatchesInv, FailElement
  <2>2. BatchInv(Rejected(request[c], w))
    BY <2>1, FailFits
  <2>3. QED
    BY <1>3, <2>2, OneRequestStep DEF FailElement
<1>4. ASSUME NEW c \in Requests, Respond(c) PROVE BatchesInv'
  <2>1. BatchInv([request[c] EXCEPT !.answer = "success"])
    BY <1>4, SuccessFits DEF BatchesInv, Respond
  <2>2. request' = [request EXCEPT ![c] = [request[c] EXCEPT !.answer = "success"]]
    BY <1>4 DEF Respond
  <2>3. QED
    BY <2>1, <2>2, OneRequestStep
<1>5. ASSUME NEW c \in Requests, Forget(c) PROVE BatchesInv'
  BY <1>5, NoRequestFits, OneRequestStep DEF Forget
<1>6. ASSUME NEW u \in Users, NEW item \in Items, UpdateUserSetting(u, item)
      PROVE  BatchesInv'
  BY <1>6 DEF UpdateUserSetting, BatchesInv
<1>7. CASE UNCHANGED svars
  BY <1>7 DEF svars, BatchesInv
<1>8. QED
  BY <1>1, <1>2, <1>3, <1>4, <1>5, <1>6, <1>7 DEF SettingsNext, Work

\* What updateSystemSetting stores is a selection of the setting.
LEMMA StoredIsSelection ==
    ASSUME NEW s \in DOMAIN setting, NEW item \in Items,
           NEW selection \in SystemSelection(setting[s], item)
    PROVE  selection \in Selections(setting[s])
<1> DEFINE row == setting[s]
<1>1. row \in Setting /\ item \in UpdateSystemSettingDto
  BY SettingsAssumption
<1>2. /\ row.type \in {"Binary", "MultiSelect", "SingleSelect"}
      /\ row.isDefinedOptions \in BOOLEAN
  BY <1>1 DEF Setting, SettingType
<1>3. CASE row.type = "Binary"
  BY <1>1, <1>3 DEF SystemSelection, Selections, UpdateSystemSettingDto
<1>4. CASE row.type = "SingleSelect" /\ ~row.isDefinedOptions
  BY <1>1, <1>4 DEF SystemSelection, Selections, UpdateSystemSettingDto
<1>5. CASE row.type = "SingleSelect" /\ row.isDefinedOptions
  BY <1>1, <1>5 DEF SystemSelection, Selections, HasOption
<1>6. CASE row.type = "MultiSelect"
  <2>1. /\ row.isDefinedOptions /\ item.selections \in Seq(Strings)
        /\ selection = NumbersOf(item.selections)
        /\ \A i \in DOMAIN item.selections : HasOption(row, item.selections[i])
    BY <1>1, <1>6 DEF SystemSelection, UpdateSystemSettingDto
  <2>2. selection \in Seq(row.options)
    BY <2>1 DEF NumbersOf, HasOption
  <2>3. QED
    BY <1>6, <2>2 DEF Selections
<1>7. QED
  BY <1>2, <1>3, <1>4, <1>5, <1>6

LEMMA SettingsTypesStep ==
    BatchesInv /\ SettingsTypeOK /\ [SettingsNext]_svars => SettingsTypeOK'
<1> SUFFICES ASSUME BatchesInv, SettingsTypeOK, [SettingsNext]_svars PROVE SettingsTypeOK'
  OBVIOUS
<1>1. ASSUME NEW c \in Requests, NEW w \in DOMAIN request[c].running, RunElement(c, w)
      PROVE  SettingsTypeOK'
  <2>1. BatchInv(request[c]) /\ request[c].running[w] # 0
    BY <1>1 DEF BatchesInv, RunElement
  <2>2. ElementOf(c, w) \in Items
    BY <2>1 DEF BatchInv, Batch, ElementOf
  <2> DEFINE item == ElementOf(c, w)
  <2>3. PICK selection \in SystemSelection(setting[item.settingId], item) :
            systemSetting' = Upsert(systemSetting, item.settingId, selection)
    BY <1>1 DEF RunElement
  <2>4. selection \in Selections(setting[item.settingId]) /\ item.settingId \in DOMAIN setting
    BY <1>1, <2>2, StoredIsSelection DEF RunElement
  <2>5. QED
    BY <1>1, <2>3, <2>4 DEF RunElement, Upsert, SettingsTypeOK
<1>2. ASSUME NEW u \in Users, NEW item \in Items, UpdateUserSetting(u, item)
      PROVE  SettingsTypeOK'
  <2>1. PICK selection \in UserSelection(setting[item.settingId], item) :
            userSetting' = Upsert(userSetting, <<u, item.settingId>>, selection)
    BY <1>2 DEF UpdateUserSetting
  <2>2. selection \in Selections(setting[item.settingId]) /\ item.settingId \in DOMAIN setting
    BY <1>2, StoredIsSelection DEF UpdateUserSetting, UserSelection
  <2>3. QED
    BY <1>2, <2>1, <2>2 DEF UpdateUserSetting, Upsert, SettingsTypeOK
<1>3. CASE UNCHANGED <<systemSetting, userSetting>>
  BY <1>3 DEF SettingsTypeOK
<1>4. QED
  BY <1>1, <1>2, <1>3
  DEF SettingsNext, Work, UpdateSettings, FailElement, Respond, Forget, svars

\* Whatever a request names, a setting is only ever given a selection of its
\* type, out of its options.
THEOREM SettingsTypeCorrect == SettingsSpec => []SettingsTypeOK
  BY BatchesAtFirst, BatchesStep, SettingsTypesStep, PTL DEF SettingsSpec

\* A selection whose ids are all found is shown as it is.
LEMMA AllFound ==
    ASSUME NEW options, NEW selection \in Seq(options)
    PROVE  MapSelectionsToOption(selection, options) = selection
<1> DEFINE n == Len(selection)
           found == {i \in DOMAIN selection : selection[i] \in options}
           place(k) == CHOOSE i \in found : Cardinality(found \cap 1..i) = k
<1>1. n \in Nat /\ DOMAIN selection = 1..n /\ \A i \in 1..n : selection[i] \in options
  OBVIOUS
<1>2. found = 1..n
  BY <1>1
<1>3. \A k \in 0..n : Cardinality(1..k) = k
  <2> SUFFICES ASSUME NEW k \in 0..n PROVE Cardinality(1..k) = k
    OBVIOUS
  <2>1. k \in Int /\ 1 \in Int /\ k - 1 + 1 = k /\ (1 > k => k = 0)
    BY <1>1
  <2>2. Cardinality(1..k) = IF 1 > k THEN 0 ELSE k - 1 + 1
    BY <2>1, FS_Interval
  <2>3. QED
    BY <2>1, <2>2
<1>4. ASSUME NEW k \in 1..n PROVE place(k) = k
  <2>1. \A i \in 1..n : found \cap 1..i = 1..i
    BY <1>1, <1>2
  <2> HIDE DEF n, found
  <2>2. ASSUME NEW i \in 1..n PROVE Cardinality(found \cap 1..i) = i
    <3>1. i \in 0..n
      BY <1>1
    <3>2. found \cap 1..i = 1..i /\ Cardinality(1..i) = i
      BY <1>3, <2>1, <3>1
    <3>3. QED
      BY <3>2
  <2>3. \A i \in found : Cardinality(found \cap 1..i) = k <=> i = k
    BY <1>2, <2>2
  <2>4. k \in found
    BY <1>2
  <2>5. QED
    BY <2>3, <2>4
<1>5. Cardinality(found) = n
  <2> HIDE DEF n, found
  <2>1. QED
    BY <1>1, <1>2, <1>3
<1>6. MapSelectionsToOption(selection, options) = [k \in 1..Cardinality(found) |-> selection[place(k)]]
  BY DEF MapSelectionsToOption
<1>7. selection = [k \in 1..n |-> selection[k]]
  BY <1>1
<1> HIDE DEF n, found, place
<1>8. [k \in 1..Cardinality(found) |-> selection[place(k)]] = [k \in 1..n |-> selection[k]]
  BY <1>4, <1>5
<1>9. QED
  BY <1>6, <1>7, <1>8

\* So is every selection of a setting's type, out of its options.
LEMMA SelectionIsShown ==
    ASSUME NEW s \in DOMAIN setting, NEW selection \in Selections(setting[s])
    PROVE  MapSetting(setting[s], selection) = selection
<1> DEFINE row == setting[s]
<1>1. row.type \in {"Binary", "MultiSelect", "SingleSelect"} /\ row.isDefinedOptions \in BOOLEAN
  BY SettingsAssumption DEF Setting, SettingType
<1> HIDE DEF row
<1>2. CASE row.type = "SingleSelect" /\ row.isDefinedOptions
  BY <1>2 DEF MapSetting, Selections, row
<1>3. CASE row.type = "MultiSelect" /\ row.isDefinedOptions
  <2>1. selection \in Seq(row.options)
    BY <1>3 DEF Selections, row
  <2>2. MapSelectionsToOption(selection, row.options) = selection
    BY <2>1, AllFound
  <2>3. QED
    BY <1>3, <2>2 DEF MapSetting, row
<1>4. CASE ~row.isDefinedOptions \/ row.type = "Binary"
  BY <1>1, <1>4 DEF MapSetting, row
<1>5. QED
  BY <1>1, <1>2, <1>3, <1>4

\* What was accepted is shown again, whatever came in a request and when:
\* reading finds the options that checking found.
THEOREM SelectionsAreShown == SettingsSpec => []SelectionsShown
<1>1. ASSUME SettingsTypeOK PROVE SelectionsShown
  <2>1. ASSUME NEW s \in DOMAIN systemSetting \cap DOMAIN SystemSettingsShown
        PROVE  SystemSettingsShown[s] = systemSetting[s]
    <3>1. SystemSettingsShown[s] = MapSetting(setting[s], systemSetting[s])
      BY <2>1 DEF SystemSettingsShown
    <3>2. s \in DOMAIN setting /\ systemSetting[s] \in Selections(setting[s])
      BY <1>1, <2>1 DEF SettingsTypeOK
    <3>3. QED
      BY <3>1, <3>2, SelectionIsShown
  <2>2. ASSUME NEW k \in DOMAIN userSetting, k[2] \in DOMAIN UserSettingsShown(k[1])
        PROVE  UserSettingsShown(k[1])[k[2]] = userSetting[k]
    <3>1. k \in Users \X DOMAIN setting /\ userSetting[k] \in Selections(setting[k[2]])
      BY <1>1, <2>2 DEF SettingsTypeOK
    <3>2. k = <<k[1], k[2]>> /\ k[2] \in DOMAIN setting
      BY <3>1
    <3>3. UserSettingsShown(k[1])[k[2]] = MapSetting(setting[k[2]], userSetting[k])
      BY <2>2, <3>2 DEF UserSettingsShown
    <3>4. QED
      BY <3>1, <3>2, <3>3, SelectionIsShown
  <2>3. QED
    BY <2>1, <2>2 DEF SelectionsShown
<1>2. QED
  BY <1>1, SettingsTypeCorrect, PTL

\* For any number of workers and any batch: no element runs twice, a success
\* means that all were written, and one is left out only if every worker failed.
THEOREM BatchesAreRun == SettingsSpec => []BatchIsRun
<1>1. ASSUME BatchesInv, NEW c \in Requests
      PROVE  LET r == request[c]
             IN  /\ \A i \in DOMAIN r.runs : r.runs[i] <= 1
                 /\ r.answer = "success" => r.results = DOMAIN r.elements /\ Stopped(r)
                 /\ Stopped(r) /\ (\E i \in DOMAIN r.runs : r.runs[i] = 0)
                        => r.failed = DOMAIN r.running
  <2> DEFINE r == request[c]
             n == Len(r.elements)
  <2>1. /\ BatchInv(r) /\ n \in Nat /\ BatchSize \in Nat \ {0}
        /\ DOMAIN r.running = WorkersOf(r) /\ DOMAIN r.runs = 1..n /\ DOMAIN r.elements = 1..n
        /\ r.runs \in [1..n -> 0..1] /\ r.results \subseteq 1..n
        /\ r.failed \subseteq WorkersOf(r) /\ r.currentIndex \in 1..(n + 1)
    BY <1>1, SettingsAssumption DEF BatchesInv, BatchInv, Batch
  <2> HIDE DEF r
  <2>2. \A i \in DOMAIN r.runs : r.runs[i] <= 1
    BY <2>1
  <2>3. ASSUME r.answer = "success" PROVE r.results = DOMAIN r.elements /\ Stopped(r)
    <3>1. Stopped(r) /\ NoneForgotten(r) /\ WorkersAtIt(r)
      BY <2>1, <2>3 DEF BatchInv
    <3>2. ASSUME NEW i \in 1..n PROVE i \in r.results
      <4>1. 1 \in WorkersOf(r)
        BY <2>1, <3>2 DEF WorkersOf
      <4>2. r.currentIndex = n + 1
        BY <2>1, <3>1, <4>1 DEF Stopped, NoneForgotten, WorkersAtIt
      <4>3. QED
        BY <2>1, <3>1, <3>2, <4>2 DEF Stopped, NoneForgotten
    <3>3. QED
      BY <2>1, <3>1, <3>2
  <2>4. ASSUME Stopped(r), NEW i \in DOMAIN r.runs, r.runs[i] = 0
        PROVE  r.failed = DOMAIN r.running
    <3>1. r.currentIndex # n + 1
      BY <2>1, <2>4 DEF BatchInv, TakenOnce
    <3>2. QED
      BY <2>1, <2>4, <3>1 DEF BatchInv, WorkersAtIt, Stopped
  <2>5. QED
    BY <2>2, <2>3, <2>4 DEF r
<1>2. BatchesInv => BatchIsRun
  BY <1>1 DEF BatchIsRun
<1>3. QED
  BY <1>2, BatchesAtFirst, BatchesStep, PTL DEF SettingsSpec
=============================================================================
