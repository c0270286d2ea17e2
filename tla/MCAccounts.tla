----------------------------- MODULE MCAccounts -----------------------------
(* Two calls at a time on two rows.                                         *)
EXTENDS Accounts

CONSTANTS e1, e2, u1, m1, p1

Form(email, username, mobile, password) ==
    [NoData EXCEPT !.email = email, !.username = username, !.mobile = mobile,
                   !.password = password]

\* Two registrations with one mobile, and edits of one and of two names.
MCForms ==
    {Form(e1, Null, m1, p1), Form(e2, Null, m1, p1), Form(e2, Null, Null, Null),
     Form(Null, u1, m1, Null)}
=============================================================================
