\* Two calls at a time, two rows, two emails.
SPECIFICATION LiveSpec
CONSTANTS
    e1 = e1
    e2 = e2
    u1 = u1
    m1 = m1
    p1 = p1
    Forms <- MCForms
    Emails = {e1, e2}
    Usernames = {u1}
    Mobiles = {m1}
    Googles = {g1}
    Passwords = {p1, p2}
    Null = Null
    Calls = {c1, c2}
    MaxUsers = 2
INVARIANTS
    ChecksSuffice
PROPERTIES
    OneCreationWins
