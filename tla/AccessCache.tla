---------------------------- MODULE AccessCache -----------------------------
(***************************************************************************)
(* Which requests of one account the access guard lets in:                 *)
(* access.guard.ts, and setStatus and setRole of users.service.ts and      *)
(* admin.service.ts, which delete what the guard has cached.               *)
(*                                                                         *)
(* The cache is in the memory of each worker process of the cluster.  A    *)
(* request first looks into its worker's cache; if that says no, or        *)
(* nothing, it reads the account's status and then caches the answer for   *)
(* five minutes.  A change of the status deletes the key, in the cache of  *)
(* the worker that runs it, and then writes the row.                       *)
(*                                                                         *)
(* Time is counted in ages: of an answer, of a request, and since the      *)
(* account was last Active.                                                *)
(***************************************************************************)
EXTENDS Integers

CONSTANTS
    Workers,       \* the processes of the cluster
    Requests,      \* requests under way at one time
    Changes,       \* calls of setStatus and setRole under way at one time
    TTL,           \* cacheTtl of validate
    PATIENCE,      \* assumed: the time after which every request has ended
    None           \* no worker, no answer

ASSUME AccessCacheAssumption ==
    /\ TTL \in Nat
    /\ PATIENCE \in Nat
    /\ None \notin Nat
    /\ None \notin Workers

VARIABLES
    status,        \* the account's row
    role,
    sinceActive,   \* history: time since the status was last Active
    cached,        \* per worker and key, the age of a cached yes
    request,       \* what each request of the account has got to
    change,        \* what each setStatus or setRole has got to
    fresh          \* history: workers whose answers follow the last change

avars == <<status, role, sinceActive, cached, request, change, fresh>>

-----------------------------------------------------------------------------
Statuses == {"Active", "Suspended"}

\* Of tokens, and of keys.  The keys of an administrator behave as those of
\* type user do, on the administrator's row.
UserTypes == {"user", "manager"}

UserRoles == {"User", "Manager"}

\* A request is idle, is about to read the row, or is about to cache what the
\* row told it.
Request == [phase : {"idle", "missed", "yes", "no"}, worker : Workers \cup {None},
            type : UserTypes, age : Nat]

\* "quiet": since the key was deleted, no request has been under way at the
\* worker.
Change == [phase : {"idle", "status", "role"}, worker : Workers \cup {None},
           value : Statuses \cup UserRoles, quiet : BOOLEAN]

NoRequest == [phase |-> "idle", worker |-> None, type |-> "user", age |-> 0]

NoChange == [phase |-> "idle", worker |-> None, value |-> "Active", quiet |-> FALSE]

\* Types of the row, the caches and the calls.
TypeOK ==
    /\ status \in Statuses
    /\ role \in UserRoles
    /\ sinceActive \in Nat
    /\ cached \in [Workers -> [UserTypes -> 0 .. TTL \cup {None}]]
    /\ request \in [Requests -> Request]
    /\ change \in [Changes -> Change]
    /\ fresh \subseteq Workers

Init ==
    /\ status = "Active"
    /\ role = "User"
    /\ sinceActive = 0
    /\ cached = [w \in Workers |-> [t \in UserTypes |-> None]]
    /\ request = [r \in Requests |-> NoRequest]
    /\ change = [c \in Changes |-> NoChange]
    /\ fresh = {}

-----------------------------------------------------------------------------
(* Slips that are easy to make in the definitions below.                   *)

\* KeyOfStatus that follows the role, as the key of setRole does.
KeyOfRole == IF role = "Manager" THEN "manager" ELSE "user"

\* Aged that starts an answer's time again whenever time passes.
AgedForEver(age) == age

\* FirstAge as the time the answer has left.
TimeLeft == TTL + 1

-----------------------------------------------------------------------------
(* Requests.                                                               *)

\* A request that finds a yes is let in and leaves everything as it is.  A
\* cached no is falsy, and read again as if it were not there.
BeginRequest(r, w, t) ==
    /\ request[r].phase = "idle"
    /\ cached[w][t] = None
    /\ request' = [request EXCEPT ![r] =
                      [phase |-> "missed", worker |-> w, type |-> t, age |-> 0]]
    /\ change' = [c \in Changes |->
                     [change[c] EXCEPT !.quiet = @ /\ change[c].worker # w]]
    /\ UNCHANGED <<status, role, sinceActive, cached, fresh>>

\* Only the types user and admin are looked up.
Answer(type) == IF type = "user" /\ status # "Active" THEN "no" ELSE "yes"

ReadStatus(r) ==
    /\ request[r].phase = "missed"
    /\ request' = [request EXCEPT ![r].phase = Answer(request[r].type)]
    /\ UNCHANGED <<status, role, sinceActive, cached, change, fresh>>

FirstAge == 0

\* set, and then the request is let in or refused.  A cached no replaces a yes.
CacheAnswer(r) ==
    /\ request[r].phase \in {"yes", "no"}
    /\ cached' = [cached EXCEPT ![request[r].worker][request[r].type] =
                     IF request[r].phase = "yes" THEN FirstAge ELSE None]
    /\ request' = [request EXCEPT ![r] = NoRequest]
    /\ UNCHANGED <<status, role, sinceActive, change, fresh>>

-----------------------------------------------------------------------------
(* Changes.                                                                *)

UnderWayAt(w) == \E r \in Requests : request[r].worker = w

Delete(c, kind, w, key, value) ==
    /\ change[c].phase = "idle"
    /\ cached' = [cached EXCEPT ![w][key] = None]
    /\ change' = [change EXCEPT ![c] =
                     [phase |-> kind, worker |-> w, value |-> value,
                      quiet |-> ~UnderWayAt(w)]]
    /\ UNCHANGED <<status, role, sinceActive, request, fresh>>

KeyOfStatus == "user"

DeleteForStatus(c, w, s) == Delete(c, "status", w, KeyOfStatus, s)

WriteStatus(c) ==
    /\ change[c].phase = "status"
    /\ status' = change[c].value
    /\ sinceActive' = IF change[c].value = "Active" THEN 0 ELSE sinceActive
    /\ fresh' = IF change[c].quiet THEN {change[c].worker} ELSE {}
    /\ change' = [change EXCEPT ![c] = NoChange]
    /\ UNCHANGED <<role, cached, request>>

\* The key of the type that the new role gives to tokens.
DeleteForRole(c, w, r) ==
    Delete(c, "role", w, IF r = "Manager" THEN "manager" ELSE "user", r)

WriteRole(c) ==
    /\ change[c].phase = "role"
    /\ role' = change[c].value
    /\ change' = [change EXCEPT ![c] = NoChange]
    /\ UNCHANGED <<status, sinceActive, cached, request, fresh>>

-----------------------------------------------------------------------------
(* The cluster and the clock.                                              *)

\* A worker that dies is forked again: its memory and its calls are gone.
Respawn(w) ==
    /\ cached' = [cached EXCEPT ![w] = [t \in UserTypes |-> None]]
    /\ request' = [r \in Requests |->
                      IF request[r].worker = w THEN NoRequest ELSE request[r]]
    /\ change' = [c \in Changes |->
                     IF change[c].worker = w THEN NoChange ELSE change[c]]
    /\ UNCHANGED <<status, role, sinceActive, fresh>>

Aged(age) == IF age = None \/ age = TTL THEN None ELSE age + 1

\* sinceActive is counted up to the first value that is too much.
Tick ==
    /\ \A r \in Requests : request[r].phase # "idle" => request[r].age < PATIENCE
    /\ sinceActive' = IF status = "Active" THEN 0
                      ELSE IF sinceActive <= TTL + PATIENCE THEN sinceActive + 1
                      ELSE sinceActive
    /\ cached' = [w \in Workers |-> [t \in UserTypes |-> Aged(cached[w][t])]]
    /\ request' = [r \in Requests |->
                      IF request[r].phase = "idle" THEN request[r]
                      ELSE [request[r] EXCEPT !.age = @ + 1]]
    /\ UNCHANGED <<status, role, change, fresh>>

Serve(r) ==
    \/ \E w \in Workers, t \in UserTypes : BeginRequest(r, w, t)
    \/ ReadStatus(r) \/ CacheAnswer(r)

Administer(c) ==
    \/ \E w \in Workers :
          \/ \E s \in Statuses : DeleteForStatus(c, w, s)
          \/ \E r \in UserRoles : DeleteForRole(c, w, r)
    \/ WriteStatus(c) \/ WriteRole(c)

Next ==
    \/ \E r \in Requests : Serve(r)
    \/ \E c \in Changes : Administer(c)
    \/ \E w \in Workers : Respawn(w)
    \/ Tick

Spec == Init /\ [][Next]_avars

-----------------------------------------------------------------------------
(* What must hold.                                                         *)

\* Whoever the guard lets in on a user's token was Active not longer ago than
\* an answer lives and a request takes: on every worker, whichever of them ran
\* the change, and however requests and changes overlap or workers die.
YesIsRecent ==
    /\ \A w \in Workers : cached[w]["user"] # None => sinceActive <= TTL + PATIENCE
    /\ \A r \in Requests :
          request[r].phase = "yes" /\ request[r].type = "user" => sinceActive <= PATIENCE

\* On the worker that ran the suspension, if no request of the account was
\* under way there meanwhile, the guard lets nobody in any more from that
\* moment: deleting the key before the row is written is then enough.
SuspendedAtOnce ==
    status = "Suspended" =>
        \A w \in fresh :
            /\ cached[w]["user"] = None
            /\ \A r \in Requests :
                  request[r].worker = w /\ request[r].type = "user" =>
                      request[r].phase # "yes"
=============================================================================
