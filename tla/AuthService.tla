----------------------------- MODULE AuthService -----------------------------
(***************************************************************************)
(* The auth microservice: POST /auth/register, which looks for the login   *)
(* and then inserts the user, and POST /auth/login, which reads the user   *)
(* and answers with a token.                                               *)
(*                                                                         *)
(* A user is named after the registration that inserted it, whose          *)
(* Guid.NewGuid() is its id.  A password stands for its salted hash:       *)
(* Verify accepts a hash for the password it was made from and no other.   *)
(***************************************************************************)
EXTENDS Naturals, FiniteSets

CONSTANTS
    Registration,   \* POST /auth/register requests
    Login,
    Password,
    MaxFaults       \* bound: failures of PostgreSQL, the client or the process

ASSUME FaultsAssumption == MaxFaults \in Nat

VARIABLES
    form,      \* what each registration asks for
    pc,        \* where each registration is, or its answer
    users,     \* the users table: the registrations that inserted a row
    faults

vars == <<form, pc, users, faults>>

UserRole == {"User", "Admin"}

Pc == {"idle", "saving", "accepted", "exists", "failed"}

-----------------------------------------------------------------------------
\* The rows of a login.
ByLogin(l) == {u \in users : form[u].login = l}

\* JwtProvider.GenerateToken: the claims that the other services read.
Token(u) == [sub |-> u, role |-> form[u].role]

Unauthorized == [sub |-> "none", role |-> "none"]

\* PasswordHasher.Verify.
Verify(password, u) == form[u].password = password

\* The answers to a login: FirstOrDefault may return any row of the login.
LoginAnswers(l, password) ==
    IF ByLogin(l) = {}
    THEN {Unauthorized}
    ELSE {IF Verify(password, u) THEN Token(u) ELSE Unauthorized : u \in ByLogin(l)}

-----------------------------------------------------------------------------
\* Mutant: the check looks for any user.
RegisterRefuseAny(r) ==
    /\ pc[r] = "idle"
    /\ users # {}
    /\ pc' = [pc EXCEPT ![r] = "exists"]
    /\ UNCHANGED <<form, users, faults>>

\* UserAlreadyExistsException, answered 409.
RegisterRefuse(r) ==
    /\ pc[r] = "idle"
    /\ ByLogin(form[r].login) # {}
    /\ pc' = [pc EXCEPT ![r] = "exists"]
    /\ UNCHANGED <<form, users, faults>>

\* No user has the login: go on to add the user and save it.
RegisterCheck(r) ==
    /\ pc[r] = "idle"
    /\ ByLogin(form[r].login) = {}
    /\ pc' = [pc EXCEPT ![r] = "saving"]
    /\ UNCHANGED <<form, users, faults>>

\* Mutant: the index on Login is not unique.
InsertDuplicate(r) == users' = users \cup {r}

\* The INSERT, which the unique index on Login lets through.
Insert(r) ==
    /\ ByLogin(form[r].login) = {}
    /\ users' = users \cup {r}

RegisterSave(r) ==
    /\ pc[r] = "saving"
    /\ Insert(r)
    /\ pc' = [pc EXCEPT ![r] = "accepted"]
    /\ UNCHANGED <<form, faults>>

\* The login was taken since the check: the unique index refuses the row, and
\* the middleware answers the DbUpdateException with 500.
RegisterConflict(r) ==
    /\ pc[r] = "saving"
    /\ ByLogin(form[r].login) # {}
    /\ pc' = [pc EXCEPT ![r] = "failed"]
    /\ UNCHANGED <<form, users, faults>>

\* Mutant: the exception gets past the middleware.
RegisterFailUnanswered(r) ==
    /\ faults < MaxFaults
    /\ faults' = faults + 1
    /\ pc[r] \in {"idle", "saving"}
    /\ pc' = [pc EXCEPT ![r] = "unanswered"]
    /\ UNCHANGED <<form, users>>

\* A query throws, or the process ends: the INSERT may have been committed.
RegisterFail(r) ==
    /\ faults < MaxFaults
    /\ faults' = faults + 1
    /\ \/ pc[r] \in {"idle", "saving"} /\ UNCHANGED users
       \/ pc[r] = "saving" /\ Insert(r)
    /\ pc' = [pc EXCEPT ![r] = "failed"]
    /\ UNCHANGED form

-----------------------------------------------------------------------------
Init ==
    /\ form \in [Registration -> [login : Login, password : Password, role : UserRole]]
    /\ pc = [r \in Registration |-> "idle"]
    /\ users = {}
    /\ faults = 0

Register(r) ==
    \/ RegisterRefuse(r)
    \/ RegisterCheck(r)
    \/ RegisterSave(r)
    \/ RegisterConflict(r)
    \/ RegisterFail(r)

Next == \E r \in Registration : Register(r)

Spec == Init /\ [][Next]_vars

-----------------------------------------------------------------------------
(***************************************************************************)
(* Safety                                                                  *)
(***************************************************************************)

\* Every variable has a value of its kind.
TypeOK ==
    /\ form \in [Registration -> [login : Login, password : Password, role : UserRole]]
    /\ pc \in [Registration -> Pc]
    /\ users \subseteq Registration
    /\ faults \in 0 .. MaxFaults

\* However registrations of the same login interleave, one that was answered
\* with success can log in with its password from then on, as itself and in the
\* role it asked for: no other registration replaces or shadows its row.
AcceptedCanLogin ==
    \A r \in Registration :
        pc[r] = "accepted" => LoginAnswers(form[r].login, form[r].password) = {Token(r)}

\* A registration that is not accepted leaves the login to somebody: it was
\* refused for a row that exists, or something failed.
RefusalJustified ==
    \A r \in Registration :
        pc[r] \in {"exists", "failed"} => ByLogin(form[r].login) # {} \/ faults > 0

=============================================================================
