----------------------------- MODULE Registration -----------------------------
(***************************************************************************)
(* POST /register of the authentication service: HandleRegister of         *)
(* internal/handler/token.go over the users table.                         *)
(*                                                                         *)
(* The handler looks the email up and inserts in two statements without a  *)
(* transaction, so requests of several goroutines or instances for one     *)
(* email interleave; the UNIQUE constraint on users.email has the last     *)
(* word.  Requests that fail the checks of the form are answered 400 at    *)
(* once and leave no trace: only the forms that pass are modelled, with an *)
(* email already trimmed and a password standing for its bcrypt hash.      *)
(***************************************************************************)
EXTENDS Integers

CONSTANTS
  Slots,        \* goroutines serving requests
  Emails,       \* addresses validEmail accepts
  Passwords,    \* passwords in use
  Bytes,        \* Bytes[p]: length of password p
  NoID,         \* the empty primary key
  NoRow,
  NoForm,       \* no request
  IDCallbacks,  \* models.RegisterIDCallbacks was called on the connection
  Faults        \* statements may fail, processes may die

ASSUME RegistrationAssumption ==
  /\ NoID \notin Emails
  /\ Bytes \in [Passwords -> Nat]
  /\ IDCallbacks \in BOOLEAN
  /\ Faults \in BOOLEAN

VARIABLES
  users,     \* users[e]: the row with email e, or NoRow
  pc,        \* pc[s]: the statement slot s executes next
  form,      \* form[s]: the request slot s serves
  answered   \* history: the responses sent, and which of them a fault caused

vars == <<users, pc, form, answered>>

\* The key of a row is unique when the callback draws it: e stands for it.
User == [id : Emails \cup {NoID}, password : Passwords]
Form == [email : Emails, password : Passwords]

ASSUME NothingAssumption == NoRow \notin User /\ NoForm \notin Form

Registered(e) == users[e] # NoRow

\* len(req.Password) < 8 and > 72 are turned away, bcrypt reads 72 bytes.
LengthOK(p) == Bytes[p] >= 8 /\ Bytes[p] <= 72

\* The handler returns; what it held is gone.
Return(s) ==
  /\ pc' = [pc EXCEPT ![s] = "idle"]
  /\ form' = [form EXCEPT ![s] = NoForm]

Answer(s, status, faulty) ==
  /\ Return(s)
  /\ answered' = answered \cup
       {[status |-> status, form |-> form[s], faulty |-> faulty]}

Goto(s, l) == pc' = [pc EXCEPT ![s] = l] /\ UNCHANGED <<form, answered>>

Init ==
  /\ users = [e \in Emails |-> NoRow]
  /\ pc = [s \in Slots |-> "idle"]
  /\ form = [s \in Slots |-> NoForm]
  /\ answered = {}

\* The checks of the form up to the first statement.
Submit(s, f) ==
  /\ pc[s] = "idle" /\ LengthOK(f.password)
  /\ pc' = [pc EXCEPT ![s] = "lookup"]
  /\ form' = [form EXCEPT ![s] = f]
  /\ UNCHANGED <<users, answered>>

\* Mutant: an error of GetByEmail is taken for a registered email.
LookupAnyError(s) ==
  /\ pc[s] = "lookup"
  /\ \/ ~Registered(form[s].email) /\ Goto(s, "create")
     \/ Registered(form[s].email) /\ Answer(s, 409, FALSE)
     \/ Faults /\ Answer(s, 409, TRUE)
  /\ UNCHANGED users

\* Mutant: the conflict is written without its status.
LookupForgetsStatus(s) ==
  /\ pc[s] = "lookup"
  /\ \/ ~Registered(form[s].email) /\ Goto(s, "create")
     \/ Registered(form[s].email) /\ Answer(s, 200, FALSE)
  /\ UNCHANGED users

\* GetByEmail: a row is a conflict, an error other than ErrNotFound a 500.
Lookup(s) ==
  /\ pc[s] = "lookup"
  /\ \/ ~Registered(form[s].email) /\ Goto(s, "create")
     \/ Registered(form[s].email) /\ Answer(s, 409, FALSE)
     \/ Faults /\ Answer(s, 500, TRUE)
  /\ UNCHANGED users

\* HashPassword and the row; id by the create callback, if there is one.
NewUser(f) ==
  [id |-> IF IDCallbacks THEN f.email ELSE NoID, password |-> f.password]

\* Mutant: an upsert instead of an insert (repo.Update for repo.Create).
CreateUpserts(s) ==
  /\ pc[s] = "create"
  /\ users' = [users EXCEPT ![form[s].email] = NewUser(form[s])]
  /\ Answer(s, 201, FALSE)

\* The UNIQUE constraint on email and the primary key let the row in.
Insertable(f) ==
  /\ ~Registered(f.email)
  /\ \A e \in Emails : Registered(e) => users[e].id # NewUser(f).id

\* INSERT: a violated constraint is a 500 like any other error, and an answer
\* of the database that is lost leaves the row behind.
Create(s) ==
  /\ pc[s] = "create"
  /\ \/ /\ Insertable(form[s])
        /\ users' = [users EXCEPT ![form[s].email] = NewUser(form[s])]
        /\ \/ Answer(s, 201, FALSE)
           \/ Faults /\ Answer(s, 500, TRUE)
     \/ /\ \/ ~Insertable(form[s]) /\ Answer(s, 500, FALSE)
           \/ Faults /\ Answer(s, 500, TRUE)
        /\ UNCHANGED users

\* The process dies: no answer.
Crash(s) ==
  /\ Faults /\ pc[s] # "idle"
  /\ Return(s)
  /\ UNCHANGED <<users, answered>>

Next ==
  \E s \in Slots :
    \/ \E f \in Form : Submit(s, f)
    \/ Lookup(s)
    \/ Create(s)
    \/ Crash(s)

Spec == Init /\ [][Next]_vars
-----------------------------------------------------------------------------
(* Properties *)

TypeOK ==
  /\ users \in [Emails -> User \cup {NoRow}]
  /\ pc \in [Slots -> {"idle", "lookup", "create"}]
  /\ form \in [Slots -> Form \cup {NoForm}]
  /\ \A s \in Slots : pc[s] # "idle" => form[s] # NoForm
  /\ answered \subseteq [status : {201, 409, 500}, form : Form, faulty : BOOLEAN]

\* Whoever was answered 201 owns the account: it stays, under the password
\* that came with that request, however many registered the email at once.
AcknowledgedAccountsKept ==
  \A a \in answered : a.status = 201 =>
    Registered(a.form.email) /\ users[a.form.email].password = a.form.password

\* 409 is answered only for an email that has an account.
ConflictIsTrue ==
  \A a \in answered : a.status = 409 => Registered(a.form.email)

\* token.go:283 "register a new user", 284 "the email is unique (409 when it
\* exists)": a refusal that no fault caused is a 409 for an email that is taken.
RefusedMeansTaken ==
  \A a \in answered : a.status # 201 /\ ~a.faulty =>
    a.status = 409 /\ Registered(a.form.email)
=============================================================================
