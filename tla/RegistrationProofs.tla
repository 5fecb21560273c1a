-------------------------- MODULE RegistrationProofs --------------------------
(***************************************************************************)
(* Proofs about Registration, for any number of concurrent requests.       *)
(*                                                                         *)
(* Kept alone is not inductive for want of a reason why a later insert     *)
(* cannot reach an acknowledged row; the reason is that a statement writes *)
(* users[e] only while users[e] is NoRow (WriteOnce), which is a fact      *)
(* about steps and needs no invariant but the types.  Nothing here depends *)
(* on IDCallbacks: the accounts are as safe on the connections cmd/auth    *)
(* opens, where only one row fits into the table.                          *)
(***************************************************************************)
EXTENDS Registration, TLAPS

LEMMA RowIsRow == \A f \in Form : NewUser(f) \in User /\ NewUser(f) # NoRow
  BY RegistrationAssumption, NothingAssumption DEF NewUser, Form, User

(* The type invariant is inductive. *)
LEMMA TypeStep == TypeOK /\ [Next]_vars => TypeOK'
<1> SUFFICES ASSUME TypeOK, [Next]_vars PROVE TypeOK'
  OBVIOUS
<1> USE NothingAssumption
<1>1. ASSUME NEW s \in Slots, NEW f \in Form, Submit(s, f) PROVE TypeOK'
  BY <1>1 DEF Submit, TypeOK
<1>2. ASSUME NEW s \in Slots, Lookup(s) PROVE TypeOK'
  <2>1. form[s] \in Form
    BY <1>2 DEF TypeOK, Lookup
  <2>2. UNCHANGED answered \/ \E n \in {409, 500}, b \in BOOLEAN :
          answered' = answered \cup {[status |-> n, form |-> form[s], faulty |-> b]}
    BY ZenonT(60), <1>2 DEF Lookup, Answer, Goto
  <2>3. answered' \subseteq [status : {201, 409, 500}, form : Form, faulty : BOOLEAN]
    BY <2>1, <2>2 DEF TypeOK
  <2> QED
    BY <1>2, <2>1, <2>3 DEF Lookup, Answer, Return, Goto, TypeOK
<1>3. ASSUME NEW s \in Slots, Create(s) PROVE TypeOK'
  <2>1. form[s] \in Form
    BY <1>3 DEF TypeOK, Create
  <2>2. form[s].email \in Emails /\ NewUser(form[s]) \in User
    BY <2>1, RowIsRow DEF Form
  <2>3. \E n \in {201, 500}, b \in BOOLEAN :
          answered' = answered \cup {[status |-> n, form |-> form[s], faulty |-> b]}
    BY ZenonT(60), <1>3 DEF Create, Answer
  <2>4. answered' \subseteq [status : {201, 409, 500}, form : Form, faulty : BOOLEAN]
    BY <2>1, <2>3 DEF TypeOK
  <2> QED
    BY <1>3, <2>1, <2>2, <2>4 DEF Create, Answer, Return, TypeOK
<1>4. ASSUME NEW s \in Slots, Crash(s) PROVE TypeOK'
  BY <1>4 DEF Crash, Return, TypeOK
<1>5. CASE UNCHANGED vars
  BY <1>5 DEF vars, TypeOK
<1> QED
  BY <1>1, <1>2, <1>3, <1>4, <1>5 DEF Next

(* Every variable of the handler keeps its type, and a request in progress *)
(* holds a form.                                                           *)
THEOREM TypeCorrect == Spec => []TypeOK
<1>1. Init => TypeOK
  BY DEF Init, TypeOK
<1> QED
  BY <1>1, TypeStep, PTL DEF Spec
-----------------------------------------------------------------------------
(* A row, once written, is never written again. *)
LEMMA WriteOnce ==
  ASSUME TypeOK, [Next]_vars, NEW e \in Emails, Registered(e)
  PROVE  users'[e] = users[e] /\ users'[e] # NoRow
<1>1. ASSUME NEW s \in Slots, Create(s) PROVE users'[e] = users[e]
  <2>1. form[s] \in Form
    BY <1>1 DEF TypeOK, Create
  <2>2. CASE UNCHANGED users
    BY <2>2
  <2>3. CASE Insertable(form[s]) /\ users' = [users EXCEPT ![form[s].email] = NewUser(form[s])]
    BY <2>3 DEF Insertable, Registered, TypeOK
  <2> QED
    BY <1>1, <2>2, <2>3 DEF Create
<1>2. users'[e] = users[e]
  BY <1>1 DEF Next, Submit, Lookup, Goto, Answer, Crash, Return, vars
<1> QED
  BY <1>2 DEF Registered

(* What an answer says is true when it is given. *)
LEMMA NewAnswer ==
  ASSUME TypeOK, [Next]_vars, NEW a \in answered', a \notin answered
  PROVE  /\ a.form \in Form
         /\ a.status = 201 =>
              /\ users'[a.form.email] # NoRow
              /\ users'[a.form.email].password = a.form.password
         /\ a.status = 409 => users'[a.form.email] # NoRow
<1>1. ASSUME NEW s \in Slots, Lookup(s)
      PROVE  a.form = form[s] /\ form[s] \in Form
             /\ a.status # 201 /\ users' = users
             /\ (a.status = 409 => Registered(form[s].email))
  BY <1>1 DEF Lookup, Answer, Goto, TypeOK
<1>2. ASSUME NEW s \in Slots, Create(s)
      PROVE  /\ a.form = form[s] /\ form[s] \in Form
             /\ a.status # 409
             /\ a.status = 201 => users' = [users EXCEPT ![form[s].email] = NewUser(form[s])]
  BY <1>2 DEF Create, Answer, TypeOK
<1>3. \E s \in Slots : Lookup(s) \/ Create(s)
  BY DEF Next, Submit, Crash, Return, vars
<1>4. CASE \E s \in Slots : Lookup(s)
  <2>1. PICK s \in Slots : Lookup(s)
    BY <1>4
  <2> QED
    BY <1>1, <2>1 DEF Registered
<1>5. CASE \E s \in Slots : Create(s)
  <2>1. PICK s \in Slots : Create(s)
    BY <1>5
  <2>2. form[s] \in Form /\ a.form = form[s]
    BY <1>2, <2>1
  <2>3. form[s].email \in Emails /\ NewUser(form[s]) # NoRow
        /\ NewUser(form[s]).password = form[s].password
    BY <2>2, RowIsRow DEF Form, NewUser
  <2> QED
    BY <1>2, <2>1, <2>2, <2>3 DEF TypeOK
<1> QED
  BY <1>3, <1>4, <1>5

(* 201 means the account is there, and stays there, with the password that *)
(* came with the request: two registrations of one email are never both    *)
(* acknowledged with different passwords.                                  *)
THEOREM AccountsSafe == Spec => []AcknowledgedAccountsKept
<1>1. Init => AcknowledgedAccountsKept
  BY DEF Init, AcknowledgedAccountsKept
<1>2. TypeOK /\ AcknowledgedAccountsKept /\ [Next]_vars => AcknowledgedAccountsKept'
  <2> SUFFICES ASSUME TypeOK, AcknowledgedAccountsKept, [Next]_vars,
                      NEW a \in answered', a.status = 201
               PROVE  /\ users'[a.form.email] # NoRow
                      /\ users'[a.form.email].password = a.form.password
    BY DEF AcknowledgedAccountsKept, Registered
  <2>1. CASE a \in answered
    <3>1. a.form.email \in Emails
      BY <2>1 DEF TypeOK, Form
    <3> QED
      BY <2>1, <3>1, WriteOnce DEF AcknowledgedAccountsKept
  <2>2. CASE a \notin answered
    BY <2>2, NewAnswer
  <2> QED
    BY <2>1, <2>2
<1> QED
  BY <1>1, <1>2, TypeCorrect, PTL DEF Spec

(* 409 is only ever said of an email that has an account. *)
THEOREM ConflictSafe == Spec => []ConflictIsTrue
<1>1. Init => ConflictIsTrue
  BY DEF Init, ConflictIsTrue
<1>2. TypeOK /\ ConflictIsTrue /\ [Next]_vars => ConflictIsTrue'
  <2> SUFFICES ASSUME TypeOK, ConflictIsTrue, [Next]_vars,
                      NEW a \in answered', a.status = 409
               PROVE  users'[a.form.email] # NoRow
    BY DEF ConflictIsTrue, Registered
  <2>1. CASE a \in answered
    <3>1. a.form.email \in Emails
      BY <2>1 DEF TypeOK, Form
    <3> QED
      BY <2>1, <3>1, WriteOnce DEF ConflictIsTrue
  <2>2. CASE a \notin answered
    BY <2>2, NewAnswer
  <2> QED
    BY <2>1, <2>2
<1> QED
  BY <1>1, <1>2, TypeCorrect, PTL DEF Spec
=============================================================================
