-------------------------- MODULE AuthServiceProofs --------------------------
(***************************************************************************)
(* Proofs about AuthService, for every set of registrations, logins and    *)
(* passwords and every number of failures.                                 *)
(*                                                                         *)
(* What an accepted registration relies on is that its row is in the table *)
(* and that no other row has its login; both are inductive together, since *)
(* a row is inserted only where the login has none, and none is deleted.   *)
(***************************************************************************)
EXTENDS AuthService, TLAPS

-----------------------------------------------------------------------------
(***************************************************************************)
(* The types                                                               *)
(***************************************************************************)

\* Every reachable state of the service is well typed.
THEOREM TypeCorrect == Spec => []TypeOK
  <1> USE FaultsAssumption DEF TypeOK, Pc
  <1>1. Init => TypeOK
    BY DEF Init
  <1>2. TypeOK /\ [Next]_vars => TypeOK'
    <2> SUFFICES ASSUME TypeOK, [Next]_vars
                 PROVE  TypeOK'
      OBVIOUS
    <2>1. CASE UNCHANGED vars
      BY <2>1 DEF vars
    <2>2. ASSUME NEW r \in Registration, RegisterRefuse(r) \/ RegisterCheck(r) \/ RegisterConflict(r)
          PROVE  TypeOK'
      BY <2>2 DEF RegisterRefuse, RegisterCheck, RegisterConflict
    <2>3. ASSUME NEW r \in Registration, RegisterSave(r)
          PROVE  TypeOK'
      BY <2>3 DEF RegisterSave, Insert
    <2>4. ASSUME NEW r \in Registration, RegisterFail(r)
          PROVE  TypeOK'
      BY <2>4 DEF RegisterFail, Insert
    <2> QED
      BY <2>1, <2>2, <2>3, <2>4 DEF Next, Register
  <1> QED
    BY <1>1, <1>2, PTL DEF Spec

-----------------------------------------------------------------------------
(***************************************************************************)
(* The table                                                               *)
(***************************************************************************)

\* No two rows have the same login.
OneRow == \A u, v \in users : form[u].login = form[v].login => u = v

\* The row of an accepted registration is in the table.
AcceptedRow == \A r \in Registration : pc[r] = "accepted" => r \in users

\* Whatever a registration does, forms stay as they are and no row is deleted.
LEMMA TableGrows ==
    ASSUME NEW r \in Registration, Register(r)
    PROVE  UNCHANGED form /\ users \subseteq users'
  BY DEF Register, RegisterRefuse, RegisterCheck, RegisterSave, Insert, RegisterConflict, RegisterFail

\* A row goes in where its login has none, or the table is left alone.
LEMMA RowInserted ==
    ASSUME NEW r \in Registration, Register(r)
    PROVE  UNCHANGED users \/ (ByLogin(form[r].login) = {} /\ users' = users \cup {r})
  BY DEF Register, RegisterRefuse, RegisterCheck, RegisterSave, Insert, RegisterConflict, RegisterFail

\* The unique index holds, and with it every answer that was given.
LEMMA TableStep ==
    ASSUME TypeOK, OneRow, AcceptedRow, NEW r \in Registration, Register(r)
    PROVE  OneRow' /\ AcceptedRow'
  <1>1. OneRow'
    <2>1. CASE UNCHANGED users
      BY <2>1, TableGrows DEF OneRow
    <2>2. CASE ByLogin(form[r].login) = {} /\ users' = users \cup {r}
      <3>1. \A u \in users : form[u].login # form[r].login
        BY <2>2 DEF ByLogin
      <3> QED
        BY <2>2, <3>1, TableGrows DEF OneRow
    <2> QED
      BY <2>1, <2>2, RowInserted
  <1>2. AcceptedRow'
    <2> SUFFICES ASSUME NEW s \in Registration, pc'[s] = "accepted"
                 PROVE  s \in users'
      BY DEF AcceptedRow
    <2>1. CASE pc[s] = "accepted"
      BY <2>1, TableGrows DEF AcceptedRow
    <2>2. CASE pc[s] # "accepted"
      <3>1. r = s /\ RegisterSave(r)
        BY <2>2 DEF TypeOK, Register, RegisterRefuse, RegisterCheck, RegisterSave,
                    RegisterConflict, RegisterFail
      <3> QED
        BY <3>1 DEF RegisterSave, Insert
    <2> QED
      BY <2>1, <2>2
  <1> QED
    BY <1>1, <1>2

\* Every reachable table has one row for each login, and those of the accepted.
LEMMA TableInvariant == Spec => [](OneRow /\ AcceptedRow)
  <1>1. Init => OneRow /\ AcceptedRow
    BY DEF Init, OneRow, AcceptedRow
  <1>2. TypeOK /\ (OneRow /\ AcceptedRow) /\ [Next]_vars => (OneRow /\ AcceptedRow)'
    <2>1. ASSUME OneRow, AcceptedRow, UNCHANGED vars
          PROVE  OneRow' /\ AcceptedRow'
      BY <2>1 DEF OneRow, AcceptedRow, vars
    <2> QED
      BY <2>1, TableStep DEF Next
  <1> QED
    BY <1>1, <1>2, TypeCorrect, PTL DEF Spec

\* Whatever registers meanwhile, an accepted registration can log in with its
\* password and gets the token of its own id and role.
THEOREM AcceptedLogsIn == Spec => []AcceptedCanLogin
  <1>1. TypeOK /\ OneRow /\ AcceptedRow => AcceptedCanLogin
    <2> SUFFICES ASSUME TypeOK, OneRow, AcceptedRow,
                        NEW r \in Registration, pc[r] = "accepted"
                 PROVE  LoginAnswers(form[r].login, form[r].password) = {Token(r)}
      BY DEF AcceptedCanLogin
    <2>1. ByLogin(form[r].login) = {r}
      BY DEF ByLogin, OneRow, AcceptedRow, TypeOK
    <2>2. Verify(form[r].password, r)
      BY DEF Verify
    <2> QED
      BY <2>1, <2>2 DEF LoginAnswers
  <1> QED
    BY <1>1, TypeCorrect, TableInvariant, PTL

-----------------------------------------------------------------------------
(***************************************************************************)
(* Refusals                                                                *)
(***************************************************************************)

\* A registration that is turned away is so for a row with its login, which is
\* still there, or after a failure.
LEMMA RefusalStep ==
    ASSUME TypeOK, RefusalJustified, NEW r \in Registration, Register(r)
    PROVE  RefusalJustified'
  <1> SUFFICES ASSUME NEW s \in Registration, pc'[s] \in {"exists", "failed"}
               PROVE  (ByLogin(form[s].login))' # {} \/ faults' > 0
    BY DEF RefusalJustified
  <1>1. ByLogin(form[s].login) # {} => (ByLogin(form[s].login))' # {}
    BY TableGrows DEF ByLogin
  <1>2. faults > 0 => faults' > 0
    BY FaultsAssumption DEF TypeOK, Register, RegisterRefuse, RegisterCheck, RegisterSave,
                            RegisterConflict, RegisterFail
  <1>3. CASE pc[s] \in {"exists", "failed"}
    BY <1>1, <1>2, <1>3 DEF RefusalJustified
  <1>4. CASE pc[s] \notin {"exists", "failed"}
    <2>1. r = s
      BY <1>4 DEF TypeOK, Register, RegisterRefuse, RegisterCheck, RegisterSave,
                  RegisterConflict, RegisterFail
    <2>2. RegisterRefuse(s) \/ RegisterConflict(s) \/ RegisterFail(s)
      BY <2>1, <1>4 DEF TypeOK, Register, RegisterCheck, RegisterSave
    <2>3. CASE RegisterRefuse(s) \/ RegisterConflict(s)
      BY <1>1, <2>3 DEF RegisterRefuse, RegisterConflict
    <2>4. CASE RegisterFail(s)
      <3>1. faults \in Nat /\ faults' = faults + 1
        BY <2>4, FaultsAssumption DEF RegisterFail, TypeOK
      <3> QED
        BY <3>1
    <2> QED
      BY <2>2, <2>3, <2>4
  <1> QED
    BY <1>3, <1>4

\* No registration is turned away without a row that has its login or a failure.
THEOREM RefusalsJustified == Spec => []RefusalJustified
  <1>1. Init => RefusalJustified
    BY DEF Init, RefusalJustified
  <1>2. TypeOK /\ RefusalJustified /\ [Next]_vars => RefusalJustified'
    <2>1. ASSUME RefusalJustified, UNCHANGED vars
          PROVE  RefusalJustified'
      BY <2>1 DEF RefusalJustified, ByLogin, vars
    <2> QED
      BY <2>1, RefusalStep DEF Next
  <1> QED
    BY <1>1, <1>2, TypeCorrect, PTL DEF Spec

=============================================================================
