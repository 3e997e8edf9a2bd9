----------------------- MODULE UserRegistrationProofs -----------------------
(***************************************************************************)
(* Proofs about UserRegistration for any calls, spellings and passwords.   *)
(***************************************************************************)
EXTENDS UserRegistration, TLAPS

(* A stored row is the one its call inserted, and that call has ended. *)
RowsHaveCalls ==
    \A u \in users :
        /\ u = Row(u.id) /\ pc[u.id] = "done"
        /\ answer[u.id] \in {"registered", "error"}
        /\ asked[u.id].password # EmptyPassword

(* What the place of a call says of it: only a call that has hashed a      *)
(* password goes on, and no stored row has the key of an open insert.      *)
CallInv(c) ==
    /\ pc[c] # "done" <=> answer[c] = "none"
    /\ pc[c] \in {"lookup", "insert", "open"} => asked[c].password # EmptyPassword
    /\ pc[c] = "open" => \A u \in users : u.email # Row(c).email
    /\ answer[c] = "registered" => Row(c) \in users

(* No two stored rows have the same key. *)
KeysAreUnique == \A u, v \in users : u.email = v.email => u = v

(* The inductive invariant. *)
UserInv ==
    /\ UserTypeOK
    /\ RowsHaveCalls
    /\ \A c \in Calls : CallInv(c)
    /\ KeysAreUnique
    /\ TakenHasACause

-----------------------------------------------------------------------------
(* The row of a call has the types of the table. *)
LEMMA RowType ==
    ASSUME UserTypeOK, NEW c \in Calls
    PROVE  /\ Row(c) \in [id : Calls, email : Spellings,
                          hash : [salt : Calls, of : Passwords]]
           /\ asked[c] \in [email : Spellings, password : Passwords]
  <1>1. asked[c] \in [email : Spellings, password : Passwords]
    BY UserConstants DEF UserTypeOK
  <1>2. Normalize(asked[c].email) \in Spellings
    BY <1>1, UserConstants DEF Normalize
  <1> QED
    BY <1>1, <1>2 DEF Row, Hash

(* A row, and whether two emails are one mailbox, depends on the requests  *)
(* only, and those never change.                                           *)
LEMMA RowsAreFixed ==
    ASSUME UNCHANGED asked
    PROVE  \A c \in Calls : Row(c)' = Row(c)
  BY DEF Row, Hash, Normalize

(* Two calls have the same key exactly when they have the same mailbox. *)
LEMMA KeyIsMailbox ==
    ASSUME NEW c \in Calls, NEW d \in Calls
    PROVE  SameMailbox(asked[c].email, asked[d].email) <=> Row(c).email = Row(d).email
  BY DEF SameMailbox, Row, Normalize

-----------------------------------------------------------------------------
(* The invariant holds at first. *)
LEMMA UserInitially == Init => UserInv
  BY DEF Init, UserInv, UserTypeOK, RowsHaveCalls, CallInv, KeysAreUnique, TakenHasACause

(* A step of one call that stores nothing, with what it has to show. *)
LEMMA QuietStep ==
    ASSUME UserInv, NEW c \in Calls, UNCHANGED <<users, asked>>, pc[c] # "done",
           NEW q \in {"lookup", "insert", "open", "done"},
           NEW a \in {"none", "taken", "error"},
           pc' = [pc EXCEPT ![c] = q], answer' = [answer EXCEPT ![c] = a],
           q = "done" <=> a # "none",
           q # "done" => asked[c].password # EmptyPassword,
           q = "open" => ~Blocked(c) /\ Found(Row(c).email) = {},
           a = "taken" => Found(Row(c).email) # {} \/ FailsCheck(Row(c).email)
    PROVE  UserInv'
  <1>0. \A d \in Calls : Row(d)' = Row(d)
    BY RowsAreFixed
  <1>1. /\ pc \in [Calls -> {"hash", "lookup", "insert", "open", "done"}]
        /\ answer \in [Calls -> {"none", "registered", "taken", "error"}]
        /\ \A d \in Calls : /\ pc'[d] = IF d = c THEN q ELSE pc[d]
                            /\ answer'[d] = IF d = c THEN a ELSE answer[d]
    BY DEF UserInv, UserTypeOK
  <1>2. UserTypeOK'
    <2>1. /\ pc' \in [Calls -> {"hash", "lookup", "insert", "open", "done"}]
          /\ answer' \in [Calls -> {"none", "registered", "taken", "error"}]
      BY <1>1
    <2>2. ASSUME NEW x \in Calls, NEW y \in Calls,
                 pc'[x] = "open", pc'[y] = "open", Row(x).email = Row(y).email
          PROVE  x = y
      <3>1. CASE x # c /\ y # c
        BY <3>1, <2>2, <1>1 DEF UserInv, UserTypeOK
      <3>2. CASE x = c \/ y = c
        BY <3>2, <2>2, <1>1 DEF Blocked
      <3> QED
        BY <3>1, <3>2
    <2>3. /\ users' \subseteq [id : Calls, email : Spellings,
                               hash : [salt : Calls, of : Passwords]]
          /\ asked' \in [Calls -> Requests]
      BY DEF UserInv, UserTypeOK
    <2> QED
      BY <2>1, <2>2, <2>3, <1>0 DEF UserTypeOK
  <1>3. RowsHaveCalls'
    BY <1>0, <1>1 DEF UserInv, UserTypeOK, RowsHaveCalls
  <1>4. ASSUME NEW d \in Calls
        PROVE  CallInv(d)'
    <2>1. CASE d # c
      BY <2>1, <1>0, <1>1 DEF UserInv, CallInv
    <2>2. CASE d = c
      BY <2>2, <1>0, <1>1 DEF UserInv, CallInv, Found
    <2> QED
      BY <2>1, <2>2
  <1>5. KeysAreUnique'
    BY DEF UserInv, KeysAreUnique
  <1>6. ASSUME NEW d \in Calls, answer'[d] = "taken"
        PROVE  \/ \E u \in users : u.id # d /\ SameMailbox(asked[u.id].email, asked[d].email)
               \/ FailsCheck(Normalize(asked[d].email))
    <2>1. CASE d # c
      BY <2>1, <1>1, <1>6 DEF UserInv, TakenHasACause
    <2>2. CASE d = c /\ FailsCheck(Row(c).email)
      BY <2>2 DEF Row
    <2>3. CASE d = c /\ Found(Row(c).email) # {}
      <3>1. PICK u \in users : u.email = Row(c).email
        BY <2>3 DEF Found
      <3>2. u = Row(u.id) /\ pc[u.id] = "done" /\ u.id \in Calls
        BY <3>1 DEF UserInv, UserTypeOK, RowsHaveCalls
      <3> QED
        BY <2>3, <3>1, <3>2, KeyIsMailbox
    <2> QED
      BY <2>1, <2>2, <2>3, <1>1, <1>6
  <1>7. TakenHasACause'
    BY <1>6 DEF TakenHasACause, SameMailbox, FailsCheck, Normalize
  <1> QED
    BY <1>2, <1>3, <1>4, <1>5, <1>7 DEF UserInv

(* Committing stores a row whose key nobody has. *)
LEMMA CommitStep ==
    ASSUME UserInv, NEW c \in Calls, Commit(c)
    PROVE  UserInv'
  <1>0. \A d \in Calls : Row(d)' = Row(d)
    BY RowsAreFixed DEF Commit
  <1>1. PICK a \in {"registered", "error"} :
            /\ pc' = [pc EXCEPT ![c] = "done"]
            /\ answer' = [answer EXCEPT ![c] = a]
    BY DEF Commit, End
  <1>2. /\ pc \in [Calls -> {"hash", "lookup", "insert", "open", "done"}]
        /\ answer \in [Calls -> {"none", "registered", "taken", "error"}]
        /\ \A d \in Calls : /\ pc'[d] = IF d = c THEN "done" ELSE pc[d]
                            /\ answer'[d] = IF d = c THEN a ELSE answer[d]
    BY <1>1 DEF UserInv, UserTypeOK
  <1>3. /\ pc[c] = "open" /\ users' = users \cup {Row(c)} /\ asked' = asked
        /\ asked[c].password # EmptyPassword /\ Row(c).id = c
        /\ \A u \in users : u.email # Row(c).email
    BY DEF Commit, UserInv, CallInv, Row
  <1>4. UserTypeOK'
    <2>1. /\ pc' \in [Calls -> {"hash", "lookup", "insert", "open", "done"}]
          /\ answer' \in [Calls -> {"none", "registered", "taken", "error"}]
      BY <1>1, <1>2
    <2>2. users' \subseteq [id : Calls, email : Spellings,
                            hash : [salt : Calls, of : Passwords]]
      BY <1>3, RowType DEF UserInv, UserTypeOK
    <2>3. asked' \in [Calls -> Requests]
      BY <1>3 DEF UserInv, UserTypeOK
    <2>4. \A x, y \in Calls :
            pc'[x] = "open" /\ pc'[y] = "open" /\ Row(x).email = Row(y).email => x = y
      BY <1>2 DEF UserInv, UserTypeOK
    <2> QED
      BY <2>1, <2>2, <2>3, <2>4, <1>0 DEF UserTypeOK
  <1>5. RowsHaveCalls'
    <2> SUFFICES ASSUME NEW u \in users'
                 PROVE  /\ u = Row(u.id)' /\ pc'[u.id] = "done"
                        /\ answer'[u.id] \in {"registered", "error"}
                        /\ asked'[u.id].password # EmptyPassword
      BY DEF RowsHaveCalls
    <2>1. CASE u = Row(c)
      BY <2>1, <1>0, <1>2, <1>3
    <2>2. CASE u \in users
      <3>1. u.id \in Calls /\ u = Row(u.id) /\ pc[u.id] = "done"
        BY <2>2 DEF UserInv, UserTypeOK, RowsHaveCalls
      <3> QED
        BY <2>2, <3>1, <1>0, <1>2, <1>3 DEF UserInv, RowsHaveCalls
    <2> QED
      BY <2>1, <2>2, <1>3
  <1>6. ASSUME NEW d \in Calls
        PROVE  CallInv(d)'
    <2>1. CASE d # c
      <3>1. pc'[d] = "open" => Row(c).email # Row(d).email
        BY <2>1, <1>2, <1>3 DEF UserInv, UserTypeOK
      <3> QED
        BY <2>1, <3>1, <1>0, <1>2, <1>3 DEF UserInv, CallInv
    <2>2. CASE d = c
      BY <2>2, <1>0, <1>2, <1>3 DEF UserInv, CallInv
    <2> QED
      BY <2>1, <2>2
  <1>7. KeysAreUnique'
    BY <1>3 DEF UserInv, KeysAreUnique
  <1>8. TakenHasACause'
    <2> SUFFICES ASSUME NEW d \in Calls, answer'[d] = "taken"
                 PROVE  \/ \E u \in users : /\ u.id # d
                                            /\ SameMailbox(asked[u.id].email, asked[d].email)
                        \/ FailsCheck(Normalize(asked[d].email))
      BY <1>3 DEF TakenHasACause, SameMailbox, FailsCheck, Normalize
    <2>1. answer[d] = "taken"
      BY <1>2
    <2> QED
      BY <2>1 DEF UserInv, TakenHasACause
  <1> QED
    BY <1>4, <1>5, <1>6, <1>7, <1>8 DEF UserInv

(* Every other step of a call is quiet. *)
LEMMA CallStep ==
    ASSUME UserInv, NEW c \in Calls, Work(c) \/ Abort(c)
    PROVE  UserInv'
  <1>0. /\ pc \in [Calls -> {"hash", "lookup", "insert", "open", "done"}]
        /\ answer \in [Calls -> {"none", "registered", "taken", "error"}]
        /\ answer[c] = "none" => answer = [answer EXCEPT ![c] = "none"]
        /\ pc[c] # "done" => answer[c] = "none"
        /\ pc[c] \in {"lookup", "insert"} => asked[c].password # EmptyPassword
    BY DEF UserInv, UserTypeOK, CallInv
  <1>1. CASE HashPassword(c)
    BY <1>1, <1>0, QuietStep DEF HashPassword, End
  <1>2. CASE LookUp(c)
    BY <1>2, <1>0, QuietStep DEF LookUp, Existing, End
  <1>3. CASE Insert(c)
    BY <1>3, <1>0, QuietStep DEF Insert, NotUnique, Refused, End
  <1>4. CASE Commit(c)
    BY <1>4, CommitStep
  <1>5. CASE Abort(c)
    BY <1>5, <1>0, QuietStep DEF Abort, End
  <1> QED
    BY <1>1, <1>2, <1>3, <1>4, <1>5 DEF Work

(* Registrations keep the invariant, however they interleave. *)
THEOREM UserInvariant == Spec => []UserInv
  <1>1. Init => UserInv
    BY UserInitially
  <1>2. UserInv /\ [Next]_vars => UserInv'
    <2> SUFFICES ASSUME UserInv, [Next]_vars
                 PROVE  UserInv'
      OBVIOUS
    <2>1. CASE Next
      BY <2>1, CallStep DEF Next
    <2>2. CASE UNCHANGED vars
      BY <2>2 DEF vars, UserInv, UserTypeOK, RowsHaveCalls, CallInv, KeysAreUnique,
                  TakenHasACause, SameMailbox, FailsCheck, Row, Hash, Normalize
    <2> QED
      BY <2>1, <2>2
  <1> QED
    BY <1>1, <1>2, PTL DEF Spec

-----------------------------------------------------------------------------
(* Types, and the exclusiveness of open inserts, hold for any calls. *)
THEOREM UserTypeCorrect == Spec => []UserTypeOK
  <1>1. UserInv => UserTypeOK
    BY DEF UserInv
  <1> QED
    BY <1>1, UserInvariant, PTL

(* create_user stores at most one account per mailbox, for any number of   *)
(* concurrent calls and any spellings.                                     *)
THEOREM OneAccount == Spec => []OneAccountPerMailbox
  <1>1. UserInv => OneAccountPerMailbox
    <2> SUFFICES ASSUME UserInv, NEW u \in users, NEW v \in users,
                        SameMailbox(asked[u.id].email, asked[v.id].email)
                 PROVE  u = v
      BY DEF OneAccountPerMailbox
    <2>1. u.id \in Calls /\ v.id \in Calls /\ u = Row(u.id) /\ v = Row(v.id)
      BY DEF UserInv, UserTypeOK, RowsHaveCalls
    <2>2. u.email = v.email
      BY <2>1, KeyIsMailbox
    <2> QED
      BY <2>2 DEF UserInv, KeysAreUnique
  <1> QED
    BY <1>1, UserInvariant, PTL

(* A login opens exactly the account of the call that won. *)
THEOREM LoginsMatchRegistrations == Spec => []LoginIsTheWinners
  <1>1. UserInv => LoginIsTheWinners
    <2> SUFFICES ASSUME UserInv, NEW s \in Spellings, NEW p \in Passwords
                 PROVE  /\ Authenticate(s, p) =>
                            \E c \in Calls :
                                /\ SameMailbox(asked[c].email, s) /\ asked[c].password = p
                                /\ answer[c] \in {"registered", "error"}
                        /\ \A c \in Calls :
                            /\ answer[c] = "registered" /\ SameMailbox(asked[c].email, s)
                            /\ asked[c].password = p
                            => Authenticate(s, p)
      BY DEF LoginIsTheWinners
    <2>1. ASSUME Authenticate(s, p)
          PROVE  \E c \in Calls : /\ SameMailbox(asked[c].email, s) /\ asked[c].password = p
                                  /\ answer[c] \in {"registered", "error"}
      <3>1. PICK u \in users : u.email = Normalize(s) /\ u.hash.of = p
        BY <2>1 DEF Authenticate, Found, Verify
      <3>2. /\ u.id \in Calls /\ u = Row(u.id)
            /\ answer[u.id] \in {"registered", "error"}
        BY <3>1 DEF UserInv, UserTypeOK, RowsHaveCalls
      <3>3. Normalize(asked[u.id].email) = Normalize(s) /\ asked[u.id].password = p
        BY <3>1, <3>2 DEF Row, Hash
      <3> QED
        BY <3>2, <3>3 DEF SameMailbox, Normalize
    <2>2. ASSUME NEW c \in Calls, answer[c] = "registered",
                 SameMailbox(asked[c].email, s), asked[c].password = p
          PROVE  Authenticate(s, p)
      <3>1. Row(c) \in users /\ Row(c).email = Normalize(s) /\ Row(c).hash.of = p
        BY <2>2 DEF UserInv, CallInv, Row, Hash, SameMailbox, Normalize
      <3>2. p # EmptyPassword
        BY <3>1, <2>2 DEF UserInv, RowsHaveCalls, Row
      <3> QED
        BY <3>1, <3>2 DEF Authenticate, Found, Verify
    <2> QED
      BY <2>1, <2>2
  <1> QED
    BY <1>1, UserInvariant, PTL

(* The answer "taken" has a cause, and never a call that rolled back. *)
THEOREM TakenIsExplained == Spec => []TakenHasACause
  <1>1. UserInv => TakenHasACause
    BY DEF UserInv
  <1> QED
    BY <1>1, UserInvariant, PTL
=============================================================================
