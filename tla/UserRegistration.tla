--------------------------- MODULE UserRegistration ---------------------------
(***************************************************************************)
(* Registration and login (src/modules/users/services.py): concurrent      *)
(* create_user calls look the email up, insert the user and rely on the    *)
(* unique index for what the lookup cannot see; authenticate_user is a     *)
(* single read of the committed table.                                     *)
(*                                                                         *)
(* PostgreSQL (READ COMMITTED) is external: a SELECT sees committed rows;  *)
(* an INSERT of a key that an open transaction has inserted waits for that *)
(* transaction to end, and then fails if the key was committed.  The       *)
(* caller owns the transaction and commits it; its answer may be lost.     *)
(***************************************************************************)
EXTENDS Integers

CONSTANTS
    Calls,          \* create_user calls
    Spellings,      \* the emails people type
    Strip, Lower,   \* str.strip and str.lower on them
    Length,         \* len of a spelling
    Passwords,      \* passwords, EmptyPassword among them
    EmptyPassword,
    Requests        \* the CreateUserRequests that are made

ASSUME UserConstants ==
    /\ Strip \in [Spellings -> Spellings]
    /\ Lower \in [Spellings -> Spellings]
    /\ Length \in [Spellings -> Nat]
    /\ EmptyPassword \in Passwords
    /\ Requests \subseteq [email : Spellings, password : Passwords]

VARIABLES
    users,   \* committed rows of users.users
    asked,   \* per call: the CreateUserRequest
    pc,      \* per call: where create_user or its caller is
    answer   \* per call: what the caller is told at the end

vars == <<users, asked, pc, answer>>

-----------------------------------------------------------------------------
NormalizeLowerOnly(s) == Lower[s]
Normalize(s) == Lower[Strip[s]]

(* argon2: every hash has a salt of its own, and verifies one password. *)
Hash(c, p) == [salt |-> c, of |-> p]
VerifyAny(p, h) == p # EmptyPassword
Verify(p, h) == p # EmptyPassword /\ h.of = p

Row(c) == [id |-> c, email |-> Normalize(asked[c].email), hash |-> Hash(c, asked[c].password)]

(* _get_user_by_email *)
Found(s) == {u \in users : u.email = s}

(* The constraints of the table: the width of the column is an error of    *)
(* its own, the check constraints and the unique index are IntegrityErrors.*)
TooWide(s) == Length[s] > 255
FailsCheck(s) == Length[s] < 3 \/ Length[s] > 254 \/ Lower[s] # s
NotUniqueNever(c) == FALSE
NotUnique(c) == Found(Row(c).email) # {}

(* An open transaction has inserted the key of c. *)
BlockedNever(c) == FALSE
Blocked(c) == \E d \in Calls \ {c} : pc[d] = "open" /\ Row(d).email = Row(c).email

End(c, a) ==
    /\ pc' = [pc EXCEPT ![c] = "done"]
    /\ answer' = [answer EXCEPT ![c] = a]

-----------------------------------------------------------------------------
(* create_user, first part: an empty password cannot be hashed. *)
HashPassword(c) ==
    /\ pc[c] = "hash"
    /\ \/ asked[c].password = EmptyPassword /\ End(c, "error")
       \/ /\ asked[c].password # EmptyPassword
          /\ pc' = [pc EXCEPT ![c] = "lookup"]
          /\ UNCHANGED answer
    /\ UNCHANGED <<users, asked>>

ExistingOrOpen(c) == Blocked(c) \/ Found(Row(c).email) # {}
Existing(c) == Found(Row(c).email) # {}

LookUp(c) ==
    /\ pc[c] = "lookup"
    /\ \/ Existing(c) /\ End(c, "taken")
       \/ /\ ~Existing(c)
          /\ pc' = [pc EXCEPT ![c] = "insert"]
          /\ UNCHANGED answer
    /\ UNCHANGED <<users, asked>>

(* except IntegrityError: roll back, and the email is taken. *)
Refused(c) == End(c, "taken")

(* session.flush: the INSERT. *)
Insert(c) ==
    LET e == Row(c).email IN
    /\ pc[c] = "insert" /\ ~Blocked(c)
    /\ \/ TooWide(e) /\ End(c, "error")
       \/ ~TooWide(e) /\ (FailsCheck(e) \/ NotUnique(c)) /\ Refused(c)
       \/ /\ ~TooWide(e) /\ ~FailsCheck(e) /\ ~NotUnique(c)
          /\ pc' = [pc EXCEPT ![c] = "open"]
          /\ UNCHANGED answer
    /\ UNCHANGED <<users, asked>>

(* The caller commits; it may not learn that it did. *)
Commit(c) ==
    /\ pc[c] = "open"
    /\ users' = users \cup {Row(c)}
    /\ End(c, "registered") \/ End(c, "error")
    /\ UNCHANGED asked

(* A statement fails, or runs into statement_timeout or, waiting for       *)
(* another call's key, into lock_timeout; the request is cancelled, the    *)
(* process dies: the session is rolled back.                               *)
Abort(c) ==
    /\ pc[c] # "done"
    /\ End(c, "error")
    /\ UNCHANGED <<users, asked>>

(* authenticate_user: the answer to a login at this moment. *)
Authenticate(s, p) == \E u \in Found(Normalize(s)) : Verify(p, u.hash)

-----------------------------------------------------------------------------
Init ==
    /\ users = {}
    /\ asked \in [Calls -> Requests]
    /\ pc = [c \in Calls |-> "hash"]
    /\ answer = [c \in Calls |-> "none"]

Work(c) == HashPassword(c) \/ LookUp(c) \/ Insert(c) \/ Commit(c)

Next == \E c \in Calls : Work(c) \/ Abort(c)

Spec == Init /\ [][Next]_vars

-----------------------------------------------------------------------------
(* Types; two open transactions never hold the same email.                 *)
UserTypeOK ==
    /\ users \subseteq [id : Calls, email : Spellings,
                        hash : [salt : Calls, of : Passwords]]
    /\ asked \in [Calls -> Requests]
    /\ pc \in [Calls -> {"hash", "lookup", "insert", "open", "done"}]
    /\ answer \in [Calls -> {"none", "registered", "taken", "error"}]
    /\ \A c, d \in Calls :
        pc[c] = "open" /\ pc[d] = "open" /\ Row(c).email = Row(d).email => c = d

(* Whatever case and white space people type. *)
SameMailbox(s, t) == Lower[Strip[s]] = Lower[Strip[t]]

(* However the calls interleave, at most one of the registrations of a     *)
(* mailbox is stored, so that scalar_one_or_none never finds two rows.     *)
OneAccountPerMailbox ==
    \A u, v \in users : SameMailbox(asked[u.id].email, asked[v.id].email) => u = v

(* A login succeeds with the password of the call that won: every          *)
(* registered user can log in with any spelling of the email, and the      *)
(* password of a call that lost the race opens nothing. A call that ended  *)
(* in an error may have won too: the reply to its commit was lost.         *)
LoginIsTheWinners ==
    \A s \in Spellings, p \in Passwords :
        /\ Authenticate(s, p) =>
            \E c \in Calls : /\ SameMailbox(asked[c].email, s) /\ asked[c].password = p
                             /\ answer[c] \in {"registered", "error"}
        /\ \A c \in Calls :
            /\ answer[c] = "registered" /\ SameMailbox(asked[c].email, s)
            /\ asked[c].password = p
            => Authenticate(s, p)

(* users.email_taken is answered for an email another call registered, or  *)
(* for one that the check constraints refuse, and never because of a call  *)
(* that went on to roll back.                                              *)
TakenHasACause ==
    \A c \in Calls : answer[c] = "taken" =>
        \/ \E u \in users : u.id # c /\ SameMailbox(asked[u.id].email, asked[c].email)
        \/ FailsCheck(Normalize(asked[c].email))
=============================================================================
