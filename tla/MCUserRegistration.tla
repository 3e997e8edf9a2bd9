-------------------------- MODULE MCUserRegistration --------------------------
(* Instance of UserRegistration: three calls, one mailbox typed in three   *)
(* ways, and the lengths at which the constraints of the table bite.       *)
EXTENDS UserRegistration, TLC

CONSTANTS c1, c2, c3, p1, p2, empty

MCCalls == {c1, c2, c3}
MCPasswords == {p1, p2, empty}
MCSpellings == {"bo@x.io", "BO@X.IO", " bo@x.io", "bo", "256 chars"}
MCStrip == [s \in MCSpellings |-> IF s = " bo@x.io" THEN "bo@x.io" ELSE s]
MCLower == [s \in MCSpellings |-> IF s = "BO@X.IO" THEN "bo@x.io" ELSE s]
MCLength ==
    [s \in MCSpellings |->
        CASE s = "bo" -> 2 [] s = "256 chars" -> 256
          [] s = " bo@x.io" -> 8 [] OTHER -> 7]
MCRequests ==
    [email : {"bo@x.io", " bo@x.io"}, password : {p1, p2}]
    \cup {[email |-> s, password |-> p1] : s \in {"BO@X.IO", "bo", "256 chars"}}
    \cup {[email |-> "bo@x.io", password |-> empty]}
=============================================================================
