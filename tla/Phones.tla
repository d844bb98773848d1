---------------------------------- MODULE Phones ----------------------------------
(***************************************************************************)
(* The verification of a customer's phone before an order: a code is sent  *)
(* to the phone, and confirming it makes the phone the user's.  The life   *)
(* of a code in redis is that of Otp; here it is there or not, and every   *)
(* confirmation gives the right one.                                       *)
(***************************************************************************)
EXTENDS FiniteSets

CONSTANTS Users, Phones, Guest, None

\* what a run assumes of the constants
PhonesAssumption == None \notin Phones /\ Guest \notin Users

VARIABLES
  code,    \* code[p]: whether a code sent to the phone is there
  phone,   \* phone[u]: the verified phone in the row of a user, or None
  verify,  \* verify[u]: a confirmation by u: where it is, and of which phone
  answer   \* what the last request was answered

vars == <<code, phone, verify, answer>>

Customers == Users \cup {Guest}
Verify == [pc: {"delete", "update"}, phone: Phones]
NoVerify == [pc |-> "idle", phone |-> None]

TypeOK ==
  /\ code \in [Phones -> BOOLEAN]
  /\ phone \in [Users -> Phones \cup {None}]
  /\ verify \in [Customers -> Verify \cup {NoVerify}]
  /\ answer \in {"none", "ok", "err"}

Init ==
  /\ code = [p \in Phones |-> FALSE]
  /\ phone = [u \in Users |-> None]
  /\ verify = [c \in Customers |-> NoVerify]
  /\ answer = "none"

Answer(a) == answer' = a

\* checkUserPhoneNumberStatus: a user whose phone is verified has no need; that another user has
\* the phone is an error, and so is a bad token
Check(u, p) ==
  CASE phone[u] # None                   -> "verified"
    [] OTHER -> IF \E v \in Users \ {u} : phone[v] = p THEN "error" ELSE "free"

\* sendOtpToUser: of a guest nothing is checked; an error of the check is logged and the code
\* sent all the same; the SMS may fail, with the code left
SendCode(c, p, sms) ==
  /\ IF c \in Users /\ Check(c, p) = "verified" THEN UNCHANGED code /\ Answer("err")
     ELSE code' = [code EXCEPT ![p] = TRUE] /\ Answer(IF sms THEN "ok" ELSE "err")
  /\ UNCHANGED <<phone, verify>>

\* redis drops it
Expire(p) ==
  /\ code[p]
  /\ code' = [code EXCEPT ![p] = FALSE]
  /\ UNCHANGED <<phone, verify, answer>>

\* verifyUserMobile reads the code
Confirm(c, p) ==
  /\ verify[c] = NoVerify
  /\ IF code[p] THEN verify' = [verify EXCEPT ![c] = [pc |-> "delete", phone |-> p]]
                     /\ UNCHANGED answer
     ELSE Answer("err") /\ UNCHANGED verify
  /\ UNCHANGED <<code, phone>>

\* and deletes it: a confirmation that read it too is not kept from going on
DeleteCode(c) ==
  /\ verify[c].pc = "delete"
  /\ code' = [code EXCEPT ![verify[c].phone] = FALSE]
  /\ IF c = Guest THEN verify' = [verify EXCEPT ![c] = NoVerify] /\ Answer("ok")
     ELSE verify' = [verify EXCEPT ![c].pc = "update"] /\ UNCHANGED answer
  /\ UNCHANGED phone

\* updateUserPhoneNumber: of the users' phones the table has each once, and refuses a second
Update(u, ok) ==
  /\ verify[u].pc = "update"
  /\ verify' = [verify EXCEPT ![u] = NoVerify]
  /\ IF ok /\ \A v \in Users \ {u} : phone[v] # verify[u].phone
     THEN phone' = [phone EXCEPT ![u] = verify[u].phone] /\ Answer("ok")
     ELSE UNCHANGED phone /\ Answer("err")
  /\ UNCHANGED code

Next ==
  \/ \E c \in Customers :
       \/ \E p \in Phones : Confirm(c, p) \/ \E sms \in BOOLEAN : SendCode(c, p, sms)
       \/ DeleteCode(c)
  \/ \E u \in Users, ok \in BOOLEAN : Update(u, ok)
  \/ \E p \in Phones : Expire(p)

Spec == Init /\ [][Next]_vars

=============================================================================
