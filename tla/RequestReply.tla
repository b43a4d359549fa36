---------------------------- MODULE RequestReply ----------------------------
(***************************************************************************)
(* What the callers of a HID++ channel are promised, whatever queue, read  *)
(* thread and timers are behind it: a call ends once; the answer it gets   *)
(* is one the device gave to a request with the same correlation header;   *)
(* and no device answer is given to two calls, or to a call and then again *)
(* to nobody.                                                              *)
(***************************************************************************)
CONSTANTS Requests,   \* calls of send / send_with_timeout / send_and_forget
          HeaderOf,   \* the header a call's answer is recognised by
          None

VARIABLES status,     \* how far each call is
          answer,     \* whose answer each call was handed, None before
          spent       \* requests whose device answer has left the wire

vars == <<status, answer, spent>>

Status == {"new", "open", "answered", "sent", "unanswered", "refused"}

Asked == {r \in Requests : status[r] \notin {"new", "refused"}}

TypeOK ==
    /\ status \in [Requests -> Status]
    /\ answer \in [Requests -> Requests \cup {None}]
    /\ spent \subseteq Requests

Init ==
    /\ status = [r \in Requests |-> "new"]
    /\ answer = [r \in Requests |-> None]
    /\ spent = {}

Ask(r) ==
    /\ status[r] = "new"
    /\ status' = [status EXCEPT ![r] = "open"]
    /\ UNCHANGED <<answer, spent>>

Refuse(r) ==
    /\ status[r] = "new"
    /\ status' = [status EXCEPT ![r] = "refused"]
    /\ UNCHANGED <<answer, spent>>

\* The device answers q, and the open call r takes that answer.
HandOver(q, r) ==
    /\ q \in Asked \ spent
    /\ status[r] = "open" /\ answer[r] = None
    /\ HeaderOf[q] = HeaderOf[r]
    /\ answer' = [answer EXCEPT ![r] = q]
    /\ spent' = spent \cup {q}
    /\ UNCHANGED status

\* The device answers q, and no call takes the answer.
PassBy(q) ==
    /\ q \in Asked \ spent
    /\ spent' = spent \cup {q}
    /\ UNCHANGED <<status, answer>>

Return(r) ==
    /\ status[r] = "open" /\ answer[r] # None
    /\ status' = [status EXCEPT ![r] = "answered"]
    /\ UNCHANGED <<answer, spent>>

\* A call that expects no answer ends when its report is written.
ReturnSent(r) ==
    /\ status[r] = "open"
    /\ answer[r] = None
    /\ status' = [status EXCEPT ![r] = "sent"]
    /\ UNCHANGED <<answer, spent>>

GiveUp(r) ==
    /\ status[r] = "open"
    /\ status' = [status EXCEPT ![r] = "unanswered"]
    /\ UNCHANGED <<answer, spent>>

Next ==
    \E r \in Requests :
        \/ Ask(r) \/ Refuse(r) \/ Return(r) \/ ReturnSent(r) \/ GiveUp(r)
        \/ PassBy(r)
        \/ \E q \in Requests : HandOver(q, r)

Spec == Init /\ [][Next]_vars
=============================================================================
