--------------------------- MODULE DocumentStore ---------------------------
(***************************************************************************)
(* What the vault promises: a document and its whole file appear in one    *)
(* step, the one whose upload is answered with success and none other, and *)
(* stay for every download, archived or not.  The exception has a name: a  *)
(* document is in doubt when its commit went unanswered, and may lose its  *)
(* file.                                                                   *)
(***************************************************************************)
CONSTANTS Documents, Readers,
          Bodies, Accepted, \* what an upload may send, and what it may store
          Absent            \* no file

VARIABLES
    body,   \* document -> what its upload sends
    told,   \* document -> the answer to its upload
    status, \* document -> "none", "active" or "archived"
    file,   \* document -> its file
    doubt,  \* the documents in doubt
    answer  \* download -> the one file it was given, or Absent; nothing yet

store == <<body, told, status, file, doubt, answer>>

Init ==
    /\ body = [d \in Documents |-> Absent]
    /\ told = [d \in Documents |-> "pending"]
    /\ status = [d \in Documents |-> "none"]
    /\ file = [d \in Documents |-> Absent]
    /\ doubt = {}
    /\ answer = [r \in Readers |-> {}]

\* An upload begins, and may be refused at once.
Send(d) ==
    /\ body[d] = Absent
    /\ \E f \in Bodies : body' = [body EXCEPT ![d] = f]
    /\ \E t \in {"pending", "refused"} : told' = [told EXCEPT ![d] = t]
    /\ UNCHANGED <<status, file, doubt, answer>>

Refuse(d) ==
    /\ told[d] = "pending"
    /\ told' = [told EXCEPT ![d] = "refused"]
    /\ UNCHANGED <<body, status, file, doubt, answer>>

\* The whole file is stored; the answer says so, or the document is in doubt.
Save(d) ==
    /\ told[d] = "pending" /\ body[d] \in Accepted
    /\ status' = [status EXCEPT ![d] = "active"]
    /\ file' = [file EXCEPT ![d] = body[d]]
    /\ \/ told' = [told EXCEPT ![d] = "saved"] /\ UNCHANGED doubt
       \/ told' = [told EXCEPT ![d] = "refused"] /\ doubt' = doubt \cup {d}
    /\ UNCHANGED <<body, answer>>

Lose(d) ==
    /\ d \in doubt
    /\ file' = [file EXCEPT ![d] = Absent]
    /\ UNCHANGED <<body, told, status, doubt, answer>>

Archive(d) ==
    /\ status[d] = "active"
    /\ status' = [status EXCEPT ![d] = "archived"]
    /\ UNCHANGED <<body, told, file, doubt, answer>>

Serve(r, d) ==
    /\ answer[r] = {} /\ status[d] # "none"
    /\ answer' = [answer EXCEPT ![r] = {file[d]}]
    /\ UNCHANGED <<body, told, status, file, doubt>>

Next ==
    \E d \in Documents :
        \/ Send(d) \/ Refuse(d) \/ Save(d) \/ Lose(d) \/ Archive(d)
        \/ \E r \in Readers : Serve(r, d)

Spec == Init /\ [][Next]_store
=============================================================================
