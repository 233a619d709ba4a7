------------------------------ MODULE TaskDelivery ------------------------------
(***************************************************************************)
(* What recovery promises for one task, without processes, files or        *)
(* requests: the text is emitted at most once at a time and only after the *)
(* intent is durable, a result is adopted only if there is one, and a      *)
(* decision is never taken back.                                           *)
(***************************************************************************)
CONSTANT Turns

VARIABLES phase,   \* what the durable record says of the task
          texts    \* texts[t]: is copy t of the task text at work in AO?

Phases == {"open", "uncertain", "delivered", "stopping",
           "completed", "cancelled", "blocked"}
Decided == {"completed", "cancelled", "blocked"}

Unsent == \A t \in Turns : texts[t] = "none"
Quiet == \A t \in Turns : texts[t] # "active"

Init ==
  /\ phase = "open"
  /\ texts = [t \in Turns |-> "none"]

\* The intent to send is recorded.
Commit == phase = "open" /\ phase' = "uncertain" /\ UNCHANGED texts

\* One copy leaves, and no other can be anywhere.
Emit(t) ==
  /\ phase = "uncertain" /\ Unsent
  /\ texts' = [texts EXCEPT ![t] = "active"]
  /\ UNCHANGED phase

\* The copy is lost on the way, or its turn ends.
Leaves(t) ==
  /\ texts[t] = "active"
  /\ \E s \in {"none", "ended"} : texts' = [texts EXCEPT ![t] = s]
  /\ UNCHANGED phase

\* It is certain that nothing was emitted: the task may be sent later.
Withdraw == phase = "uncertain" /\ Unsent /\ phase' = "open" /\ UNCHANGED texts

Adopt == phase = "uncertain" /\ ~Unsent /\ phase' = "delivered" /\ UNCHANGED texts

Stop == phase \in {"uncertain", "delivered"} /\ phase' = "stopping" /\ UNCHANGED texts

Complete ==
  /\ phase \in {"delivered", "stopping"}
  /\ \E t \in Turns : texts[t] = "ended"
  /\ phase' = "completed"
  /\ UNCHANGED texts

Cancel ==
  /\ phase \notin Decided /\ Quiet
  /\ phase' = "cancelled"
  /\ UNCHANGED texts

Block == phase \notin Decided /\ phase' = "blocked" /\ UNCHANGED texts

Next ==
  \/ Commit \/ Withdraw \/ Adopt \/ Stop \/ Complete \/ Cancel \/ Block
  \/ \E t \in Turns : Emit(t) \/ Leaves(t)

Spec == Init /\ [][Next]_<<phase, texts>>
=============================================================================
