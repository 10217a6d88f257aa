------------------------------ MODULE AtomicStore ------------------------------
(***************************************************************************)
(* What StateStore.update promises: the durable state is a set of          *)
(* mutations that grows by one mutation at a time, and never shrinks.      *)
(***************************************************************************)
CONSTANT Updates

VARIABLE value   \* the mutations the durable state reflects

Init == value = {}

\* An update takes effect, all at once and on top of every earlier one.
Commit(u) ==
  /\ u \notin value
  /\ value' = value \cup {u}

Next == \E u \in Updates : Commit(u)

Spec == Init /\ [][Next]_value

===============================================================================
