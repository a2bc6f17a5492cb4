------------------------------- MODULE Wakeup -------------------------------
(***************************************************************************)
(* What the work queue promises the rest of the daemon, with no channel,    *)
(* no shard and no lock in it.  A caller asks for a service to be           *)
(* reconciled and is told whether the request was taken.  A request that    *)
(* was taken is owed a reconcile that STARTS after the answer; one service  *)
(* is never reconciled by two workers at a time; a refused request owes     *)
(* nothing.                                                                 *)
(***************************************************************************)
CONSTANT Services

VARIABLES owed,     \* services whose accepted request no reconcile has started on
          running,  \* services being reconciled now
          reply,    \* the last answer given: <<>> before any
          stopped   \* the daemon's context was cancelled

vars == <<owed, running, reply, stopped>>

Replies == {<<>>} \cup (Services \X BOOLEAN)

Init == /\ owed = {}
        /\ running = {}
        /\ reply = <<>>
        /\ stopped = FALSE

Accept(s) == /\ owed' = owed \cup {s}
             /\ reply' = <<s, TRUE>>
             /\ UNCHANGED <<running, stopped>>

\* Only a service that is owed nothing may be turned away.
Refuse(s) == /\ s \notin owed
             /\ reply' = <<s, FALSE>>
             /\ UNCHANGED <<owed, running, stopped>>

Start(s) == /\ s \in owed
            /\ s \notin running
            /\ owed' = owed \ {s}
            /\ running' = running \cup {s}
            /\ UNCHANGED <<reply, stopped>>

Finish(s) == /\ s \in running
             /\ running' = running \ {s}
             /\ UNCHANGED <<owed, reply, stopped>>

Stop == /\ stopped' = TRUE
        /\ UNCHANGED <<owed, running, reply>>

Next == \/ \E s \in Services : Accept(s) \/ Refuse(s) \/ Start(s) \/ Finish(s)
        \/ Stop

\* Until the daemon stops, what is owed is started and what is started ends.
Fairness == \A s \in Services : /\ WF_vars(~stopped /\ Start(s))
                                /\ WF_vars(Finish(s))

Spec == Init /\ [][Next]_vars /\ Fairness

\* The safety part alone.
SafeSpec == Init /\ [][Next]_vars
=============================================================================
