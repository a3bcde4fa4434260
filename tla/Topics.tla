--------------------------------- MODULE Topics ---------------------------------
(***************************************************************************)
(* What the conversations of a home promise: the list changes only while a *)
(* request or a start is under way, each change is made whole or not at    *)
(* all, and the end of the process changes nothing, but for one thing: a   *)
(* session taken out of the archive may be found in it again.              *)
(***************************************************************************)
CONSTANT Sessions

VARIABLES
    topics,    \* the lifecycle of each session, and the current session
    before,    \* what the list goes back to if the change is given up
    asked      \* a request or a start is under way

vars == <<topics, before, asked>>

Differ(t, u) == {s \in Sessions : t.life[s] # u.life[s]}

(* A session is added, archived or deleted, or another one is current. *)
RouteChange(t, u) ==
    /\ \E s \in Sessions : Differ(t, u) \subseteq {s}
    /\ \A s \in Differ(t, u) : t.life[s] = "absent" \/ u.life[s] # "active"
    /\ u.life[u.current] = "active"

Unarchived(t, u) ==
    /\ u.current = t.current
    /\ \A s \in Differ(t, u) : t.life[s] = "archived" /\ u.life[s] = "active"

Init ==
    /\ \/ topics.life[topics.current] = "active"
       \/ \A s \in Sessions : topics.life[s] = "absent"
    /\ before = topics
    /\ asked \in BOOLEAN

Ask == ~asked /\ asked' /\ before' = topics /\ UNCHANGED topics

Change ==
    /\ asked /\ asked'
    /\ RouteChange(topics, topics')
    /\ before' \in {topics, topics'}

TakeBack == asked /\ asked' \in BOOLEAN /\ topics' = before /\ UNCHANGED before

Answer == asked /\ asked' \in BOOLEAN /\ before' = topics /\ UNCHANGED topics

Restore == ~asked /\ Unarchived(topics, topics') /\ before' = topics' /\ UNCHANGED asked

Forget == Unarchived(topics', topics) /\ before' = topics' /\ asked'

Next == Ask \/ Change \/ TakeBack \/ Answer \/ Restore \/ Forget

Spec == Init /\ [][Next]_vars
=============================================================================
