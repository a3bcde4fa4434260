-------------------------------- MODULE Calendar --------------------------------
(***************************************************************************)
(* createEvent of the two calendar providers behind the integration hub.   *)
(* The provider's server is a remote one: a request may arrive after its   *)
(* caller gave up, or never.  Google takes the id of the event from the    *)
(* caller, derived from the idempotency key; Feishu gives the event an id  *)
(* of its own, and the provider remembers the keys of this process.        *)
(***************************************************************************)
EXTENDS Naturals, FiniteSets

CONSTANTS
    Creates,       \* calls of createEvent
    Keys,          \* idempotency keys
    NoKey,
    KeyOf,         \* the key of each call, or none
    FeishuCreates  \* the calls that go to Feishu

ASSUME CalendarAssumption ==
    /\ NoKey \notin Keys /\ Keys \cap Creates = {} /\ KeyOf \in [Creates -> Keys \cup {NoKey}]
    /\ FeishuCreates \subseteq Creates

VARIABLES
    creating,      \* "none", "look", "post", "check", "recheck", "done" or "failed"
    onTheWay,      \* the inserts the server did not get yet
    answer,        \* what the server said to an insert
    events,        \* the events of the server, by the insert that made them
    createdByKey   \* the keys Feishu calls of this process completed

calendarVars == <<creating, onTheWay, answer, events, createdByKey>>

CalendarInit ==
    /\ creating = [e \in Creates |-> "none"] /\ onTheWay = {}
    /\ answer = [e \in Creates |-> "none"] /\ events = {} /\ createdByKey = {}

Keyed(e) == KeyOf[e] # NoKey
ByGoogle(e) == e \notin FeishuCreates

(* Fault: the id is not derived from the key. *)
EventIdOwn(e) == e

(* eventIdFromOperation: the inserts that share an id share the event.     *)
EventId(e) == IF ByGoogle(e) /\ Keyed(e) THEN KeyOf[e] ELSE e

Exists(e) == \E f \in events : EventId(f) = EventId(e)

Becomes(e, state) == creating' = [creating EXCEPT ![e] = state]

Insert(e) == Becomes(e, "post") /\ onTheWay' = onTheWay \cup {e}

(* A keyed call to Google looks before it inserts. *)
BeginCreate(e) ==
    /\ creating[e] = "none"
    /\ \/ ByGoogle(e) /\ Keyed(e) /\ Becomes(e, "look") /\ UNCHANGED onTheWay
       \/ ByGoogle(e) /\ ~Keyed(e) /\ Insert(e)
       \/ /\ ~ByGoogle(e)
          /\ IF Keyed(e) /\ KeyOf[e] \in createdByKey
             THEN Becomes(e, "done") /\ UNCHANGED onTheWay
             ELSE Insert(e)
    /\ UNCHANGED <<answer, events, createdByKey>>

(* tryGet: 404 is no event, any other error ends the call. *)
Look(e) ==
    /\ creating[e] = "look"
    /\ \/ Becomes(e, "failed") /\ UNCHANGED onTheWay
       \/ IF Exists(e) THEN Becomes(e, "done") /\ UNCHANGED onTheWay ELSE Insert(e)
    /\ UNCHANGED <<answer, events, createdByKey>>

(* The server gets an insert: an id it has is a conflict; it may refuse.   *)
Arrive(e) ==
    /\ e \in onTheWay /\ onTheWay' = onTheWay \ {e}
    /\ \/ /\ ~Exists(e)
          /\ events' = events \cup {e} /\ answer' = [answer EXCEPT ![e] = "created"]
       \/ /\ Exists(e)
          /\ answer' = [answer EXCEPT ![e] = "conflict"] /\ UNCHANGED events
       \/ answer' = [answer EXCEPT ![e] = "error"] /\ UNCHANGED events
    /\ UNCHANGED <<creating, createdByKey>>

LoseInsert(e) ==
    /\ e \in onTheWay /\ onTheWay' = onTheWay \ {e}
    /\ UNCHANGED <<creating, answer, events, createdByKey>>

(* The answer is read: a conflict is looked into. *)
HearAnswer(e) ==
    /\ creating[e] = "post" /\ answer[e] # "none"
    /\ Becomes(e, CASE answer[e] = "created" -> "done"
                    [] answer[e] = "conflict" -> "check"
                    [] OTHER -> "failed")
    /\ createdByKey' = IF ~ByGoogle(e) /\ Keyed(e) /\ answer[e] = "created"
                       THEN createdByKey \cup {KeyOf[e]} ELSE createdByKey
    /\ UNCHANGED <<onTheWay, answer, events>>

(* A timeout or a cancelled caller is uncertain for a keyed Google call; a *)
(* connection that breaks is a failure.                                    *)
GiveUp(e) ==
    /\ creating[e] = "post"
    /\ \/ ByGoogle(e) /\ Keyed(e) /\ Becomes(e, "recheck")
       \/ Becomes(e, "failed")
    /\ UNCHANGED <<onTheWay, answer, events, createdByKey>>

Reconciled(e) == IF Exists(e) THEN "done" ELSE "failed"

(* The GET with a budget of its own.  After a conflict it runs within the  *)
(* try: its timeout is looked into once more.                              *)
Reconcile(e) ==
    /\ \/ creating[e] \in {"check", "recheck"} /\ Becomes(e, Reconciled(e))
       \/ creating[e] = "check" /\ Becomes(e, "recheck")
       \/ creating[e] \in {"check", "recheck"} /\ Becomes(e, "failed")
    /\ UNCHANGED <<onTheWay, answer, events, createdByKey>>

CalendarNext ==
    \E e \in Creates :
        \/ BeginCreate(e) \/ Look(e) \/ Arrive(e) \/ LoseInsert(e)
        \/ HearAnswer(e) \/ GiveUp(e) \/ Reconcile(e)

CalendarSpec == CalendarInit /\ [][CalendarNext]_calendarVars
-----------------------------------------------------------------------------
(* The calls of Google that carry one key make at most one event, however  *)
(* they overlap, time out or are retried, and a call that reports its      *)
(* event, of either provider, has one on the server.                       *)
OneEvent ==
    /\ \A e, f \in events :
          ByGoogle(e) /\ ByGoogle(f) /\ Keyed(e) /\ KeyOf[e] = KeyOf[f] => e = f
    /\ \A e \in Creates : creating[e] = "done" =>
          \E f \in events : f = e \/ (Keyed(e) /\ KeyOf[f] = KeyOf[e])
=============================================================================
