----------------------------- MODULE EventTriggers -----------------------------
(***************************************************************************)
(* The event triggers of live555's BasicTaskScheduler0, as the code under  *)
(* src/src uses them.  live555 itself is there as headers and a binary     *)
(* library only, so this module is external to the sources.                *)
(*                                                                         *)
(* The scheduler's awaiting-handling flag of a trigger and the clientData  *)
(* last given to triggerEvent are one value: NoData while the flag is not  *)
(* set.                                                                    *)
(***************************************************************************)
EXTENDS Integers

CONSTANTS NumTriggers,  \* MAX_NUM_EVENT_TRIGGERS
          NoData

ASSUME NumTriggersAssumption == NumTriggers \in Nat \ {0}

\* An EventTriggerId is a bit mask in the code; 0 is never the id of a trigger.
TriggerIds == 1..NumTriggers

NoTrigger == 0

\* The scheduler looks for a trigger from the one after the last it used, and
\* comes to that one last.
Distance(last, id) == (id - last - 1 + NumTriggers) % NumTriggers

FirstAfter(last, ids) ==
  CHOOSE id \in ids : \A other \in ids : Distance(last, id) <= Distance(last, other)

\* The id of the next free slot; 0 when every slot has a handler.
CreateEventTrigger(handlers, last) ==
  IF TriggerIds \subseteq handlers THEN NoTrigger
                                   ELSE FirstAfter(last, TriggerIds \ handlers)

TriggerEvent(pending, id, clientData) == [pending EXCEPT ![id] = clientData]

\* Both the loop, before it calls the handler, and deleteEventTrigger.
ClearEvent(pending, id) == [pending EXCEPT ![id] = NoData]

Awaiting(pending) == {id \in TriggerIds : pending[id] # NoData}

================================================================================
