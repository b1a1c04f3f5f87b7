------------------------------ MODULE UndoLog -------------------------------
(***************************************************************************)
(* What taking over a user's desktop settings promises, whatever commands  *)
(* carry it out: the settings are changed only under a durable undo        *)
(* record, and the record is dropped only when the settings are again what *)
(* it says.  The user's own edits need no record.                          *)
(***************************************************************************)
CONSTANTS
  Setting,    \* the settings that are taken over
  Value,      \* what a setting can be
  UserValue,  \* what the user can make of it
  NoRecord,   \* stands for an absent record
  Same(_, _)  \* two values with the same effect

VARIABLES
  current,    \* the settings as the desktop has them
  record      \* the durable undo record

undoVars == <<current, record>>

Start ==
  /\ current \in [Setting -> UserValue]
  /\ record = NoRecord

\* The present settings are written down.
WriteDown ==
  /\ record' = current
  /\ UNCHANGED current

\* Settings change, under a record that stays.
Change ==
  /\ record # NoRecord
  /\ current' \in [Setting -> Value]
  /\ UNCHANGED record

Drop ==
  /\ record # NoRecord
  /\ \A s \in Setting : Same(current[s], record[s])
  /\ record' = NoRecord
  /\ UNCHANGED current

Edit ==
  /\ \E s \in Setting, v \in UserValue : current' = [current EXCEPT ![s] = v]
  /\ UNCHANGED record

Step == WriteDown \/ Change \/ Drop \/ Edit

UndoLogged == Start /\ [][Step]_undoVars
=============================================================================
