--------------------------- MODULE SettingRegister ---------------------------
(***************************************************************************)
(* What SettingsAdm promises of one setting: a register whose value only a *)
(* save changes, and a set of spare values it may fall back to, but only   *)
(* while a save is under way or when a crash interrupts one.  Until the    *)
(* copies have been inspected after a restart, a load may fail.            *)
(***************************************************************************)
CONSTANTS Values, Factory, NoResult, LoadError, NoSave

VARIABLES value,    \* what a load returns
          spare,    \* values a copy still holds, seen or on the medium
          saving,   \* the value being saved, or NoSave
          ready,    \* the copies have been inspected since the last restart
          out       \* the result of the last load

vars == <<value, spare, saving, ready, out>>

TypeOK == /\ value \in Values
          /\ spare \subseteq Values
          /\ saving \in Values \cup {NoSave}
          /\ ready \in BOOLEAN
          /\ out \in Values \cup {NoResult, LoadError}

Init == /\ value = Factory
        /\ spare \in SUBSET {Factory}
        /\ saving = NoSave
        /\ ready = FALSE
        /\ out = NoResult

Begin == /\ saving = NoSave /\ ready
         /\ saving' \in Values
         /\ UNCHANGED <<value, spare, ready, out>>

\* The copies being overwritten one after the other, any of the spares, the
\* value before or the value after may be the one a crash would leave.
Slip == /\ saving # NoSave
        /\ value' \in spare \cup {value, saving}
        /\ spare' \subseteq spare \cup {value, saving}

Overwrite == Slip /\ UNCHANGED <<saving, ready, out>>

\* A save that returns has taken effect.
Return == /\ saving # NoSave /\ value = saving
          /\ saving' = NoSave
          /\ UNCHANGED <<value, spare, ready, out>>

\* Synchronisation and recovery.
Tend == /\ saving = NoSave
        /\ spare' \subseteq spare \cup {value}
        /\ UNCHANGED <<value, saving, out>>

Inspect == Tend /\ ready' = TRUE
Mirror == Tend /\ UNCHANGED ready

\* A restart interrupts a save, or finds none and changes nothing.
Crash == /\ Slip \/ Tend
         /\ saving' = NoSave /\ ready' = FALSE
         /\ UNCHANGED out

Load == /\ saving = NoSave
        /\ out' = value \/ (~ready /\ out' = LoadError)
        /\ UNCHANGED <<value, spare, saving, ready>>

Next == Begin \/ Overwrite \/ Return \/ Inspect \/ Mirror \/ Crash \/ Load

Spec == Init /\ [][Next]_vars
=============================================================================
