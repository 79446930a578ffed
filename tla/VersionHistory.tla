--------------------------- MODULE VersionHistory ---------------------------
(***************************************************************************)
(* What the versioned tables of the metadata store promise their readers:  *)
(* the saved states of one mapping are a history that is only ever         *)
(* appended to.  Entry n is the row whose version_number is n, and the     *)
(* last entry is the one definition.current_version_id points at.          *)
(***************************************************************************)
EXTENDS Integers, Sequences

CONSTANTS Links,     \* column_links payloads
          Configs,   \* retirement_config payloads
          NoConfig   \* retirement_config = None

VARIABLE history

\* One immutable mapping_version row, its number apart.
Entry == [links : Links, config : Configs \cup {NoConfig}]

Init == history = <<>>

Create(e) == history = <<>> /\ history' = <<e>>

\* A save appends the links of its request, with the retirement_config of the
\* request or the one an entry already saved holds.
Save(l, c) ==
    /\ history # <<>>
    /\ \/ c # NoConfig /\ history' = Append(history, [links |-> l, config |-> c])
       \/ \E i \in 1..Len(history) :
            history' = Append(history, [links |-> l, config |-> history[i].config])

Next == \/ \E e \in Entry : Create(e)
        \/ \E l \in Links, c \in Configs \cup {NoConfig} : Save(l, c)

Spec == Init /\ [][Next]_history
=============================================================================
