----------------------------- MODULE WriteOnce -----------------------------
(***************************************************************************)
(* Cells that are written at most once: a cell keeps the value that was    *)
(* chosen for it, and whoever asks for it is told that value and no other. *)
(***************************************************************************)
CONSTANTS Cell, Asker, None

VARIABLES value,    \* what was chosen for each cell
          told      \* what each asker was told last, as <<cell, value>>

OnceInit == value = [c \in Cell |-> None] /\ told = [a \in Asker |-> None]

Keeps(c) == value[c] # None => value'[c] = value[c]

\* An asker may be told in the step that chooses.
Asks(a) ==
    \/ told'[a] \in {told[a], None}
    \/ \E c \in Cell : value'[c] # None /\ told'[a] = <<c, value'[c]>>

OnceNext == (\A c \in Cell : Keeps(c)) /\ (\A a \in Asker : Asks(a))

OnceSpec == OnceInit /\ [][OnceNext]_<<value, told>>
=============================================================================
