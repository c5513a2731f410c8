------------------------------ MODULE SharedText ------------------------------
(***************************************************************************)
(* What the windows that show one editor buffer promise each other: the    *)
(* buffer has one history of texts, grown one revision at a time, and a    *)
(* window only ever moves forward along it.                                *)
(***************************************************************************)
EXTENDS Naturals, Sequences

CONSTANTS Readers, Texts

VARIABLES
    history,  \* the texts of the revisions, oldest first
    place     \* how far along the history every reader is, 0 = not yet there

svars == <<history, place>>

SInit ==
    /\ history = <<>>
    /\ place = [c \in Readers |-> 0]

Write(t) ==
    /\ history' = Append(history, t)
    /\ UNCHANGED place

Learn(c) ==
    /\ \E r \in place[c]..Len(history) : place' = [place EXCEPT ![c] = r]
    /\ UNCHANGED history

SNext ==
    \/ \E t \in Texts : Write(t)
    \/ \E c \in Readers : Learn(c)

SSpec == SInit /\ [][SNext]_svars
=============================================================================
