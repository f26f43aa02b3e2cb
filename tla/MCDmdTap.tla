------------------------------ MODULE MCDmdTap ------------------------------
EXTENDS DmdTap

\* The controller's display, one past the seqlock's room, and a colorizer's.
Small    == [endpoint |-> "pinmame", size |-> 1, identify |-> TRUE]
Large    == [endpoint |-> "pinmame", size |-> 2, identify |-> TRUE]
Coloured == [endpoint |-> "other", size |-> 2, identify |-> TRUE]

MCDisplays == {Small, Large, Coloured}
MCFrames   == <<1, 2>>
=============================================================================
