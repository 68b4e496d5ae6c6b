-------------------------------- MODULE MCFile --------------------------------
EXTENDS File, TLC

CONSTANTS p1, p2

MCByte == (p1 :> 1) @@ (p2 :> 2)
MCModes == {<<TRUE, TRUE>>}          \* the root directory is opened for reading only
MCFiles == <<3>>
====
