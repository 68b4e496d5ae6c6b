--------------------------------- MODULE MCVm ---------------------------------
EXTENDS Vm, TLC

CONSTANTS p1, p2

MCSbrk == {1, 3, -1, -2, -3}
====
