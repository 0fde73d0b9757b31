------------------------------ MODULE MCMainApp ------------------------------
EXTENDS MainApp

CONSTANTS m1, m2

TwoModules == <<m1, m2>>
===============================================================================
