------------------------------ MODULE MCIotWifi ------------------------------
EXTENDS IotWifi, TLC

\* Handles, addresses, names and requests are only compared for equality.
Symmetry == Permutations(Handle) \cup Permutations(Ip) \cup Permutations(Id)
              \cup Permutations(Request)
===============================================================================
