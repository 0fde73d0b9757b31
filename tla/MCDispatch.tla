------------------------------ MODULE MCDispatch ------------------------------
EXTENDS Dispatch, TLC

\* Connections and handles are only compared for equality.
Symmetry == Permutations(Guid) \cup Permutations(Handle)
===============================================================================
