------------------------------ MODULE MCDispatch ------------------------------
EXTENDS Dispatch
=============================================================================
