------------------------------ MODULE MCSwitch ------------------------------
EXTENDS Switch
=============================================================================
