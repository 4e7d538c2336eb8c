------------------------------ MODULE MCTriage ------------------------------
\* Small instances of Triage, in the field of MCField.
EXTENDS Triage, MCField
=============================================================================
