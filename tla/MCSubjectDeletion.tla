-------------------------- MODULE MCSubjectDeletion --------------------------
EXTENDS SubjectDeletion
=============================================================================
