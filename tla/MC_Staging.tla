----------------------------- MODULE MC_Staging -----------------------------
(* Instances of Staging for TLC.                                            *)
EXTENDS Staging

\* TypeOK, CreatesTogether and AuditIsTrue: a staged creation and what is staged
\* for it are committed together (Commit), and the audit log names only changes
\* that were made.
CommitsAreWhole == TypeOK /\ CreatesTogether /\ AuditIsTrue
=============================================================================
