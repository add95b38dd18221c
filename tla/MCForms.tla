------------------------------- MODULE MCForms -------------------------------
EXTENDS Forms

\* A boundary of one letter, which files may contain.
MCBoundary == <<Letter>>

MCNoBoundary == <<"no-boundary">>
=============================================================================
