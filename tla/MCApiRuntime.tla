---------------------------- MODULE MCApiRuntime ----------------------------
EXTENDS ApiRuntime
=============================================================================
