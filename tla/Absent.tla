------------------------------- MODULE Absent -------------------------------
\* What a field holds when it holds nothing: None is an unset optional, a nil
\* slice, or no value at all; Null is JSON's null.
CONSTANTS None, Null
=============================================================================
