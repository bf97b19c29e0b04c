---------------------------- MODULE MCValidation ----------------------------
\* One validation of all suites or of one; the benchmark has two levels, of one
\* and of two requests, and one wave at each.
EXTENDS Validation

MCRequests == {"all", "smoke"}
MCLevels == <<1, 2>>
=============================================================================
