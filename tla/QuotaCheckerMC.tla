---------------------------- MODULE QuotaCheckerMC ---------------------------
(***************************************************************************)
(* Instances of QuotaChecker for TLC.                                      *)
(***************************************************************************)
EXTENDS QuotaChecker

\* Three accounts and one that is skipped, and a host that knows no account.
SomeLists == {<< >>, <<"disabled">>, <<"codex", "provider", "codex", "codex">>,
              <<"codex", "runtime_only">>, <<"no_index", "codex", "codex">>}

Result(upper, snake, terminal) ==
  [kind |-> "result", StatusCodeField |-> upper, status_code |-> snake, terminal |-> terminal]

\* One reply of each outcome, and a result that contradicts itself.
SomeReplies ==
       {[kind |-> "refused"], [kind |-> "retryable"]}
  \union {Result(Absent, "200", FALSE), Result("503", "503", FALSE),
          Result("404", Absent, TRUE), Result("200", "503", FALSE)}

=============================================================================
