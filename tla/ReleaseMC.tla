----------------------------- MODULE ReleaseMC -----------------------------
(* An instance of the release pipeline for TLC: b requires a; one pull     *)
(* request fixes a, one breaks a and moves b to its next major version,    *)
(* one changes the platform and, without saying so, b.                     *)
EXTENDS ReleaseProperties

MCApps == {"a", "b"}
MCRequires == {<<"b", "a">>}
MCPullRequests == 1..3
Change(subject, kind) == [subject |-> subject, kind |-> kind]
MCTouches == <<{"a"}, {"a", "b"}, {"b", Platform}>>
MCDeclares ==
  <<{Change("a", "fix")},
    {Change("a", "breaking"), Change("b", "feature")},
    {Change(Platform, "fix")}>>
MCRepins == <<{}, {<<"b", "a">>}, {}>>
=============================================================================
