------------------------------- MODULE MCHops -------------------------------
(* URLs for the model checker: two origins that differ in the host, one that *)
(* differs in the scheme alone, two paths of one origin, and a host that is  *)
(* too long.                                                                 *)
EXTENDS Hops

U(https, host, path) == [https |-> https, host |-> host, path |-> path]

SomeUrls == {U(TRUE, "a", "/"), U(TRUE, "a", "/x"), U(TRUE, "b", "/"),
             U(FALSE, "a", "/"), U(TRUE, "long", "/")}
=============================================================================
