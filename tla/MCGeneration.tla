---------------------------- MODULE MCGeneration ----------------------------
(* Small instances of Generation for TLC. *)
EXTENDS Generation

Deployment(host, jobs, n) == [host |-> host, jobs |-> jobs, faults |-> n]

\* Two faults in the life of one job, one with a second job in the list, and three
\* jobs whose timings pile up; MCUnusable is refused where requests are validated.
MCUnusable == {4}
MCDeployments ==
  {Deployment(host, {1}, 2) : host \in Locals \union Providers}
    \union {Deployment(host, {1, 2}, 1) : host \in Locals \union Providers}
    \union {Deployment("windows", {1, 2, 3}, 0), Deployment("mac", {1, 4}, 0),
             Deployment("gemini_lyra", {4}, 0)}

=============================================================================
