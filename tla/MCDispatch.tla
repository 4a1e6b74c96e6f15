----------------------------- MODULE MCDispatch -----------------------------
(* Small instances of Dispatch for TLC. *)
EXTENDS Dispatch, TLC

Deployment(mode, locals, keys, seed, items, n) ==
  [mode |-> mode, locals |-> locals, keys |-> keys,
   seed |-> seed, items |-> items, faults |-> n]

\* Two local workers that race each other, one alone, one beside a provider, and
\* providers only: with a second item where nothing fails, or with a fault.
\* One of the balances is seeded.
MCSettings ==
  {Deployment("local_only", Locals, {}, "unknown", 2, 0),
   Deployment("local_only", {"windows"}, {}, "unknown", 2, 1),
   Deployment("local_only", {"mac"}, {"elevenlabs"}, "unknown", 1, 1),
   Deployment("hybrid", {"windows"}, {"elevenlabs"}, "unknown", 2, 0),
   Deployment("hybrid", {"windows"}, {"elevenlabs"}, "unknown", 1, 1),
   Deployment("hybrid", {"mac"}, {"elevenlabs"}, "some", 1, 0),
   Deployment("paid_only", {}, Providers, "unknown", 1, 1)}

=============================================================================
